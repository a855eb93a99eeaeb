------------------------ MODULE SkillCatalogueProofs ------------------------
(* Proofs about the skill catalogue, for any number of skills, keys,       *)
(* artifacts, command processes and edits from outside: types, and that    *)
(* what the server runs was approved as it is, is not revoked, keeps the   *)
(* bytes that were approved, and that the audit names real changes.        *)
EXTENDS SkillCatalogue, TLAPS

RegistryFile == [Skill -> SkillRecord \cup {None}]

TrustFile == [KeyId -> TrustedKey \cup {None}]

Approval == [skill : Skill, sha : Bytes, permissions : Permissions]

(* What any copy of the skills file satisfies: the registry, the one a     *)
(* command or a call has read.  Approvals are only ever added, so an old   *)
(* copy stays good.                                                        *)
GoodRegistry(reg, approved) ==
    /\ reg \in RegistryFile
    /\ \A n \in Skill : reg[n] # None =>
         /\ reg[n].status = "candidate" <=> reg[n].approval = None
         /\ reg[n].approval # None /\ reg[n].approval.attestation # None =>
              LET att == reg[n].approval.attestation IN
              [skill |-> n, sha |-> att.sha, permissions |-> att.authority] \in approved

FilesInv ==
    /\ GoodRegistry(registry, history.approved)
    /\ trust \in TrustFile
    /\ artifact \in [Skill -> Bytes]

HistoryInv ==
    history \in [changed : SUBSET Command, approved : SUBSET Approval,
                 lost : BOOLEAN, edits : Nat]

Process ==
    {Idle} \cup [pc : {"loaded"}, cmd : Command, file : RegistryFile \cup TrustFile]
           \cup [pc : {"saved"}, cmd : Command]

GoodProcess(p) ==
    /\ p.pc = "loaded" =>
         IF TrustCommand(p.cmd) THEN p.file \in TrustFile
         ELSE GoodRegistry(p.file, history.approved)
    /\ p.pc = "saved" => p.cmd \in history.changed

ProcessesInv ==
    /\ cli \in [Cli -> Process]
    /\ \A c \in Cli : GoodProcess(cli[c])

Artifact == [permissions : Permissions, attestation : Attestation]

Todo == [skill : Skill, artifact : Artifact]

ServerState ==
    [phase : {"down", "up"}]
    \cup [phase : {"loading"}, trust : TrustFile, reading : Todo \cup {None},
          rewritten : BOOLEAN, todo : SUBSET Todo]

ServerInv ==
    /\ server \in ServerState
    /\ tools \in [Skill -> Tool \cup {None}]
    /\ server.phase = "down" => tools = NoTools
    /\ server.phase = "loading" /\ server.reading # None =>
         \/ artifact[server.reading.skill] = server.reading.artifact.attestation.sha
         \/ server.rewritten

(* A revocation that was saved is still there.                             *)
RevocationsKept(reg, tr, changed) ==
    \A m \in changed :
        /\ m.op = "revoke" => reg[m.subject] # None /\ reg[m.subject].status = "revoked"
        /\ m.op = "trust_revoke" => tr[m.subject] # None /\ tr[m.subject].revoked

KeptInv == ~history.lost => RevocationsKept(registry, trust, history.changed)

Call == [pc : {"verify", "run"}, skill : Skill, registry : RegistryFile,
         before : SUBSET (Skill \cup KeyId)]

CallInv ==
    call # None =>
        /\ server.phase = "up"
        /\ call \in Call
        /\ GoodRegistry(call.registry, history.approved)
        /\ tools[call.skill] # None
        /\ call.before \subseteq Revoked(history.changed)
        /\ ~history.lost =>
             \A n \in call.before \cap Skill :
                call.registry[n] # None /\ call.registry[n].status = "revoked"

IInv ==
    /\ FilesInv /\ HistoryInv /\ ProcessesInv /\ ServerInv /\ KeptInv /\ CallInv
    /\ RevokedNeverRuns /\ RunsApproved /\ BytesApproved /\ AuditBacked

-----------------------------------------------------------------------------
(* Commands and copies of the files                                        *)

LEMMA CommandFields ==
    ASSUME NEW m \in Command
    PROVE  /\ m.op \in {"candidate", "approve_legacy", "approve", "revoke",
                        "trust_add", "trust_revoke"}
           /\ TrustCommand(m) => m.subject \in KeyId
           /\ ~TrustCommand(m) => m.subject \in Skill
           /\ m.op = "candidate" => m.permissions \in Permissions
           /\ m.op = "approve_legacy" => m.sha \in Bytes
           /\ m.op = "approve" => m.key \in KeyId /\ m.signer \in SigningKey
           /\ m.op = "trust_add" => m.signer \in SigningKey
  BY DEF Command, TrustCommand

(* More approvals do not make a copy bad.                                  *)
LEMMA GoodGrows ==
    ASSUME NEW reg, NEW A, NEW B, A \subseteq B, GoodRegistry(reg, A)
    PROVE  GoodRegistry(reg, B)
  BY DEF GoodRegistry

(* The record a command puts in the registry.                              *)
NewRecord(file, m) == Changed(file, m)[m.subject]

LEMMA ChangedRegistry ==
    ASSUME NEW m \in Command, NEW file, NEW A, NEW B, A \subseteq B,
           ~TrustCommand(m), GoodRegistry(file, A), Accepted(file, m),
           artifact \in [Skill -> Bytes],
           m.op = "approve" =>
             [skill |-> m.subject, sha |-> artifact[m.subject],
              permissions |-> file[m.subject].permissions] \in B
    PROVE  GoodRegistry(Changed(file, m), B)
<1> DEFINE s == m.subject
           r == Changed(file, m)[s]
<1>1. s \in Skill /\ file \in RegistryFile /\ file[s] \in SkillRecord \cup {None}
  BY CommandFields DEF GoodRegistry, RegistryFile
<1>2. DOMAIN Changed(file, m) = Skill /\ \A n \in Skill : n # s => Changed(file, m)[n] = file[n]
  BY <1>1 DEF Changed, RegistryFile
<1>3. /\ r \in SkillRecord
      /\ r.status = "candidate" <=> r.approval = None
      /\ r.approval # None /\ r.approval.attestation # None =>
           LET att == r.approval.attestation IN
           [skill |-> s, sha |-> att.sha, permissions |-> att.authority] \in B
  <2>1. CASE m.op = "candidate"
    <3>1. r = candidate_record(m)
      BY <1>1, <2>1 DEF Changed, RegistryFile
    <3> QED
      BY <3>1, <2>1, CommandFields, SkillAssumption DEF candidate_record, SkillRecord
  <2>2. CASE m.op = "approve_legacy"
    <3>1. r = approved_record(file[s], m.sha, None) /\ file[s] \in SkillRecord /\ m.sha \in Bytes
      BY <1>1, <2>2, CommandFields DEF Changed, RegistryFile, Accepted, ensure_candidate
    <3> DEFINE app == [sha |-> m.sha, attestation |-> None]
    <3>2. app \in ApprovalRecord /\ app # None /\ app.attestation = None
      BY <3>1, SkillAssumption DEF ApprovalRecord
    <3>3. r = [file[s] EXCEPT !.status = "active", !.approval = app]
      BY <3>1 DEF approved_record
    <3>4. r \in SkillRecord /\ r.status = "active" /\ r.approval = app
      <4> HIDE DEF app
      <4> QED
        BY <3>1, <3>2, <3>3 DEF SkillRecord
    <3> QED
      BY <3>2, <3>4
  <2>3. CASE m.op = "approve"
    <3> DEFINE att == sign_approval(file, m)
               app == [sha |-> artifact[s], attestation |-> att]
    <3>1. r = approved_record(file[s], artifact[s], att) /\ file[s] \in SkillRecord
      BY <1>1, <2>3 DEF Changed, RegistryFile, Accepted, ensure_candidate, sha256_file
    <3>2. att = [key |-> m.key, signer |-> m.signer, sha |-> artifact[s],
                 authority |-> file[s].permissions]
      BY DEF sign_approval, sha256_file, manifest_authority_sha256
    <3>3. att \in Attestation
      BY <3>1, <3>2, <1>1, <2>3, CommandFields DEF Attestation, SkillRecord
    <3>4. app \in ApprovalRecord /\ app # None
      BY <3>3, <1>1, SkillAssumption DEF ApprovalRecord
    <3>5. r = [file[s] EXCEPT !.status = "active", !.approval = app]
      BY <3>1 DEF approved_record
    <3>6. r \in SkillRecord /\ r.status = "active" /\ r.approval = app
      <4> HIDE DEF att
      <4> HIDE DEF app
      <4> QED
        BY <3>5, <3>1, <3>4 DEF SkillRecord
    <3>7. [skill |-> s, sha |-> att.sha, permissions |-> att.authority] \in B
      BY <3>2, <2>3
    <3> QED
      BY <3>4, <3>6, <3>7
  <2>4. CASE m.op = "revoke"
    <3>1. r = [file[s] EXCEPT !.status = "revoked"] /\ file[s] \in SkillRecord
          /\ file[s].status = "active" /\ file[s] # None
      BY <1>1, <2>4 DEF Changed, RegistryFile, Accepted, revocable
    <3>2. r \in SkillRecord /\ r.status = "revoked" /\ r.approval = file[s].approval
      BY <3>1 DEF SkillRecord
    <3> QED
      BY <3>1, <3>2, <1>1 DEF GoodRegistry
  <2> QED
    BY <2>1, <2>2, <2>3, <2>4, CommandFields DEF TrustCommand
<1>4. Changed(file, m) \in RegistryFile
  BY <1>1, <1>2, <1>3 DEF RegistryFile, Changed
<1> QED
  BY <1>2, <1>3, <1>4 DEF GoodRegistry

LEMMA ChangedTrust ==
    ASSUME NEW m \in Command, NEW file \in TrustFile, TrustCommand(m), Accepted(file, m)
    PROVE  Changed(file, m) \in TrustFile
<1> DEFINE k == m.subject
<1>1. k \in KeyId /\ file[k] \in TrustedKey \cup {None}
  BY CommandFields DEF TrustFile
<1>2. CASE m.op = "trust_add"
  <2>1. Changed(file, m) = [file EXCEPT ![k] = add_key(m)]
    BY <1>2 DEF Changed
  <2>2. add_key(m) \in TrustedKey
    BY <1>2, CommandFields DEF add_key, TrustedKey
  <2> QED
    BY <2>1, <2>2 DEF TrustFile
<1>3. CASE m.op = "trust_revoke"
  <2>1. Changed(file, m) = [file EXCEPT ![k] = revoke_key(file[k])] /\ file[k] \in TrustedKey
    BY <1>1, <1>3 DEF Changed, Accepted, TrustFile
  <2>2. revoke_key(file[k]) \in TrustedKey
    BY <2>1 DEF revoke_key, TrustedKey
  <2> QED
    BY <2>1, <2>2 DEF TrustFile
<1> QED
  BY <1>2, <1>3 DEF TrustCommand

(* A command that starts from the files as they are keeps the revocations  *)
(* that were saved, and adds its own.                                      *)
LEMMA ChangedKeepsRegistry ==
    ASSUME NEW m \in Command, NEW reg, NEW tr, NEW A, NEW changed \in SUBSET Command,
           ~TrustCommand(m), GoodRegistry(reg, A), Accepted(reg, m),
           artifact \in [Skill -> Bytes],
           RevocationsKept(reg, tr, changed)
    PROVE  RevocationsKept(Changed(reg, m), tr, changed \cup {m})
<1> DEFINE s == m.subject
           r == Changed(reg, m)[s]
<1>1. s \in Skill /\ reg \in RegistryFile
  BY CommandFields DEF GoodRegistry
<1>2. \A n \in Skill : n # s => Changed(reg, m)[n] = reg[n]
  BY <1>1 DEF Changed, RegistryFile
<1>3. reg[s] # None /\ reg[s].status = "revoked" => FALSE
  BY CommandFields DEF Accepted, register_candidate, ensure_candidate, revocable, TrustCommand
<1>4. m.op = "revoke" => r # None /\ r.status = "revoked"
  <2> SUFFICES ASSUME m.op = "revoke" PROVE r # None /\ r.status = "revoked"
    OBVIOUS
  <2>1. reg[s] \in SkillRecord /\ reg[s] # None /\ r = [reg[s] EXCEPT !.status = "revoked"]
    BY <1>1 DEF Changed, RegistryFile, Accepted, revocable
  <2>2. r.status = "revoked" /\ r \in SkillRecord
    BY <2>1 DEF SkillRecord
  <2> QED
    BY <2>2, SkillAssumption
<1>5. ASSUME NEW x \in changed, x.op = "revoke"
      PROVE  Changed(reg, m)[x.subject] # None /\ Changed(reg, m)[x.subject].status = "revoked"
  <2>1. x \in Command /\ x.subject \in Skill
    BY <1>5, CommandFields DEF TrustCommand
  <2> QED
    BY <1>2, <1>3, <1>5, <2>1 DEF RevocationsKept
<1> QED
  BY <1>4, <1>5 DEF RevocationsKept, TrustCommand

LEMMA ChangedKeepsTrust ==
    ASSUME NEW m \in Command, NEW reg, NEW tr \in TrustFile, NEW changed \in SUBSET Command,
           TrustCommand(m), Accepted(tr, m), RevocationsKept(reg, tr, changed)
    PROVE  RevocationsKept(reg, Changed(tr, m), changed \cup {m})
<1> DEFINE k == m.subject
           r == Changed(tr, m)[k]
<1>1. k \in KeyId
  BY CommandFields
<1>2. \A n \in KeyId : n # k => Changed(tr, m)[n] = tr[n]
  BY <1>1 DEF Changed, TrustFile
<1>3. m.op = "trust_revoke" => r # None /\ r.revoked
  <2> SUFFICES ASSUME m.op = "trust_revoke" PROVE r # None /\ r.revoked
    OBVIOUS
  <2>1. tr[k] \in TrustedKey /\ r = revoke_key(tr[k])
    BY <1>1 DEF Changed, TrustFile, Accepted
  <2>2. r \in TrustedKey /\ r.revoked = TRUE
    BY <2>1 DEF revoke_key, TrustedKey
  <2> QED
    BY <2>2, SkillAssumption
<1>4. ASSUME NEW x \in changed, x.op = "trust_revoke"
      PROVE  Changed(tr, m)[x.subject] # None /\ Changed(tr, m)[x.subject].revoked
  <2>1. x \in Command /\ x.subject \in KeyId
    BY <1>4, CommandFields DEF TrustCommand
  <2>2. tr[x.subject] # None /\ tr[x.subject].revoked
    BY <1>4 DEF RevocationsKept
  <2>3. CASE m.op = "trust_revoke"
    BY <1>2, <1>3, <2>1, <2>2, <2>3
  <2>4. CASE m.op = "trust_add"
    <3>1. tr[k] = None
      BY <2>4 DEF Accepted
    <3> QED
      BY <1>2, <2>1, <2>2, <3>1
  <2> QED
    BY <2>3, <2>4 DEF TrustCommand
<1>5. \A x \in changed \cup {m} : x.op = "revoke" =>
        reg[x.subject] # None /\ reg[x.subject].status = "revoked"
  BY DEF RevocationsKept, TrustCommand
<1> QED
  BY <1>3, <1>4, <1>5 DEF RevocationsKept

-----------------------------------------------------------------------------
(* The commands                                                            *)

(* The files, the server and the call are not touched by a step of a       *)
(* command that saves nothing.                                             *)
LEMMA FrameOfCommand ==
    ASSUME IInv, UNCHANGED <<registry, trust, artifact, server, tools, call, history>>
    PROVE  /\ FilesInv' /\ HistoryInv' /\ ServerInv' /\ KeptInv' /\ CallInv'
           /\ RevokedNeverRuns' /\ RunsApproved' /\ BytesApproved'
<1>1. FilesInv' /\ HistoryInv'
  BY DEF IInv, FilesInv, HistoryInv
<1>2. ServerInv' /\ KeptInv' /\ CallInv'
  BY DEF IInv, ServerInv, KeptInv, CallInv
<1>3. RevokedNeverRuns' /\ RunsApproved' /\ BytesApproved'
  BY DEF IInv, RevokedNeverRuns, RevokedRuns, RunsApproved, BytesApproved
<1> QED
  BY <1>1, <1>2, <1>3

(* Setting the state of one process.                                       *)
LEMMA ProcessSet ==
    ASSUME ProcessesInv, NEW c \in Cli, NEW p \in Process, GoodProcess(p), UNCHANGED history,
           cli' = [cli EXCEPT ![c] = p]
    PROVE  ProcessesInv'
<1>1. cli' \in [Cli -> Process]
  BY DEF ProcessesInv
<1>2. \A d \in Cli : cli'[d] = IF d = c THEN p ELSE cli[d]
  BY DEF ProcessesInv
<1>3. \A d \in Cli : GoodProcess(cli[d]) /\ GoodProcess(p)
  BY DEF ProcessesInv
<1>4. \A d \in Cli : GoodProcess(cli[d])'
  BY <1>2, <1>3 DEF GoodProcess
<1> QED
  BY <1>1, <1>4 DEF ProcessesInv

LEMMA IdleProcess == Idle \in Process /\ GoodProcess(Idle)
  BY DEF Idle, Process, GoodProcess

(* A process that is not idle.                                             *)
LEMMA BusyProcess ==
    ASSUME ProcessesInv, NEW c \in Cli, cli[c].pc \in {"loaded", "saved"}
    PROVE  cli[c].cmd \in Command
<1>1. cli[c] \in Process
  BY DEF ProcessesInv
<1> QED
  BY <1>1 DEF Process, Idle

LEMMA LoadStep ==
    ASSUME IInv, NEW c \in Cli, NEW m \in Command, load(c, m)
    PROVE  IInv'
<1> DEFINE p == [pc |-> "loaded", cmd |-> m, file |-> FileOf(m)]
<1>1. FileOf(m) \in RegistryFile \cup TrustFile
  BY DEF FileOf, IInv, FilesInv, GoodRegistry
<1>2. p \in Process
  BY <1>1 DEF Process
<1>3. GoodProcess(p)
  BY DEF GoodProcess, FileOf, IInv, FilesInv
<1>4. ProcessesInv'
  BY <1>2, <1>3, ProcessSet DEF load, IInv
<1>5. AuditBacked'
  BY DEF AuditBacked, IInv, load
<1> QED
  BY <1>4, <1>5, FrameOfCommand DEF IInv, load

LEMMA EndStep ==
    ASSUME IInv, NEW c \in Cli, refuse(c) \/ die(c)
    PROVE  IInv'
<1>1. ProcessesInv'
  BY IdleProcess, ProcessSet DEF refuse, die, IInv
<1>2. AuditBacked'
  BY DEF AuditBacked, IInv, refuse, die
<1> QED
  BY <1>1, <1>2, FrameOfCommand DEF IInv, refuse, die

LEMMA AuditStep ==
    ASSUME IInv, NEW c \in Cli, append_control_audit(c)
    PROVE  IInv'
<1>1. ProcessesInv'
  BY IdleProcess, ProcessSet DEF append_control_audit, IInv
<1>2. AuditBacked'
  BY DEF AuditBacked, IInv, append_control_audit, ProcessesInv, GoodProcess
<1> QED
  BY <1>1, <1>2, FrameOfCommand DEF IInv, append_control_audit

(* What a save does, read off its definition.                              *)
LEMMA SaveEffect ==
    ASSUME IInv, NEW c \in Cli, save(c)
    PROVE  LET m == cli[c].cmd
               file == cli[c].file
           IN /\ m \in Command
              /\ IF TrustCommand(m) THEN file \in TrustFile
                 ELSE GoodRegistry(file, history.approved)
              /\ history' \in [changed : SUBSET Command, approved : SUBSET Approval,
                               lost : BOOLEAN, edits : Nat]
              /\ history'.changed = history.changed \cup {m}
              /\ history.approved \subseteq history'.approved
              /\ m.op = "approve" =>
                   [skill |-> m.subject, sha |-> artifact[m.subject],
                    permissions |-> file[m.subject].permissions] \in history'.approved
              /\ ~history'.lost => ~history.lost /\ FileOf(m) = file
<1> DEFINE m == cli[c].cmd
           file == cli[c].file
           new == [skill |-> m.subject, sha |-> artifact[m.subject],
                   permissions |-> file[m.subject].permissions]
<1>1. m \in Command
  BY BusyProcess DEF save, IInv
<1>2. IF TrustCommand(m) THEN file \in TrustFile ELSE GoodRegistry(file, history.approved)
  BY DEF IInv, ProcessesInv, GoodProcess, save
<1>3. m.op = "approve" => new \in Approval
  <2> SUFFICES ASSUME m.op = "approve" PROVE new \in Approval
    OBVIOUS
  <2>1. m.subject \in Skill /\ ~TrustCommand(m)
    BY <1>1, CommandFields DEF TrustCommand
  <2>2. file[m.subject] \in SkillRecord
    BY <1>2, <2>1 DEF save, Accepted, ensure_candidate, GoodRegistry, RegistryFile
  <2>3. file[m.subject].permissions \in Permissions /\ artifact[m.subject] \in Bytes
    BY <2>1, <2>2 DEF SkillRecord, IInv, FilesInv
  <2> QED
    BY <2>1, <2>3 DEF Approval
<1>4. /\ history.changed \in SUBSET Command /\ history.approved \in SUBSET Approval
      /\ history.lost \in BOOLEAN /\ history.edits \in Nat
  BY DEF IInv, HistoryInv
<1> DEFINE approved == IF m.op = "approve" THEN history.approved \cup {new} ELSE history.approved
           lost == history.lost \/ FileOf(m) # file
<1>5. history' = [history EXCEPT !.changed = history.changed \cup {m}, !.approved = approved,
                                 !.lost = lost]
  BY DEF save
<1>6. approved \in SUBSET Approval /\ lost \in BOOLEAN
  BY <1>3, <1>4
<1>7. /\ history.approved \subseteq approved
      /\ m.op = "approve" => new \in approved
      /\ ~lost => ~history.lost /\ FileOf(m) = file
  OBVIOUS
<1>8. /\ history' \in [changed : SUBSET Command, approved : SUBSET Approval,
                       lost : BOOLEAN, edits : Nat]
      /\ history'.changed = history.changed \cup {m}
      /\ history'.approved = approved /\ history'.lost = lost
  <2> HIDE DEF approved
  <2> HIDE DEF lost
  <2> HIDE DEF m
  <2> QED
    BY <1>1, <1>4, <1>5, <1>6 DEF IInv, HistoryInv
<1> QED
  BY <1>1, <1>2, <1>7, <1>8

LEMMA SaveStep ==
    ASSUME IInv, NEW c \in Cli, save(c)
    PROVE  IInv'
<1> DEFINE m == cli[c].cmd
           file == cli[c].file
<1>0. /\ m \in Command
      /\ IF TrustCommand(m) THEN file \in TrustFile ELSE GoodRegistry(file, history.approved)
      /\ history' \in [changed : SUBSET Command, approved : SUBSET Approval,
                       lost : BOOLEAN, edits : Nat]
      /\ history'.changed = history.changed \cup {m}
      /\ history.approved \subseteq history'.approved
      /\ m.op = "approve" =>
           [skill |-> m.subject, sha |-> artifact[m.subject],
            permissions |-> file[m.subject].permissions] \in history'.approved
      /\ ~history'.lost => ~history.lost /\ FileOf(m) = file
  BY SaveEffect
<1>1. /\ Accepted(file, m) /\ artifact \in [Skill -> Bytes]
      /\ registry' = IF TrustCommand(m) THEN registry ELSE Changed(file, m)
      /\ trust' = IF TrustCommand(m) THEN Changed(file, m) ELSE trust
      /\ cli' = [cli EXCEPT ![c] = [pc |-> "saved", cmd |-> m]]
      /\ UNCHANGED <<artifact, audit, server, tools, call>>
  BY DEF save, IInv, FilesInv
<1>2. GoodRegistry(registry, history'.approved) /\ GoodRegistry(registry, history.approved)
      /\ trust \in TrustFile
  BY <1>0, GoodGrows DEF IInv, FilesInv
<1> HIDE DEF m
<1> HIDE DEF file
<1>3. FilesInv'
  <2>1. CASE TrustCommand(m)
    <3>1. Changed(file, m) \in TrustFile
      BY <1>0, <1>1, <2>1, ChangedTrust
    <3> QED
      BY <1>1, <1>2, <2>1, <3>1 DEF FilesInv
  <2>2. CASE ~TrustCommand(m)
    <3>1. GoodRegistry(Changed(file, m), history'.approved)
      BY <1>0, <1>1, <2>2, ChangedRegistry
    <3> QED
      BY <1>1, <1>2, <2>2, <3>1 DEF FilesInv
  <2> QED
    BY <2>1, <2>2
<1>4. HistoryInv'
  BY <1>0 DEF HistoryInv
<1>5. ProcessesInv'
  <2> DEFINE p == [pc |-> "saved", cmd |-> m]
  <2>1. p \in Process
    BY <1>0 DEF Process
  <2>2. \A d \in Cli : cli'[d] = IF d = c THEN p ELSE cli[d]
    BY <1>1 DEF IInv, ProcessesInv
  <2>3. ASSUME NEW d \in Cli PROVE GoodProcess(cli[d])'
    <3>1. CASE d = c
      BY <1>0, <2>2, <3>1 DEF GoodProcess
    <3>2. CASE d # c
      <4>1. GoodProcess(cli[d]) /\ cli'[d] = cli[d]
        BY <2>2, <3>2 DEF IInv, ProcessesInv
      <4>2. \A f : GoodRegistry(f, history.approved) => GoodRegistry(f, history'.approved)
        BY <1>0, GoodGrows
      <4> QED
        BY <1>0, <4>1, <4>2 DEF GoodProcess
    <3> QED
      BY <3>1, <3>2
  <2>4. cli' \in [Cli -> Process]
    BY <1>1, <2>1 DEF IInv, ProcessesInv
  <2> QED
    BY <2>3, <2>4 DEF ProcessesInv
<1>6. ServerInv'
  BY <1>1 DEF IInv, ServerInv
<1>7. KeptInv'
  <2> SUFFICES ASSUME ~history'.lost
               PROVE  RevocationsKept(registry', trust', history'.changed)
    BY DEF KeptInv
  <2>1. /\ FileOf(m) = file
        /\ RevocationsKept(registry, trust, history.changed)
        /\ history.changed \in SUBSET Command
    BY <1>0 DEF IInv, KeptInv, HistoryInv
  <2>2. CASE TrustCommand(m)
    <3>1. file = trust
      BY <2>1, <2>2 DEF FileOf
    <3>2. RevocationsKept(registry, Changed(trust, m), history.changed \cup {m})
      BY <1>0, <1>1, <2>1, <2>2, <3>1, ChangedKeepsTrust
    <3> QED
      BY <1>0, <1>1, <2>2, <3>1, <3>2
  <2>3. CASE ~TrustCommand(m)
    <3>1. file = registry
      BY <2>1, <2>3 DEF FileOf
    <3>2. RevocationsKept(Changed(registry, m), trust, history.changed \cup {m})
      BY <1>0, <1>1, <1>2, <2>1, <2>3, <3>1, ChangedKeepsRegistry
    <3> QED
      BY <1>0, <1>1, <2>3, <3>1, <3>2
  <2> QED
    BY <2>2, <2>3
<1>8. CallInv'
  <2>1. Revoked(history.changed) \subseteq Revoked(history'.changed)
    BY <1>0 DEF Revoked
  <2>2. call # None => GoodRegistry(call.registry, history'.approved)
    BY <1>0, GoodGrows DEF IInv, CallInv
  <2> QED
    BY <1>0, <1>1, <2>1, <2>2 DEF IInv, CallInv
<1>9. RevokedNeverRuns' /\ RunsApproved' /\ BytesApproved' /\ AuditBacked'
  BY <1>0, <1>1
     DEF IInv, RevokedNeverRuns, RevokedRuns, RunsApproved, BytesApproved, AuditBacked
<1> QED
  BY <1>3, <1>4, <1>5, <1>6, <1>7, <1>8, <1>9 DEF IInv

-----------------------------------------------------------------------------
(* The server                                                              *)

(* The files and the commands are not touched by the server.               *)
LEMMA FrameOfServer ==
    ASSUME IInv, UNCHANGED <<registry, trust, artifact, cli, audit, history>>
    PROVE  FilesInv' /\ HistoryInv' /\ ProcessesInv' /\ KeptInv' /\ AuditBacked'
<1>1. FilesInv' /\ HistoryInv' /\ KeptInv' /\ AuditBacked'
  BY DEF IInv, FilesInv, HistoryInv, KeptInv, AuditBacked
<1>2. ProcessesInv'
  BY DEF IInv, ProcessesInv, GoodProcess
<1> QED
  BY <1>1, <1>2

(* While the server is not up there is no call.                            *)
LEMMA NoCall ==
    ASSUME IInv, server.phase # "up"
    PROVE  call = None
  BY DEF IInv, CallInv

LEMMA WithoutCall ==
    ASSUME call' = None
    PROVE  CallInv' /\ RevokedNeverRuns' /\ RunsApproved'
  BY DEF CallInv, RevokedNeverRuns, RevokedRuns, RunsApproved

(* What active_verified_artifacts says of one active skill.                *)
LEMMA VerifiedArtifact ==
    ASSUME NEW reg, NEW tr, NEW A, GoodRegistry(reg, A), NEW n \in ActiveSkills(reg),
           active_verified_artifacts(reg, tr)
    PROVE  LET a == ArtifactOf(reg, n) IN
           /\ a \in Artifact
           /\ [skill |-> n, sha |-> a.attestation.sha, permissions |-> a.permissions] \in A
           /\ ~tr[a.attestation.key].revoked
<1> DEFINE r == reg[n]
           att == r.approval.attestation
<1>1. n \in Skill /\ r # None /\ r \in SkillRecord
  BY DEF ActiveSkills, GoodRegistry, RegistryFile
<1>2. /\ r.approval # None /\ att # None
      /\ r.permissions = att.authority
      /\ ~tr[att.key].revoked
  BY DEF active_verified_artifacts, Verified, manifest_authority_sha256, verify_attestation
<1>3. r.approval \in ApprovalRecord /\ r.permissions \in Permissions
  BY <1>1, <1>2 DEF SkillRecord
<1>4. att \in Attestation
  BY <1>2, <1>3 DEF ApprovalRecord
<1>5. ArtifactOf(reg, n) = [permissions |-> r.permissions, attestation |-> att]
  BY DEF ArtifactOf
<1>6. [skill |-> n, sha |-> att.sha, permissions |-> att.authority] \in A
  BY <1>1, <1>2 DEF GoodRegistry
<1> HIDE DEF r
<1> QED
  BY <1>2, <1>3, <1>4, <1>5, <1>6 DEF Artifact

LEMMA StartStep ==
    ASSUME IInv, start
    PROVE  IInv'
<1> DEFINE todo == {[skill |-> n, artifact |-> ArtifactOf(registry, n)] : n \in ActiveSkills(registry)}
<1>1. \A n \in ActiveSkills(registry) : n \in Skill /\ ArtifactOf(registry, n) \in Artifact
  BY VerifiedArtifact DEF start, IInv, FilesInv, ActiveSkills
<1>2. todo \in SUBSET Todo
  BY <1>1 DEF Todo
<1>3. server' = [phase |-> "loading", trust |-> trust, reading |-> None, rewritten |-> FALSE,
                 todo |-> todo]
  BY DEF start
<1>4. server' \in ServerState /\ server'.phase = "loading" /\ server'.reading = None
  <2> HIDE DEF todo
  <2> QED
    BY <1>2, <1>3 DEF ServerState, IInv, FilesInv
<1>5. ServerInv' /\ BytesApproved'
  BY <1>4 DEF start, IInv, ServerInv, BytesApproved
<1>6. call' = None
  BY NoCall DEF start
<1> QED
  BY <1>5, <1>6, FrameOfServer, WithoutCall DEF IInv, start

(* The fields of a server that is loading.                                 *)
LEMMA LoadingServer ==
    ASSUME ServerInv, server.phase = "loading"
    PROVE  /\ server \in [phase : {"loading"}, trust : TrustFile, reading : Todo \cup {None},
                          rewritten : BOOLEAN, todo : SUBSET Todo]
           /\ server.reading # None => server.reading \in Todo
           /\ server.todo \subseteq Todo
  BY DEF ServerInv, ServerState

LEMMA StopServer ==
    ASSUME server' = [phase |-> "down"], tools' = NoTools
    PROVE  ServerInv' /\ BytesApproved'
<1>1. server' \in ServerState /\ server'.phase = "down"
  BY DEF ServerState
<1>2. tools' \in [Skill -> Tool \cup {None}] /\ \A n \in Skill : tools'[n] = None
  BY DEF NoTools
<1> QED
  BY <1>1, <1>2 DEF ServerInv, BytesApproved

LEMMA HashStep ==
    ASSUME IInv, from_approved_artifact
    PROVE  IInv'
<1>1. PICK t \in server.todo :
         IF Loadable(t)
         THEN /\ server' = [server EXCEPT !.todo = @ \ {t}, !.reading = t, !.rewritten = FALSE]
              /\ UNCHANGED tools
         ELSE /\ server' = [phase |-> "down"]
              /\ tools' = NoTools
  BY DEF from_approved_artifact
<1>2. ServerInv' /\ BytesApproved'
  <2>1. CASE Loadable(t)
    <3>1. t \in Todo /\ artifact[t.skill] = t.artifact.attestation.sha
      BY <2>1, LoadingServer DEF from_approved_artifact, IInv, Loadable, sha256_file
    <3>2. server' \in ServerState /\ server'.phase = "loading" /\ server'.reading = t
      <4> DEFINE rest == server.todo \ {t}
      <4>1. server' = [server EXCEPT !.todo = rest, !.reading = t, !.rewritten = FALSE]
        BY <1>1, <2>1
      <4>2. /\ server \in [phase : {"loading"}, trust : TrustFile, reading : Todo \cup {None},
                           rewritten : BOOLEAN, todo : SUBSET Todo]
            /\ rest \in SUBSET Todo
        BY LoadingServer DEF from_approved_artifact, IInv
      <4> HIDE DEF rest
      <4> QED
        BY <3>1, <4>1, <4>2 DEF ServerState
    <3>3. UNCHANGED <<tools, artifact>>
      BY <1>1, <2>1 DEF from_approved_artifact
    <3> QED
      BY <3>1, <3>2, <3>3 DEF IInv, ServerInv, BytesApproved
  <2>2. CASE ~Loadable(t)
    BY <1>1, <2>2, StopServer
  <2> QED
    BY <2>1, <2>2
<1>3. call' = None
  BY NoCall DEF from_approved_artifact
<1> QED
  BY <1>2, <1>3, FrameOfServer, WithoutCall DEF IInv, from_approved_artifact

LEMMA RegisterStep ==
    ASSUME IInv, register
    PROVE  IInv'
<1> DEFINE t == server.reading
           tool == [artifact |-> t.artifact, wasm |-> artifact[t.skill],
                    rewritten |-> server.rewritten]
<1>1. ServerInv' /\ BytesApproved'
  <2>1. CASE t.artifact.permissions \subseteq HostCapabilities
    <3>1. t \in Todo /\ server.rewritten \in BOOLEAN /\ artifact[t.skill] \in Bytes
      BY LoadingServer DEF register, IInv, Todo, FilesInv
    <3>2. tool \in Tool /\ t.skill \in Skill
      BY <3>1 DEF Tool, Todo, Artifact
    <3>3. tool.wasm = tool.artifact.attestation.sha \/ tool.rewritten
      BY DEF register, IInv, ServerInv
    <3>4. tools' = [tools EXCEPT ![t.skill] = tool] /\ server' = [server EXCEPT !.reading = None]
      BY <2>1 DEF register
    <3>5. server' \in ServerState /\ server'.phase = "loading" /\ server'.reading = None
      BY <3>4, LoadingServer DEF register, IInv, ServerState
    <3>6. tools' \in [Skill -> Tool \cup {None}]
          /\ \A n \in Skill : tools'[n] = IF n = t.skill THEN tool ELSE tools[n]
      <4> HIDE DEF tool
      <4> QED
        BY <3>2, <3>4 DEF IInv, ServerInv
    <3>7. ServerInv'
      BY <3>5, <3>6 DEF ServerInv
    <3>8. BytesApproved'
      <4> HIDE DEF tool
      <4> QED
        BY <3>3, <3>6 DEF IInv, BytesApproved
    <3> QED
      BY <3>7, <3>8
  <2>2. CASE ~(t.artifact.permissions \subseteq HostCapabilities)
    BY <2>2, StopServer DEF register
  <2> QED
    BY <2>1, <2>2
<1>2. call' = None
  BY NoCall DEF register
<1> QED
  BY <1>1, <1>2, FrameOfServer, WithoutCall DEF IInv, register

LEMMA ServeStep ==
    ASSUME IInv, serve
    PROVE  IInv'
<1>1. server' \in ServerState /\ server'.phase = "up" /\ UNCHANGED <<tools, artifact>>
  BY DEF serve, ServerState
<1>2. ServerInv' /\ BytesApproved'
  BY <1>1 DEF IInv, ServerInv, BytesApproved
<1>3. call' = None
  BY NoCall DEF serve
<1> QED
  BY <1>2, <1>3, FrameOfServer, WithoutCall DEF IInv, serve

LEMMA StopStep ==
    ASSUME IInv, stop
    PROVE  IInv'
  BY StopServer, FrameOfServer, WithoutCall DEF IInv, stop

-----------------------------------------------------------------------------
(* A call                                                                  *)

LEMMA ExecuteStep ==
    ASSUME IInv, NEW n \in Skill, execute(n)
    PROVE  IInv'
<1> DEFINE before == Revoked(history.changed)
<1>1. /\ call' = [pc |-> "verify", skill |-> n, registry |-> registry, before |-> before]
      /\ server.phase = "up" /\ tools[n] # None
      /\ UNCHANGED <<registry, trust, artifact, cli, audit, server, tools, history>>
  BY DEF execute
<1>2. ServerInv' /\ BytesApproved'
  BY <1>1 DEF IInv, ServerInv, BytesApproved
<1>3. \A x \in before : \E m \in history.changed :
         m \in Command /\ x = m.subject /\ m.op \in {"revoke", "trust_revoke"}
  BY DEF Revoked, IInv, HistoryInv
<1>4. before \in SUBSET (Skill \cup KeyId)
  BY <1>3, CommandFields
<1>5. ASSUME ~history.lost, NEW x \in before \cap Skill
      PROVE  registry[x] # None /\ registry[x].status = "revoked"
  <2>1. PICK m \in history.changed :
           m \in Command /\ x = m.subject /\ m.op \in {"revoke", "trust_revoke"}
    BY <1>3
  <2>2. m.op = "revoke"
    BY <2>1, CommandFields, SkillAssumption DEF TrustCommand
  <2> QED
    BY <1>5, <2>1, <2>2 DEF IInv, KeptInv, RevocationsKept
<1>6. GoodRegistry(registry, history.approved) /\ registry \in RegistryFile
  BY DEF IInv, FilesInv, GoodRegistry
<1>7. CallInv'
  <2> HIDE DEF before
  <2>1. call' \in Call
    BY <1>1, <1>4, <1>6 DEF Call
  <2>2. before \subseteq Revoked(history.changed)
    BY DEF before
  <2> QED
    BY <1>1, <1>5, <1>6, <2>1, <2>2 DEF CallInv
<1>8. RevokedNeverRuns' /\ RunsApproved'
  BY <1>1 DEF RevokedNeverRuns, RevokedRuns, RunsApproved
<1> QED
  BY <1>1, <1>2, <1>7, <1>8, FrameOfServer DEF IInv

LEMMA VerifyStep ==
    ASSUME IInv, verify_current
    PROVE  IInv'
<1>1. /\ call # None /\ call.pc = "verify" /\ call \in Call
      /\ UNCHANGED <<registry, trust, artifact, cli, audit, server, tools, history>>
  BY DEF verify_current, IInv, CallInv
<1>2. ServerInv' /\ BytesApproved'
  BY <1>1 DEF IInv, ServerInv, BytesApproved
<1>3. CASE ~Current(call.skill, call.registry, trust)
  BY <1>1, <1>2, <1>3, WithoutCall, FrameOfServer DEF IInv, verify_current
<1>4. CASE Current(call.skill, call.registry, trust)
  <2> DEFINE n == call.skill
             a == tools[n].artifact
  <2>1. call' = [call EXCEPT !.pc = "run"]
    BY <1>4 DEF verify_current
  <2>2. /\ call' \in Call /\ call'.pc = "run" /\ call'.skill = n
        /\ call'.registry = call.registry /\ call'.before = call.before
    BY <1>1, <2>1 DEF Call
  <2>3. CallInv'
    BY <1>1, <2>2 DEF IInv, CallInv
  <2>4. /\ n \in ActiveSkills(call.registry)
        /\ active_verified_artifacts(call.registry, trust)
        /\ ArtifactOf(call.registry, n) = a
        /\ GoodRegistry(call.registry, history.approved)
    BY <1>1, <1>4 DEF Current, IInv, CallInv
  <2>5. /\ a \in Artifact
        /\ [skill |-> n, sha |-> a.attestation.sha, permissions |-> a.permissions]
             \in history.approved
        /\ ~trust[a.attestation.key].revoked
    BY <2>4, VerifiedArtifact
  <2>6. RunsApproved'
    BY <1>1, <2>2, <2>5 DEF RunsApproved
  <2>7. ASSUME ~history.lost PROVE n \notin call.before /\ a.attestation.key \notin call.before
    <3>1. n \notin call.before
      BY <1>1, <2>4, <2>7 DEF IInv, CallInv, ActiveSkills
    <3>2. ASSUME a.attestation.key \in call.before PROVE FALSE
      <4>1. PICK m \in history.changed :
               a.attestation.key = m.subject /\ m.op \in {"revoke", "trust_revoke"}
        BY <1>1, <3>2 DEF IInv, CallInv, Revoked
      <4>2. m \in Command /\ a.attestation.key \in KeyId
        BY <2>5 DEF IInv, HistoryInv, Artifact, Attestation
      <4>3. m.op = "trust_revoke"
        BY <4>1, <4>2, CommandFields, SkillAssumption DEF TrustCommand
      <4> QED
        BY <2>5, <2>7, <4>1, <4>3 DEF IInv, KeptInv, RevocationsKept
    <3> QED
      BY <3>1, <3>2
  <2>8. RevokedNeverRuns'
    BY <1>1, <2>2, <2>7 DEF RevokedNeverRuns, RevokedRuns
  <2> QED
    BY <1>1, <1>2, <2>3, <2>6, <2>8, FrameOfServer DEF IInv
<1> QED
  BY <1>3, <1>4

LEMMA ExecutedStep ==
    ASSUME IInv, executed
    PROVE  IInv'
<1>1. ServerInv' /\ BytesApproved'
  BY DEF executed, IInv, ServerInv, BytesApproved
<1> QED
  BY <1>1, FrameOfServer, WithoutCall DEF IInv, executed

-----------------------------------------------------------------------------
(* Changes from outside                                                    *)

LEMMA RebuildStep ==
    ASSUME IInv, NEW n \in Skill, NEW b \in Bytes, rebuild(n, b)
    PROVE  IInv'
<1>1. /\ history' \in [changed : SUBSET Command, approved : SUBSET Approval,
                       lost : BOOLEAN, edits : Nat]
      /\ history'.changed = history.changed /\ history'.approved = history.approved
      /\ history'.lost = history.lost
  BY DEF rebuild, IInv, HistoryInv
<1>2. FilesInv' /\ HistoryInv'
  BY <1>1 DEF rebuild, IInv, FilesInv, HistoryInv
<1>3. ProcessesInv'
  BY <1>1 DEF rebuild, IInv, ProcessesInv, GoodProcess
<1>4. KeptInv' /\ AuditBacked'
  BY <1>1 DEF rebuild, IInv, KeptInv, AuditBacked
<1>5. server' \in ServerState /\ server'.phase = server.phase
      /\ (server.phase = "loading" => server'.reading = server.reading)
      /\ (server.phase = "loading" /\ server.reading # None /\ ~server'.rewritten =>
            server.reading.skill # n /\ ~server.rewritten)
  <2>1. CASE server.phase = "loading" /\ server.reading # None /\ server.reading.skill = n
    <3>1. server' = [server EXCEPT !.rewritten = TRUE]
      BY <2>1 DEF rebuild
    <3> QED
      BY <2>1, <3>1, LoadingServer DEF ServerState, IInv
  <2>2. CASE ~(server.phase = "loading" /\ server.reading # None /\ server.reading.skill = n)
    BY <2>2 DEF rebuild, IInv, ServerInv
  <2> QED
    BY <2>1, <2>2
<1>6. ServerInv'
  <2>1. \A x \in Skill : x # n => artifact'[x] = artifact[x]
    BY DEF rebuild, IInv, FilesInv
  <2>2. server.phase = "loading" /\ server.reading # None => server.reading.skill \in Skill
    BY LoadingServer DEF IInv, Todo
  <2> QED
    BY <1>5, <2>1, <2>2 DEF rebuild, IInv, ServerInv
<1>7. CallInv'
  BY <1>1, <1>5 DEF rebuild, IInv, CallInv
<1>8. RevokedNeverRuns' /\ RunsApproved' /\ BytesApproved'
  BY <1>1 DEF rebuild, IInv, RevokedNeverRuns, RevokedRuns, RunsApproved, BytesApproved
<1> QED
  BY <1>2, <1>3, <1>4, <1>6, <1>7, <1>8 DEF IInv

LEMMA EditStep ==
    ASSUME IInv, NEW n \in Skill, NEW p \in Permissions, edit_manifest(n, p)
    PROVE  IInv'
<1>1. /\ history' \in [changed : SUBSET Command, approved : SUBSET Approval,
                       lost : BOOLEAN, edits : Nat]
      /\ history'.changed = history.changed /\ history'.approved = history.approved
      /\ history'.lost = history.lost
  BY DEF edit_manifest, IInv, HistoryInv
<1>2. registry \in RegistryFile /\ registry[n] \in SkillRecord
  BY DEF edit_manifest, IInv, FilesInv, GoodRegistry, RegistryFile
<1>3. registry' = [registry EXCEPT ![n] = [registry[n] EXCEPT !.permissions = p]]
  BY DEF edit_manifest
<1>4. /\ registry' \in RegistryFile /\ registry'[n] \in SkillRecord
      /\ registry'[n].status = registry[n].status /\ registry'[n].approval = registry[n].approval
      /\ \A x \in Skill : x # n => registry'[x] = registry[x]
  BY <1>2, <1>3 DEF RegistryFile, SkillRecord
<1>5. GoodRegistry(registry', history.approved)
  BY <1>2, <1>4 DEF edit_manifest, IInv, FilesInv, GoodRegistry
<1>6. FilesInv' /\ HistoryInv'
  BY <1>1, <1>5 DEF edit_manifest, IInv, FilesInv, HistoryInv
<1>7. ProcessesInv'
  BY <1>1 DEF edit_manifest, IInv, ProcessesInv, GoodProcess
<1>8. KeptInv'
  <2>1. registry'[n] # None
    BY <1>4, SkillAssumption
  <2>2. \A m \in history.changed : m.op = "revoke" => m.subject \in Skill
    BY CommandFields DEF IInv, HistoryInv, TrustCommand
  <2> QED
    BY <1>1, <1>4, <2>1, <2>2 DEF edit_manifest, IInv, KeptInv, RevocationsKept
<1>9. ServerInv' /\ CallInv'
  BY <1>1 DEF edit_manifest, IInv, ServerInv, CallInv
<1>10. RevokedNeverRuns' /\ RunsApproved' /\ BytesApproved' /\ AuditBacked'
  BY <1>1 DEF edit_manifest, IInv, RevokedNeverRuns, RevokedRuns, RunsApproved, BytesApproved,
              AuditBacked
<1> QED
  BY <1>6, <1>7, <1>8, <1>9, <1>10 DEF IInv

-----------------------------------------------------------------------------

LEMMA InitIInv == Init => IInv
<1> SUFFICES ASSUME Init PROVE IInv
  OBVIOUS
<1>1. FilesInv
  BY DEF Init, FilesInv, GoodRegistry, RegistryFile, TrustFile
<1>2. HistoryInv /\ KeptInv /\ AuditBacked
  BY DEF Init, HistoryInv, KeptInv, RevocationsKept, AuditBacked
<1>3. ProcessesInv
  BY IdleProcess DEF Init, ProcessesInv
<1>4. ServerInv
  BY DEF Init, ServerInv, ServerState, NoTools
<1>5. CallInv /\ RevokedNeverRuns /\ RunsApproved /\ BytesApproved
  BY DEF Init, CallInv, RevokedNeverRuns, RevokedRuns, RunsApproved, BytesApproved, NoTools
<1> QED
  BY <1>1, <1>2, <1>3, <1>4, <1>5 DEF IInv

LEMMA NextIInv == IInv /\ [Next]_vars => IInv'
<1> SUFFICES ASSUME IInv, [Next]_vars PROVE IInv'
  OBVIOUS
<1>1. ASSUME NEW c \in Cli, NEW m \in Command, load(c, m) PROVE IInv'
  BY <1>1, LoadStep
<1>2. ASSUME NEW c \in Cli, refuse(c) \/ save(c) \/ append_control_audit(c) \/ die(c) PROVE IInv'
  BY <1>2, EndStep, SaveStep, AuditStep
<1>3. CASE start \/ from_approved_artifact \/ register \/ serve \/ stop
  BY <1>3, StartStep, HashStep, RegisterStep, ServeStep, StopStep
<1>4. ASSUME NEW n \in Skill, execute(n) PROVE IInv'
  BY <1>4, ExecuteStep
<1>5. CASE verify_current \/ executed
  BY <1>5, VerifyStep, ExecutedStep
<1>6. ASSUME NEW n \in Skill, NEW b \in Bytes, rebuild(n, b) PROVE IInv'
  BY <1>6, RebuildStep
<1>7. ASSUME NEW n \in Skill, NEW p \in Permissions, edit_manifest(n, p) PROVE IInv'
  BY <1>7, EditStep
<1>8. CASE UNCHANGED vars
  <2>1. ProcessesInv' /\ AuditBacked'
    BY <1>8 DEF vars, IInv, ProcessesInv, GoodProcess, AuditBacked
  <2> QED
    BY <1>8, <2>1, FrameOfCommand DEF vars, IInv
<1> QED
  BY <1>1, <1>2, <1>3, <1>4, <1>5, <1>6, <1>7, <1>8 DEF Next

LEMMA IInvTypes == IInv => TypeOK
<1> SUFFICES ASSUME IInv PROVE TypeOK
  OBVIOUS
<1>1. \A c \in Cli : cli[c].pc \in {"idle", "loaded", "saved"}
  <2> SUFFICES ASSUME NEW c \in Cli PROVE cli[c].pc \in {"idle", "loaded", "saved"}
    OBVIOUS
  <2>1. cli[c] \in Process
    BY DEF IInv, ProcessesInv
  <2> QED
    BY <2>1 DEF Process, Idle
<1>2. server.phase \in {"down", "loading", "up"}
  BY DEF IInv, ServerInv, ServerState
<1>3. server.phase = "down" => tools = NoTools /\ call = None
  BY NoCall DEF IInv, ServerInv
<1>4. /\ registry \in [Skill -> SkillRecord \cup {None}]
      /\ \A n \in Skill :
           registry[n] # None => (registry[n].status = "candidate" <=> registry[n].approval = None)
  BY DEF IInv, FilesInv, GoodRegistry, RegistryFile
<1>5. trust \in [KeyId -> TrustedKey \cup {None}] /\ artifact \in [Skill -> Bytes]
  BY DEF IInv, FilesInv, TrustFile
<1> QED
  BY <1>1, <1>2, <1>3, <1>4, <1>5 DEF TypeOK, IInv, ServerInv

LEMMA SpecIInv == Spec => []IInv
  BY InitIInv, NextIInv, PTL DEF Spec

(* The files, the processes, the server and the tools have their types in  *)
(* every reachable state, and a record is a candidate exactly as long as   *)
(* it has no approval (register_candidate, approve, revoke).               *)
THEOREM TypeCorrect == Spec => []TypeOK
  BY SpecIInv, IInvTypes, PTL

(* A revocation holds from the next call on: nothing runs whose skill or   *)
(* key had been revoked when the call began, unless a command overwrote a  *)
(* file that another had changed since it was read (verify_current).       *)
THEOREM RevocationHolds == Spec => []RevokedNeverRuns
<1>1. IInv => RevokedNeverRuns
  BY DEF IInv
<1> QED
  BY SpecIInv, <1>1, PTL

(* Whatever is rebuilt, edited by hand or saved by overlapping commands,   *)
(* a skill runs only with a hash and permissions that one operator         *)
(* approved together for it (verify_current).                              *)
THEOREM OnlyApprovedRuns == Spec => []RunsApproved
<1>1. IInv => RunsApproved
  BY DEF IInv
<1> QED
  BY SpecIInv, <1>1, PTL

(* A tool keeps the bytes that were approved, except when its file is      *)
(* rewritten between the hash and the read (from_approved_artifact).       *)
THEOREM BytesAreApproved == Spec => []BytesApproved
<1>1. IInv => BytesApproved
  BY DEF IInv
<1> QED
  BY SpecIInv, <1>1, PTL

(* A control event names a change that was written                         *)
(* (append_control_audit).                                                 *)
THEOREM AuditIsBacked == Spec => []AuditBacked
<1>1. IInv => AuditBacked
  BY DEF IInv
<1> QED
  BY SpecIInv, <1>1, PTL
=============================================================================
