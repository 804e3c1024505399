--------------------------- MODULE DaemonReconcile ---------------------------
(***************************************************************************)
(* runOnce of internal/daemon/daemon.go: how a poll tick, a runtime event, *)
(* a reload request or the startup decides between reporting a changed     *)
(* configuration, reporting that nothing is to do, and a reload.           *)
(*                                                                         *)
(* The file is read three times in one runOnce: for its hash, by Validate  *)
(* and by Reload.  Each read is a step, and the operator, the network and  *)
(* whatever removes attachments act between them.  A file content and its  *)
(* hash are one model value; NoFile is the empty hash of a file that       *)
(* cannot be read; "facts" are what the desired state takes from the       *)
(* running system (listen port, fwmark, ifindex).                          *)
(***************************************************************************)
EXTENDS Naturals

CONSTANTS Contents, NoFile, Facts,
          Environments       \* the values of env to look at

\* "edits": the operator may save the file during a runOnce; "late": a reload may
\* fail after loader.Apply succeeded.
ConstantsAssumption ==
    NoFile \notin Contents /\ Environments \subseteq SUBSET {"edits", "late"}

VARIABLES
    env,              \* what the world may do in this behaviour
    file,             \* the configuration file
    facts,            \* the running system
    plane,            \* what the dataplane was last given, and whether it is attached
    lastFingerprint,  \* of the last successful reload
    lastConfigHash,   \* read before the last successful reload
    status,           \* State and NeedReload
    pc, reason, hash  \* runOnce: its position, its argument, currentConfigHash

vars == <<env, file, facts, plane, lastFingerprint, lastConfigHash, status, pc, reason, hash>>

Reasons == {"startup", "poll", "runtime-event", "reload-request"}
Fingerprints == [config : Contents, facts : Facts]
Nothing == [config |-> NoFile, facts |-> "none"]

\* The state a read of the file and of the system would produce now.
Desired == [config |-> file, facts |-> facts]

Init ==
    /\ env \in Environments
    /\ file \in Contents \cup {NoFile} /\ facts \in Facts
    /\ plane = [carries |-> Nothing, attached |-> FALSE]
    /\ lastFingerprint = Nothing
    /\ lastConfigHash = NoFile
    /\ status = [state |-> "starting", needReload |-> FALSE]
    /\ pc = "hash" /\ reason = "startup" /\ hash = NoFile

-----------------------------------------------------------------------------
(* The world *)

Edit ==
    /\ "edits" \in env \/ pc = "idle"
    /\ \E c \in Contents \cup {NoFile} : file' = c
    /\ UNCHANGED <<env, facts, plane, lastFingerprint, lastConfigHash, status, pc, reason, hash>>

FactsChange ==
    /\ \E x \in Facts : facts' = x
    /\ UNCHANGED <<env, file, plane, lastFingerprint, lastConfigHash, status, pc, reason, hash>>

AttachmentLost ==
    /\ plane' = [plane EXCEPT !.attached = FALSE]
    /\ UNCHANGED <<env, file, facts, lastFingerprint, lastConfigHash, status, pc, reason, hash>>

-----------------------------------------------------------------------------
(* runOnce *)

Tick ==
    /\ pc = "idle"
    /\ \E r \in Reasons \ {"startup"} : reason' = r
    /\ pc' = "hash"
    /\ UNCHANGED <<env, file, facts, plane, lastFingerprint, lastConfigHash, status, hash>>

\* The reasons that leave an edited file to the operator.
WaitsForOperatorOnPoll == reason = "poll"
WaitsForOperator == reason \in {"poll", "runtime-event"}

ConfigChanged ==
    WaitsForOperator /\ lastConfigHash # NoFile /\ file # NoFile /\ file # lastConfigHash

ReadHash ==
    /\ pc = "hash"
    /\ \/ /\ ConfigChanged
          /\ status' = [state |-> "config_changed", needReload |-> TRUE]
          /\ pc' = "idle" /\ hash' = NoFile
       \/ /\ ~ConfigChanged
          /\ pc' = IF reason = "poll" /\ lastFingerprint # Nothing THEN "validate" ELSE "reload"
          /\ hash' = file
          /\ UNCHANGED status
    /\ UNCHANGED <<env, file, facts, plane, lastFingerprint, lastConfigHash, reason>>

\* hooks.validate rebuilds the desired state; hooks.healthy looks at the kernel.
NothingToDoByDesire == file # NoFile /\ Desired = lastFingerprint
NothingToDoByConfig == file # NoFile /\ file = lastFingerprint.config /\ plane.attached
NothingToDo == file # NoFile /\ Desired = lastFingerprint /\ plane.attached

Validate ==
    /\ pc = "validate"
    /\ \/ /\ NothingToDo
          /\ status' = [state |-> "active", needReload |-> FALSE]
          /\ pc' = "idle" /\ hash' = NoFile
       \/ pc' = "reload" /\ UNCHANGED <<status, hash>>  \* or Validate failed
    /\ UNCHANGED <<env, file, facts, plane, lastFingerprint, lastConfigHash, reason>>

\* Only a successful reload records what it was asked to apply.
RecordDesiredAsHash == lastFingerprint' = Desired /\ lastConfigHash' = Desired
RecordHashOnce ==
    /\ lastFingerprint' = Desired
    /\ lastConfigHash' = IF lastConfigHash = NoFile THEN hash ELSE lastConfigHash
Record == lastFingerprint' = Desired /\ lastConfigHash' = hash

ReloadSucceeds ==
    /\ pc = "reload" /\ file # NoFile
    /\ plane' = [carries |-> Desired, attached |-> TRUE]
    /\ Record
    /\ status' = [state |-> "active", needReload |-> FALSE]
    /\ pc' = "idle" /\ hash' = NoFile
    /\ UNCHANGED <<env, file, facts, reason>>

\* A reload that cannot read the file publishes no progress, so NeedReload stays.
ReloadFails ==
    /\ pc = "reload"
    /\ \/ UNCHANGED plane
       \/ "late" \in env /\ file # NoFile /\ plane' = [carries |-> Desired, attached |-> TRUE]
    /\ status' = [state |-> "degraded", needReload |-> status.needReload /\ file = NoFile]
    /\ pc' = "idle" /\ hash' = NoFile
    /\ UNCHANGED <<env, file, facts, lastFingerprint, lastConfigHash, reason>>

RunOnce == ReadHash \/ Validate \/ ReloadSucceeds \/ ReloadFails
Next == Edit \/ FactsChange \/ AttachmentLost \/ Tick \/ RunOnce

Spec == Init /\ [][Next]_vars

\* The tickers fire, runOnce returns, and a reload repeated for ever succeeds in
\* the end.  A poll tick comes again and again among the other reasons.
Fairness ==
    /\ WF_vars(RunOnce) /\ SF_vars(ReloadSucceeds)
    /\ SF_vars(Tick /\ reason' = "poll")

FairSpec == Spec /\ Fairness

-----------------------------------------------------------------------------
(* Properties *)

\* Every variable has its type: the locals of Run and runOnce and the status
\* fields they write.
TypeOK ==
    /\ env \in Environments
    /\ file \in Contents \cup {NoFile} /\ facts \in Facts
    /\ plane \in [carries : Fingerprints \cup {Nothing}, attached : BOOLEAN]
    /\ lastFingerprint \in Fingerprints \cup {Nothing}
    /\ lastConfigHash \in Contents \cup {NoFile}
    /\ status \in [state : {"starting", "active", "degraded", "config_changed"},
                   needReload : BOOLEAN]
    /\ pc \in {"idle", "hash", "validate", "reload"}
    /\ reason \in Reasons /\ hash \in Contents \cup {NoFile}

\* A poll or a runtime event never gives the dataplane another configuration
\* than the one it has: an edited file waits for an explicit reload.  A save in
\* the middle of a runOnce, or a reload that fails late, can break this.
PollKeepsConfig ==
    [][(env = {} /\ reason \in {"poll", "runtime-event"} /\ plane.carries # Nothing)
            => plane'.carries.config = plane.carries.config]_vars

\* docs/architecture.md: a poll that calls the daemon active finds the dataplane
\* attached and carrying the desired state; it does not conclude so from the
\* desired state alone.
ActiveMeansApplied ==
    [][pc = "validate" /\ pc' = "idle" => plane = [carries |-> Desired, attached |-> TRUE]]_vars

\* The same while no reload fails behind loader.Apply and nobody saves the file
\* in the middle of a runOnce.
ActiveMeansAppliedQuietly ==
    [][env = {} /\ pc = "validate" /\ pc' = "idle"
            => plane = [carries |-> Desired, attached |-> TRUE]]_vars

\* need_reload is raised only for a file the dataplane does not carry, and gives
\* way to "active" only once the dataplane carries the file (runOnce).
NeedReloadIsTrue ==
    [][env = {} =>
          /\ status'.needReload /\ ~status.needReload => file # plane.carries.config
          /\ status.needReload /\ status'.state = "active" => plane'.carries.config = file]_vars

\* Changes of the running system are followed without the operator: once the
\* file and the facts hold still and the file is the applied one, the dataplane
\* comes to carry these facts, attached.
RuntimeFollowed ==
    \A x \in Facts, c \in Contents :
        env = {} /\ <>[](facts = x /\ file = c /\ lastConfigHash = c)
            /\ <>[][~AttachmentLost]_vars
        => <>(plane = [carries |-> [config |-> c, facts |-> x], attached |-> TRUE])

\* A lost attachment is put back by the poll loop while the file is the applied
\* one, whatever fails and whoever edits in between (dataplaneHealthy, forceReload).
Healed == \A c \in Contents : <>[](file = c /\ lastConfigHash = c) => []<>plane.attached
=============================================================================
