---------------------------- MODULE OwnerRecords ----------------------------
(***************************************************************************)
(* The files that say who owns one BPF pin path (internal/dataplane:       *)
(* pin_owner_linux.go, pin_owner_index_linux.go, pin_owner_archive_,       *)
(* _history_ and _rekey_linux.go, pin_ownership_api_linux.go).             *)
(*                                                                         *)
(* An owner record lives in <key>.owner.json and is replaced through       *)
(* <key>.owner.next; one index file names the active record of the path    *)
(* and its history and is replaced the same way.  A record of an earlier   *)
(* boot is archived: moved to a history file, kept as the source the next  *)
(* record descends from, and rotated out when the history is full.  A      *)
(* crash may fall between any two file operations, and a restart may give  *)
(* the pin path another resource key.  Every file operation is a step.     *)
(***************************************************************************)
EXTENDS Naturals, FiniteSets, FiniteSetsExt

CONSTANTS Keys,         \* the resource keys the path can have, one at a time
          MaxBoot,      \* boots are 1..MaxBoot
          MaxSeq,       \* bound on the sequence of one record
          MaxIndexSeq,  \* bound on the sequence of the index
          MaxHistory    \* pinOwnerIndexMaxHistory (8 in the code)

RecordsAssumption ==
    /\ IsFiniteSet(Keys) /\ Keys \subseteq Nat \ {0} /\ Keys # {}
    /\ {MaxBoot, MaxSeq, MaxIndexSeq, MaxHistory} \subseteq Nat \ {0}
    /\ MaxHistory > 1

VARIABLES
    file,   \* the owner directory: file name -> content
    boot,   \* the boot ID
    key,    \* the resource key of the pin path in this boot
    pins,   \* "none" or "owned": what the pin directory holds
    sent,   \* the owner_map sentinel: <<key, token>>
    moved,  \* a restart changed the key while a record change was unfinished
    job     \* the operation that holds the pin path lock

vars == <<file, boot, key, pins, sent, moved, job>>

-----------------------------------------------------------------------------
(* Records, index entries and file names *)

NoOne == <<0, 0>>

Phases == {"applying", "active", "done"}    \* "done": detaching/cleanup_stages

\* A created file whose content is not written and synced yet.
Torn == [seq |-> 0]

Record(s, k, b, t, f, p) ==
    [seq |-> s, key |-> k, boot |-> b, tok |-> t, from |-> f, ph |-> p]

Id(r) == <<r.key, r.boot>>

Owner(k) == <<"owner", k>>
Next_(k) == <<"next", k>>
Retired(k) == <<"retired", k>>
Archive(k) == <<"archive", k>>
History(id) == <<"history", id[1], id[2]>>
Quarantine(id) == <<"quarantine", id[1], id[2]>>
Index == <<"index", 0>>
IndexNext == <<"inext", 0>>
IndexRetired == <<"iretired", 0>>

NoIndex == [seq |-> 0, ent |-> <<>>, ptr |-> NoOne, rot |-> NoOne]

Idle == [op |-> "none", pc |-> "idle", new |-> Torn, idx |-> NoIndex,
         after |-> "idle", src |-> NoOne]

Init ==
    /\ file = <<>> /\ boot = 1 /\ key \in Keys
    /\ pins = "none" /\ sent = NoOne /\ moved = FALSE
    /\ job = Idle

-----------------------------------------------------------------------------
(* Directory operations *)

Has(n) == n \in DOMAIN file
Put(n, v) == [x \in DOMAIN file \cup {n} |-> IF x = n THEN v ELSE file[x]]
Drop(n) == [x \in DOMAIN file \ {n} |-> file[x]]
Move(a, b) == [x \in (DOMAIN file \ {a}) \cup {b} |-> IF x = b THEN file[a] ELSE file[x]]
Swap(a, b) == [file EXCEPT ![a] = file[b], ![b] = file[a]]

At(p) == job.pc = p
Goto(p) == job' = [job EXCEPT !.pc = p]
Disk(f) == file' = f /\ UNCHANGED <<boot, key, pins, sent, moved>>
Quiet == UNCHANGED <<file, boot, key, pins, sent, moved>>

\* The operation returns an error that every later attempt meets again.
Wedge == Goto("wedged") /\ Quiet

\* The operation declines and leaves the files as they are.
Refuse == job' = Idle /\ Quiet

-----------------------------------------------------------------------------
(* The index *)

IndexNow == IF Has(Index) THEN file[Index] ELSE NoIndex

\* loadOptionalLocked returns: nothing to recover and no rotation to resume.
IndexReady == ~Has(IndexNext) /\ ~Has(IndexRetired) /\ IndexNow.rot = NoOne

\* The points of an operation that load the index first.
Loads == {"open", "sync", "archive", "repair", "loaded", "capacity", "publish",
          "sentinel", "unindex"}

Past(ix) == {id \in DOMAIN ix.ent : ix.ent[id].status # "active"}

\* validatePinOwnerIndex: the entries that are not retired are those the path's
\* pointer names, the history is bounded, and only a retired entry rotates out.
ValidIndex(ix) ==
    /\ ix.seq # 0
    /\ {id \in DOMAIN ix.ent : ix.ent[id].status # "retired"} = {ix.ptr} \ {NoOne}
    /\ Cardinality(Past(ix)) <= MaxHistory
    /\ ix.rot # NoOne => ix.rot \in DOMAIN ix.ent /\ ix.ent[ix.rot].status = "retired"

\* The index after the record r is entered: its source is retired, and the
\* path's pointer moves to it.
Entered(ix, r) ==
    [ix EXCEPT !.ent = [id \in DOMAIN ix.ent \cup {Id(r)} |->
                          CASE id = Id(r) -> [status |-> "active", dig |-> r]
                            [] id = r.from -> [ix.ent[id] EXCEPT !.status = "retired"]
                            [] OTHER -> ix.ent[id]],
               !.ptr = Id(r)]

\* updateEntries accepts the record.
MayEnter(ix, r) ==
    /\ Id(r) \in DOMAIN ix.ent => ix.ent[Id(r)].status = "active"
    /\ r.from # NoOne => r.from \in Past(ix)
    /\ \/ ix.ptr \in {NoOne, Id(r)}
       \/ ix.ptr = r.from /\ ix.ent[r.from].status = "rekey_source"

Without(ix, id) ==
    [ix EXCEPT !.ent = [x \in DOMAIN ix.ent \ {id} |-> ix.ent[x]],
               !.ptr = IF ix.ptr = id THEN NoOne ELSE ix.ptr,
               !.rot = NoOne]

\* Mutant: the replacement keeps the sequence of the index it replaces.
SameSequence(ix) == [ix EXCEPT !.seq = IndexNow.seq]

\* persistLocked: the replacement's sequence is one above the current one.
Successor(ix) == [ix EXCEPT !.seq = IndexNow.seq + 1]

\* Write the index ix (or remove it when it has no entry), then go on at p.
WriteIndex(ix, p) ==
    job' = [job EXCEPT !.pc = IF DOMAIN ix.ent = {} THEN "iretire" ELSE "icreate",
                       !.idx = Successor(ix),
                       !.after = p]

\* syncIndexRecord(r, false), then go on at p.
Sync(r, p) ==
    IF ~MayEnter(IndexNow, r) THEN Goto("wedged")
    ELSE IF Entered(IndexNow, r) = IndexNow THEN Goto(p)
    ELSE WriteIndex(Entered(IndexNow, r), p)

IndexCreate == At("icreate") /\ Goto("iwrite") /\ Disk(Put(IndexNext, Torn))

IndexWrite == At("iwrite") /\ Goto("ipublish") /\ Disk(Put(IndexNext, job.idx))

IndexPublish ==
    /\ At("ipublish")
    /\ IF Has(Index)
       THEN Goto("iunlink") /\ Disk(Swap(IndexNext, Index))
       ELSE Goto(job.after) /\ Disk(Move(IndexNext, Index))

IndexUnlink == At("iunlink") /\ Goto(job.after) /\ Disk(Drop(IndexNext))

IndexRetire == At("iretire") /\ Goto("iclear") /\ Disk(Move(Index, IndexRetired))

IndexClear == At("iclear") /\ Goto(job.after) /\ Disk(Drop(IndexRetired))

\* A recovery of a replaced file: the newer of the two contents wins.
RecoverSwap(next, name) ==
    CASE file[next] = Torn -> Wedge
      [] file[next] # Torn /\ ~Has(name) -> Disk(Move(next, name)) /\ UNCHANGED job
      [] file[next].seq = file[name].seq + 1 -> Disk(Swap(next, name)) /\ UNCHANGED job
      [] file[name].seq = file[next].seq + 1 -> Disk(Drop(next)) /\ UNCHANGED job
      [] OTHER -> Wedge

RecoverIndex ==
    /\ job.pc \in Loads
    /\ \/ /\ Has(IndexRetired)
          /\ IF Has(Index) THEN Wedge ELSE Disk(Drop(IndexRetired)) /\ UNCHANGED job
       \/ /\ ~Has(IndexRetired) /\ Has(IndexNext)
          /\ RecoverSwap(IndexNext, Index)

\* resumeHistoryRotationLocked, one file operation at a time.
ResumeRotation ==
    LET v == IndexNow.rot IN
    /\ job.pc \in Loads
    /\ ~Has(IndexNext) /\ ~Has(IndexRetired) /\ v # NoOne
    /\ CASE Has(History(v)) /\ Has(Quarantine(v)) -> Wedge
         [] Has(History(v)) /\ ~Has(Quarantine(v)) ->
              Disk(Move(History(v), Quarantine(v))) /\ UNCHANGED job
         [] ~Has(History(v)) /\ Has(Quarantine(v)) ->
              Disk(Drop(Quarantine(v))) /\ UNCHANGED job
         [] OTHER -> WriteIndex(Without(IndexNow, v), job.pc) /\ Quiet

-----------------------------------------------------------------------------
(* Opening the store *)

Open(op) ==
    /\ At("idle")
    /\ job' = [Idle EXCEPT !.op = op, !.pc = "open"]
    /\ Quiet

\* Mutant: the retired record is unlinked while the index still names it.
RecoverRetiredFile ==
    /\ At("open") /\ IndexReady /\ Has(Retired(key))
    /\ Disk(Drop(Retired(key))) /\ UNCHANGED job

\* recoverRetiredRecord: the entry leaves the index before the file goes.
RecoverRetired ==
    LET r == file[Retired(key)] IN
    /\ At("open") /\ IndexReady /\ Has(Retired(key))
    /\ IF Has(Owner(key)) THEN Wedge
       ELSE IF Id(r) \notin DOMAIN IndexNow.ent
            THEN Disk(Drop(Retired(key))) /\ UNCHANGED job
       ELSE IF IndexNow.ptr = Id(r) /\ IndexNow.ent[Id(r)].dig = r
            THEN WriteIndex(Without(IndexNow, Id(r)), "open") /\ Quiet
       ELSE Wedge

\* Mutant: an exchange that had happened is undone.
RecoverPendingBack ==
    LET n == file[Next_(key)] IN
    /\ At("open") /\ IndexReady /\ ~Has(Retired(key)) /\ Has(Next_(key))
    /\ IF n # Torn /\ Has(Owner(key)) /\ file[Owner(key)].seq = n.seq + 1
       THEN Disk(Move(Next_(key), Owner(key))) /\ Goto("archive")
       ELSE Wedge

\* A pending change is carried forward, never back, and indexed before the
\* replaced record is unlinked.
RecoverPending ==
    LET n == file[Next_(key)] IN
    /\ At("open") /\ IndexReady /\ ~Has(Retired(key)) /\ Has(Next_(key))
    /\ CASE n = Torn -> Wedge
         [] n # Torn /\ ~Has(Owner(key)) ->
              /\ job' = [job EXCEPT !.pc = "sync", !.new = n, !.after = "archive"]
              /\ Disk(Move(Next_(key), Owner(key)))
         [] n.seq = file[Owner(key)].seq + 1 ->
              Disk(Swap(Next_(key), Owner(key))) /\ UNCHANGED job
         [] file[Owner(key)].seq = n.seq + 1 ->
              IF MayEnter(IndexNow, file[Owner(key)])
                 /\ Entered(IndexNow, file[Owner(key)]) = IndexNow
              THEN Disk(Drop(Next_(key))) /\ Goto("archive")
              ELSE Sync(file[Owner(key)], "open") /\ Quiet
         [] OTHER -> Wedge

NothingPending ==
    /\ At("open") /\ IndexReady
    /\ ~Has(Retired(key)) /\ ~Has(Next_(key))
    /\ Goto("archive") /\ Quiet

\* validatePinOwnerHistoryAt: the file holds exactly the indexed record.
Holds(n, id) == Has(n) /\ file[n] = IndexNow.ent[id].dig

\* recoverOwnerArchive: an interrupted archive of the active record is moved
\* back; a durable source must have its history file and nothing else.
RecoverArchive ==
    LET id == IndexNow.ptr
        k  == id[1]
        there == {n \in {Archive(k), History(id)} : Has(n)}
    IN
    /\ At("archive") /\ IndexReady
    /\ CASE id = NoOne -> Goto("repair") /\ Quiet
         [] id # NoOne /\ IndexNow.ent[id].status = "rekey_source" ->
              IF /\ Holds(History(id), id) /\ ~Has(Archive(k))
                 /\ Has(Owner(k)) => file[Owner(k)].from = id /\ file[Owner(k)].boot # id[2]
              THEN Goto("repair") /\ Quiet
              ELSE Wedge
         [] OTHER ->
              IF Has(Owner(k))
              THEN IF there = {} /\ Holds(Owner(k), id) THEN Goto("repair") /\ Quiet ELSE Wedge
              ELSE IF \E n \in there : there = {n} /\ Holds(n, id)
              THEN \E n \in there : Disk(Move(n, Owner(k))) /\ Goto("repair")
              ELSE Wedge

\* Mutant: a published record is taken for an indexed one.
RepairNothing == At("repair") /\ IndexReady /\ Goto("loaded") /\ Quiet

\* repairIndexForCurrentResource
Repair ==
    /\ At("repair") /\ IndexReady
    /\ IF Has(Owner(key)) THEN Sync(file[Owner(key)], "loaded") ELSE Goto("loaded")
    /\ Quiet

-----------------------------------------------------------------------------
(* Replacing and removing the record *)

Persist(r) == job' = [job EXCEPT !.pc = "rcreate", !.new = r]

RecordCreate == At("rcreate") /\ Goto("rwrite") /\ Disk(Put(Next_(key), Torn))

RecordWrite == At("rwrite") /\ Goto("rpublish") /\ Disk(Put(Next_(key), job.new))

RecordPublish ==
    /\ At("rpublish")
    /\ job' = [job EXCEPT !.pc = "sync", !.after = "runlink"]
    /\ Disk(IF Has(Owner(key)) THEN Swap(Next_(key), Owner(key))
                               ELSE Move(Next_(key), Owner(key)))

SyncIndex == At("sync") /\ IndexReady /\ Sync(job.new, job.after) /\ Quiet

RecordUnlink == At("runlink") /\ Goto("own") /\ Disk(Drop(Next_(key)))

\* Remove, for a record whose detach is complete.
Retire ==
    /\ At("own") /\ file[Owner(key)].ph = "done"
    /\ Goto("unindex") /\ Disk(Move(Owner(key), Retired(key)))

Unindex ==
    LET r == file[Retired(key)] IN
    /\ At("unindex") /\ IndexReady
    /\ IF Id(r) \notin DOMAIN IndexNow.ent THEN Goto("rclear")
       ELSE IF IndexNow.ptr = Id(r) /\ IndexNow.ent[Id(r)].dig = r
       THEN WriteIndex(Without(IndexNow, Id(r)), "rclear")
       ELSE Goto("wedged")
    /\ Quiet

RetiredUnlink == At("rclear") /\ job' = Idle /\ Disk(Drop(Retired(key)))

-----------------------------------------------------------------------------
(* Archiving the record of an earlier boot, and what replaces it *)

\* The record the path's pointer names: the current one or, under another
\* key, the one the last boot left.
Loaded ==
    LET id  == IndexNow.ptr
        mine == Has(Owner(key)) /\ file[Owner(key)].boot = boot
        old  == IF Has(Owner(key)) THEN Id(file[Owner(key)]) ELSE id
    IN
    /\ At("loaded") /\ IndexReady
    /\ CASE mine -> Goto("own") /\ Quiet
         [] ~mine /\ job.op = "detach" -> Refuse
         [] ~mine /\ job.op = "apply" /\ old = NoOne ->
              IF pins = "owned" THEN Refuse
              ELSE Persist(Record(1, key, boot, boot, NoOne, "applying")) /\ Quiet
         [] OTHER ->
              IF old[2] = boot THEN Wedge
              ELSE IF IndexNow.ent[old].status = "rekey_source"
              THEN job' = [job EXCEPT !.pc = "source", !.src = old] /\ Quiet
              ELSE IF pins = "owned" /\ file[Owner(old[1])].ph # "active" THEN Refuse
              ELSE job' = [job EXCEPT !.pc = "capacity", !.src = old] /\ Quiet

\* Mutant: the newest retired record makes room.
VictimNewest(ix) == LET r == {id \in Past(ix) : ix.ent[id].status = "retired"} IN
                    CHOOSE v \in r : \A w \in r : v[2] >= w[2]

\* The oldest retired record makes room.
Victim(ix) == LET r == {id \in Past(ix) : ix.ent[id].status = "retired"} IN
              CHOOSE v \in r : \A w \in r : v[2] <= w[2]

HasRoom(ix) == Cardinality(Past(ix)) < MaxHistory

Capacity ==
    /\ At("capacity") /\ IndexReady
    /\ CASE HasRoom(IndexNow) ->
              IF Has(Archive(job.src[1])) \/ Has(History(job.src)) THEN Wedge
              ELSE Goto("quarantine") /\ Quiet
         [] ~HasRoom(IndexNow) /\ \E id \in Past(IndexNow) : IndexNow.ent[id].status = "retired" ->
              WriteIndex([IndexNow EXCEPT !.rot = Victim(IndexNow)], "capacity") /\ Quiet
         [] OTHER -> Wedge

ArchiveRecord ==
    \/ /\ At("quarantine") /\ Goto("history")
       /\ Disk(Move(Owner(job.src[1]), Archive(job.src[1])))
    \/ /\ At("history") /\ Goto("publish")
       /\ Disk(Move(Archive(job.src[1]), History(job.src)))

ArchivePublish ==
    /\ At("publish") /\ IndexReady
    /\ WriteIndex([IndexNow EXCEPT !.ent[job.src].status = "rekey_source"], "source")
    /\ Quiet

Source ==
    /\ At("source")
    /\ IF pins = "owned" THEN Goto("sentinel")
       ELSE Persist(Record(1, key, boot, boot, job.src, "applying"))
    /\ Quiet

\* Mutant: a second attempt publishes a token of its own.
TokenAfresh(t) == boot

\* The token of the new record is the one the sentinel holds.
TokenOf(t) == t

\* rekeyRebootedPinOwner: the sentinel is rekeyed before the record that
\* carries its token is published; a second attempt adopts the token.
Rekey ==
    LET old == file[History(job.src)]
        new == IF sent = <<old.key, old.tok>> THEN <<key, boot>> ELSE sent
    IN
    /\ At("sentinel") /\ IndexReady
    /\ IF old.ph = "active" /\ IndexNow.ptr = job.src /\ new[1] = key
       THEN /\ sent' = new
            /\ Persist(Record(1, key, boot, TokenOf(new[2]), job.src, "active"))
            /\ UNCHANGED <<file, boot, key, pins, moved>>
       ELSE Refuse

-----------------------------------------------------------------------------
(* What the owner of this boot does with its record *)

Follows(p, q) == <<p, q>> \in {<<"applying", "active">>, <<"active", "applying">>,
                               <<"active", "done">>, <<"applying", "done">>}

Update ==
    LET r == file[Owner(key)] IN
    /\ At("own") /\ r.seq < MaxSeq /\ IndexNow.seq < MaxIndexSeq
    /\ \E p \in Phases :
         /\ Follows(r.ph, p)
         /\ Persist([r EXCEPT !.seq = @ + 1, !.ph = p])
         /\ pins' = IF p = "done" THEN "none" ELSE IF p = "active" THEN "owned" ELSE pins
         /\ sent' = IF p = "done" THEN NoOne ELSE IF p = "active" THEN <<key, r.tok>> ELSE sent
    /\ UNCHANGED <<file, boot, key, moved>>

Return == At("own") /\ job' = Idle /\ Quiet

\* The process dies, or the operation returns an I/O error.
Crash == ~At("idle") /\ job' = Idle /\ Quiet

\* The record of key k and the index tell the same story.
Consistent(k) ==
    /\ ~Has(Next_(k)) /\ ~Has(Retired(k))
    /\ Has(Owner(k)) =>
         \E n \in {Index, IndexNext} :
            Has(n) /\ file[n] # Torn /\ file[n].ptr = Id(file[Owner(k)])
                   /\ file[n].ent[Id(file[Owner(k)])].dig = file[Owner(k)]

\* A restart: the pins may or may not survive it, the key may change.
Reboot ==
    /\ boot < MaxBoot /\ IndexNow.seq < MaxIndexSeq
    /\ boot' = boot + 1
    /\ key' \in Keys
    /\ pins' \in {"none", pins}
    /\ sent' = IF pins' = "none" THEN NoOne ELSE sent
    /\ moved' = (moved \/ (key' # key /\ ~Consistent(key)))
    /\ job' = Idle
    /\ UNCHANGED file

IndexSteps == IndexCreate \/ IndexWrite \/ IndexPublish \/ IndexUnlink
              \/ IndexRetire \/ IndexClear \/ RecoverIndex \/ ResumeRotation

OpenSteps == RecoverRetired \/ RecoverPending \/ NothingPending \/ RecoverArchive \/ Repair

RecordSteps == RecordCreate \/ RecordWrite \/ RecordPublish \/ SyncIndex \/ RecordUnlink
               \/ Retire \/ Unindex \/ RetiredUnlink

BootSteps == Loaded \/ Capacity \/ ArchiveRecord \/ ArchivePublish \/ Source \/ Rekey

Next ==
    \/ \E op \in {"apply", "detach"} : Open(op)
    \/ IndexSteps \/ OpenSteps \/ RecordSteps \/ BootSteps
    \/ Update \/ Return \/ Crash \/ Reboot

Spec == Init /\ [][Next]_vars

-----------------------------------------------------------------------------
(* Inspection without recovery: PinOwnershipStatus as "none", "ready",       *)
(* "recover" (RecoveryRequired) or "error".                                  *)

Unreadable == \E n \in {Owner(key), Next_(key), Retired(key), Index, IndexNext, IndexRetired} :
                 Has(n) /\ file[n] = Torn

OneApart(a, b) == a.seq = b.seq + 1 \/ b.seq = a.seq + 1

\* A pair of a file and its replacement that no recovery accepts.
Ambiguous(name, next, retired) ==
    \/ Has(retired) /\ (Has(name) \/ Has(next))
    \/ Has(next) /\ ~Has(name) /\ file[next].seq # 1
    \/ Has(next) /\ Has(name) /\ ~OneApart(file[next], file[name])

\* inspectIndexedOwnerEvidenceReadOnly
Evidence(id) ==
    LET names == IF IndexNow.ent[id].status = "active"
                 THEN {Owner(id[1]), Archive(id[1]), History(id)} ELSE {History(id)}
        found == {n \in names : Has(n)}
    IN  /\ IndexNow.ent[id].status = "rekey_source" => ~Has(Archive(id[1]))
        /\ \E n \in found : found = {n} /\ Holds(n, id)

Indexed(r) == IndexNow.ptr = Id(r) /\ IndexNow.ent[Id(r)].dig = r

\* No link of an earlier boot is attached, so its record is not ready.
InspectOwner(r) ==
    CASE ~Has(Index) -> "recover"
      [] Has(Index) /\ Indexed(r) ->
           IF r.ph # "active" THEN "recover"
           ELSE IF r.boot = boot /\ pins = "owned" /\ sent = <<key, r.tok>>
           THEN "ready" ELSE "error"
      [] OTHER ->
           IF /\ IndexNow.ptr # NoOne /\ IndexNow.ptr = r.from
              /\ IndexNow.ent[r.from].status = "rekey_source" /\ Evidence(r.from)
           THEN "recover" ELSE "error"

\* Mutant: only the record's own files are looked at.
PendingRecord == Has(Next_(key)) \/ Has(Retired(key))

\* inspectPinOwnerDescriptorsReadOnly, inspectOptionalReadOnly
Pending == Has(Next_(key)) \/ Has(Retired(key)) \/ ~IndexReady

Inspected ==
    CASE Unreadable -> "error"
      [] ~Unreadable /\ (Ambiguous(Owner(key), Next_(key), Retired(key))
                         \/ Ambiguous(Index, IndexNext, IndexRetired)) -> "error"
      [] OTHER ->
           IF Pending THEN "recover"
           ELSE IF Has(Owner(key)) THEN InspectOwner(file[Owner(key)])
           ELSE IF IndexNow.ptr # NoOne
           THEN IF Evidence(IndexNow.ptr) THEN "recover" ELSE "error"
           ELSE IF pins = "owned" THEN "error" ELSE "none"

-----------------------------------------------------------------------------
(* Properties *)

\* Every variable has its type.
TypeOK ==
    /\ boot \in 1..MaxBoot /\ key \in Keys
    /\ pins \in {"none", "owned"}
    /\ sent \in {NoOne} \cup (Keys \X (1..MaxBoot))
    /\ moved \in BOOLEAN
    /\ job.op \in {"none", "apply", "detach"}
    /\ job.src \in {NoOne} \cup (Keys \X (1..MaxBoot))
    /\ \A n \in DOMAIN file : file[n].seq \in Nat

SomethingTorn == \E n \in DOMAIN file : file[n] = Torn

(* Whatever operation a crash or a restart interrupts, the next one opens    *)
(* the owner store: recovery never meets a combination of record, pending,   *)
(* retired, archive, history and index files it refuses for good.  The only  *)
(* exceptions are a crash between the creation and the sync of a replacement *)
(* file, and a restart that changed the resource key in the middle of a      *)
(* record change (recoverDescriptorTransaction, recoverLocked,               *)
(* recoverOwnerArchive, updateEntries).                                      *)
StoreReopens == At("wedged") => SomethingTorn \/ moved

(* When an operation works on the record of this boot, the index names       *)
(* exactly that record as the active one of the path, every record in the    *)
(* history except the one being rotated out still has its file, and every    *)
(* index that is written passes the validation it is read back with.         *)
IndexNamesOwner ==
    /\ At("own") => IndexReady /\ Indexed(file[Owner(key)])
    /\ \A id \in Past(IndexNow) : id # IndexNow.rot => Holds(History(id), id)
    /\ \A n \in {Index, IndexNext} : Has(n) /\ file[n] # Torn => ValidIndex(file[n])

(* The record the path's pointer names is never lost and never in two        *)
(* places: one of the canonical, archive, history or retired files holds it. *)
EvidenceOnce ==
    LET id == IndexNow.ptr
        kept == {n \in {Owner(id[1]), Archive(id[1]), History(id), Retired(id[1])} :
                   Has(n) /\ Id(file[n]) = id}
    IN  id # NoOne /\ ~moved => Cardinality(kept) = 1

(* The pins of this boot's owner carry the token of its record: a crash      *)
(* between the rekey of the owner_map sentinel and the publication of the    *)
(* record that holds the new token never leaves pins nobody can claim.       *)
SentinelMatches ==
    At("own") /\ pins = "owned" => sent = <<key, file[Owner(key)].tok>>

(* An inspection that reports a ready owner has nothing left to recover:     *)
(* opening the store then changes no file, and the owner is of this boot.    *)
ReadyIsSettled ==
    Inspected = "ready" =>
        /\ IndexReady /\ ~Has(Next_(key)) /\ ~Has(Retired(key)) /\ ~Has(Archive(key))
        /\ Indexed(file[Owner(key)]) /\ MayEnter(IndexNow, file[Owner(key)])
        /\ Entered(IndexNow, file[Owner(key)]) = IndexNow

(* Recovery carries an interrupted replacement forward and never back: the   *)
(* record under the canonical name keeps the highest sequence its owner has  *)
(* published.                                                                *)
NeverRollsBackStep ==
    \A k \in Keys :
        Has(Owner(k)) /\ Owner(k) \in DOMAIN file' =>
            (file[Owner(k)].tok = file'[Owner(k)].tok /\ Id(file[Owner(k)]) = Id(file'[Owner(k)])
                => file'[Owner(k)].seq >= file[Owner(k)].seq)
NeverRollsBack == [][NeverRollsBackStep]_vars

=============================================================================
