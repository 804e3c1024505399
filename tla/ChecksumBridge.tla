--------------------------- MODULE ChecksumBridge ---------------------------
(***************************************************************************)
(* Who prepares the checksum of a packet.  On old kernels the egress       *)
(* program cannot call the kernel module: it writes a descriptor with the  *)
(* cookie of a lease into skb->cb and calls a helper with an argument that *)
(* the helper refuses; the module's return probe finds the descriptor,     *)
(* does the work and replaces the result.  A lease is an open file of the  *)
(* module's device, taken when a FakeTCP runtime is planned, written into  *)
(* the map of its collection before its programs are attached, and closed  *)
(* after all of them.  A second runtime may be planned meanwhile, a        *)
(* diagnosis may take a lease, probes are missed and the daemon is killed. *)
(* With a newer module the program calls it directly.                      *)
(***************************************************************************)
EXTENDS Naturals, FiniteSetsExt

CONSTANTS
    Runtimes,       \* FakeTCP runtimes of the daemon
    Packets,
    Doctor,         \* the diagnosis, in a process of its own
    MaxLeases,      \* WG_MIX_FAKETCP_KPROBE_MAX_LEASES
    MaxOpens,       \* leases ever opened, and plans without one
    MaxFaults       \* probes missed, failing close calls, kills and reloads of the module

VARIABLES
    loaded,     \* the module with the probes
    cookies,    \* wg_mix_faketcp_active_cookies, 0 is free
    errors,     \* wg_mix_faketcp_errors
    missed,     \* wg_mix_faketcp_nmissed
    lease,      \* the open file of each holder
    minted,     \* the last cookie
    backend,    \* of the selection a runtime or its request owns
    stage,      \* how far each runtime is
    seeded,     \* the cookie in faketcp_kprobe_runtime_map of its collection
    attached,   \* runtimes whose programs packets reach
    active,     \* runtimes whose control map has an active generation
    waits,      \* releasing a TC attachment waits for the programs that run
    packet,
    kills, faults

moduleVars == <<loaded, cookies, errors, missed, lease, minted>>
ownerVars == <<backend, stage, seeded, attached, active>>
vars == <<moduleVars, ownerVars, waits, packet, faults, kills>>

Holders == Runtimes \cup {Doctor}

NoLease == [cookie |-> 0, slot |-> 0, errors |-> 0, missed |-> 0]

Idle == [pc |-> "idle", of |-> "none", op |-> "none", cookie |-> 0, cb |-> 0, via |-> "none",
         result |-> "none", gso |-> FALSE, served |-> {}]

Init ==
    /\ loaded = TRUE
    /\ cookies = [s \in 1 .. MaxLeases |-> 0]
    /\ errors = 0 /\ missed = 0 /\ minted = 0
    /\ lease = [h \in Holders |-> NoLease]
    /\ backend = [r \in Runtimes |-> "none"]
    /\ stage = [r \in Runtimes |-> "none"]
    /\ seeded = [r \in Runtimes |-> 0]
    /\ attached = {} /\ active = {}
    /\ waits \in BOOLEAN
    /\ packet = [p \in Packets |-> Idle]
    /\ faults = 0 /\ kills = 0

Fault == faults < MaxFaults /\ faults' = faults + 1

-----------------------------------------------------------------------------
(* The module *)

\* A fresh module.
LoadModule ==
    /\ ~loaded
    /\ loaded' = TRUE
    /\ errors' = 0 /\ missed' = 0
    /\ UNCHANGED <<cookies, lease, minted, ownerVars, waits, packet, faults, kills>>

\* An open file of the device keeps the module; unregister_kretprobes waits for
\* programs that are inside a helper.
UnloadModule ==
    /\ loaded
    /\ \A h \in Holders : lease[h] = NoLease
    /\ \A p \in Packets : packet[p].pc # "probed"
    /\ loaded' = FALSE
    /\ Fault
    /\ UNCHANGED <<cookies, errors, missed, lease, minted, ownerVars, waits, packet, kills>>

CookieActive(cookie) == cookie # 0 /\ \E s \in 1 .. MaxLeases : cookies[s] = cookie

FreeSlots == {s \in 1 .. MaxLeases : cookies[s] = 0}

\* insert_cookie and device_open: random cookies are new ones.
Open(h) ==
    /\ loaded /\ minted < MaxOpens
    /\ FreeSlots # {}
    /\ minted' = minted + 1
    /\ cookies' = [cookies EXCEPT ![Min(FreeSlots)] = minted']
    /\ lease' = [lease EXCEPT ![h] = [cookie |-> minted', slot |-> Min(FreeSlots),
                                      errors |-> errors, missed |-> missed]]
    /\ UNCHANGED <<loaded, errors, missed>>

\* Mutant: the slot is not given back.
ReleaseKept(h) ==
    /\ lease' = [lease EXCEPT ![h] = NoLease]
    /\ UNCHANGED <<loaded, missed, minted, cookies, errors>>

\* device_release
Release(h) ==
    /\ LET l == lease[h]
       IN  IF l = NoLease THEN UNCHANGED <<cookies, errors>>
           ELSE IF cookies[l.slot] = l.cookie
                THEN cookies' = [cookies EXCEPT ![l.slot] = 0] /\ UNCHANGED errors
                ELSE errors' = errors + 1 /\ UNCHANGED cookies
    /\ lease' = [lease EXCEPT ![h] = NoLease]
    /\ UNCHANGED <<loaded, missed, minted>>

\* GET_STATUS has the healthy flag and the runtime takes it.
StatusHealthy(h) ==
    /\ lease[h] # NoLease /\ CookieActive(lease[h].cookie)
    /\ loaded
    /\ missed = lease[h].missed /\ errors = lease[h].errors

-----------------------------------------------------------------------------
(* The selection and the runtime that owns it *)

Enter(r, to) == stage' = [stage EXCEPT ![r] = to]

\* One apply at a time plans and builds.
Planning == {"opened", "planned", "collection", "ready", "attached"}
MayPlan(r) == stage[r] = "none" /\ \A s \in Runtimes : stage[s] \notin Planning

\* resolveFakeTCPChecksumBackend: what the kfunc probe says decides whether auto goes
\* on to the probes.
SelectKfunc(r) ==
    /\ MayPlan(r)
    /\ minted < MaxOpens /\ minted' = minted + 1
    /\ Enter(r, "planned")
    /\ backend' = [backend EXCEPT ![r] = "kfunc"]
    /\ UNCHANGED <<loaded, cookies, errors, missed, lease, seeded, attached, active, waits, packet, faults, kills>>

OpenKprobe(r) ==
    /\ MayPlan(r)
    /\ Open(r)
    /\ Enter(r, "opened")
    /\ UNCHANGED <<backend, seeded, attached, active, waits, packet, faults, kills>>

\* The first status is validated.  Also a kernel option or a symbol that is missing
\* makes acquireFakeTCPKprobeRuntime close the lease.
Acquired(r) ==
    /\ stage[r] = "opened"
    /\ \/ /\ StatusHealthy(r)
          /\ Enter(r, "planned")
          /\ backend' = [backend EXCEPT ![r] = "kprobe"]
          /\ UNCHANGED moduleVars
       \/ /\ Release(r)
          /\ Enter(r, "none")
          /\ UNCHANGED backend
    /\ UNCHANGED <<seeded, attached, active, waits, packet, faults, kills>>

\* FakeTCPChecksumSelection.Healthy
Healthy(r) == backend[r] = "kfunc" \/ StatusHealthy(r)

\* FakeTCPChecksumSelection.Close.  A close that fails has closed the file, but the
\* selection keeps it, and every later Close fails on it.
CloseSelection(r, kept) ==
    \/ /\ backend[r] = "kprobe" => lease[r] # NoLease
       /\ Release(r)
       /\ backend' = [backend EXCEPT ![r] = "none"]
       /\ Enter(r, "none")
       /\ UNCHANGED faults
    \/ /\ backend[r] = "kprobe" /\ lease[r] # NoLease
       /\ Fault
       /\ Release(r)
       /\ IF kept THEN UNCHANGED backend /\ Enter(r, "released")
          ELSE backend' = [backend EXCEPT ![r] = "none"] /\ Enter(r, "none")

\* Mutant: the plan is dropped without its selection.
RollbackForgets(r) ==
    /\ stage[r] = "planned"
    /\ Enter(r, "none")
    /\ backend' = [backend EXCEPT ![r] = "none"]
    /\ UNCHANGED <<moduleVars, seeded, attached, active, waits, packet, faults, kills>>

\* rollbackUnclaimed: the coordinator gives up a plan nobody has begun to build.
Rollback(r) ==
    /\ stage[r] = "planned"
    /\ CloseSelection(r, FALSE)
    /\ UNCHANGED <<seeded, attached, active, waits, packet, kills>>

\* The supervisor has closed the runtime before.  The health of the selection is
\* proved again, then the collection is loaded.
Load(r) ==
    /\ stage[r] = "planned"
    /\ \A s \in Runtimes \ {r} : stage[s] = "none"
    /\ \/ Healthy(r) /\ Enter(r, "collection")
       \/ Enter(r, "released")
    /\ UNCHANGED <<moduleVars, backend, seeded, attached, active, waits, packet, faults, kills>>

\* Mutant: the programs are attached first.
SeedLater(r) ==
    /\ stage[r] = "collection"
    /\ \/ Healthy(r) /\ Enter(r, "ready")
       \/ Enter(r, "detached")
    /\ UNCHANGED <<moduleVars, backend, seeded, attached, active, waits, packet, faults, kills>>

\* The checksum stage: for kprobe the cookie goes into the map, and is verified.
Seed(r) ==
    /\ stage[r] = "collection"
    /\ \/ /\ Healthy(r) /\ Enter(r, "ready")
          /\ seeded' = [seeded EXCEPT ![r] = lease[r].cookie]
       \/ Enter(r, "detached") /\ UNCHANGED seeded
    /\ UNCHANGED <<moduleVars, backend, attached, active, waits, packet, faults, kills>>

\* The TC stage, or one before it fails.
Attach(r) ==
    /\ stage[r] = "ready"
    /\ \/ attached' = attached \cup {r} /\ Enter(r, "attached")
       \/ Enter(r, "detached") /\ UNCHANGED attached
    /\ UNCHANGED <<moduleVars, backend, seeded, active, waits, packet, faults, kills>>

\* The generation becomes the active one, or the build is undone.
Activate(r) ==
    /\ stage[r] = "attached"
    /\ \/ active' = active \cup {r} /\ Enter(r, "running")
       \/ Enter(r, "quiesced") /\ UNCHANGED active
    /\ UNCHANGED <<moduleVars, backend, seeded, attached, waits, packet, faults, kills>>

\* ExperimentalFakeTCPRuntime.Close: the control map first, ...
Deactivate(r) ==
    /\ stage[r] = "running"
    /\ active' = active \ {r}
    /\ Enter(r, "quiesced")
    /\ UNCHANGED <<moduleVars, backend, seeded, attached, waits, packet, faults, kills>>

Drained(r) == waits => \A p \in Packets : packet[p].of # r

\* ... then the attachments, ...
Detach(r) ==
    /\ stage[r] = "quiesced"
    /\ Drained(r)
    /\ attached' = attached \ {r}
    /\ Enter(r, "detached")
    /\ UNCHANGED <<moduleVars, backend, seeded, active, waits, packet, faults, kills>>

\* ... and the collection.  A program that still runs keeps its maps.
CloseCollection(r) ==
    /\ stage[r] = "detached"
    /\ Enter(r, "released")
    /\ seeded' = [seeded EXCEPT ![r] = 0]
    /\ UNCHANGED <<moduleVars, backend, attached, active, waits, packet, faults, kills>>

\* Mutant: the selection is closed as soon as the generation is inactive.
ClosableEarly(r) == stage[r] \in {"quiesced", "detached", "released"}

Closable(r) == stage[r] = "released"

\* productionFakeTCPRuntime.Close, its last phase, and takeFailedChecksumOwner: the
\* selection is closed behind everything that may use it.
CloseLast(r) ==
    /\ Closable(r)
    /\ CloseSelection(r, TRUE)
    /\ UNCHANGED <<seeded, attached, active, waits, packet, kills>>

-----------------------------------------------------------------------------
(* Other processes, and the end of this one *)

DoctorOpens ==
    /\ lease[Doctor] = NoLease
    /\ Open(Doctor)
    /\ UNCHANGED <<ownerVars, waits, packet, faults, kills>>

DoctorCloses ==
    /\ lease[Doctor] # NoLease
    /\ Release(Doctor)
    /\ UNCHANGED <<ownerVars, waits, packet, faults, kills>>

\* SIGKILL.  The kernel closes the files of the daemon one by one, in its own order.
Kill ==
    /\ Fault
    /\ kills' = kills + 1
    /\ stage' = [r \in Runtimes |-> IF stage[r] = "none" THEN "none" ELSE "dying"]
    /\ UNCHANGED <<moduleVars, backend, seeded, attached, active, waits, packet>>

LeaseDies(r) ==
    /\ stage[r] = "dying" /\ lease[r] # NoLease
    /\ Release(r)
    /\ UNCHANGED <<ownerVars, waits, packet, faults, kills>>

\* A TCX link ends with its file.  A classic filter outlives the process, with its
\* active generation, until the next one retires it.
AttachmentDies(r) ==
    /\ stage[r] = "dying" /\ r \in attached
    /\ waits \/ lease[r] = NoLease
    /\ Drained(r)
    /\ attached' = attached \ {r} /\ active' = active \ {r}
    /\ UNCHANGED <<moduleVars, backend, stage, seeded, waits, packet, faults, kills>>

Dead(r) ==
    /\ stage[r] = "dying" /\ lease[r] = NoLease /\ r \notin attached
    /\ Enter(r, "none")
    /\ backend' = [backend EXCEPT ![r] = "none"]
    /\ active' = active \ {r}
    /\ seeded' = [seeded EXCEPT ![r] = 0]
    /\ UNCHANGED <<moduleVars, attached, waits, packet, faults, kills>>

-----------------------------------------------------------------------------
(* A packet in the egress program *)

\* What the program does for an operation: with the kfunc it has the result at once,
\* else it writes the descriptor and calls the helper.  Without a cookie in the map it
\* refuses.
Call(p, k, op) ==
    \E result \in {"ok", "rejected"} :
        packet' = [packet EXCEPT ![p] =
            IF k.via = "kprobe" /\ k.cookie # 0
            THEN [k EXCEPT !.pc = "called", !.op = op, !.cb = k.cookie]
            ELSE IF k.via = "kfunc" /\ result = "ok"
                 THEN [k EXCEPT !.pc = "returned", !.op = op, !.result = "ok", !.served = @ \cup {op}]
                 ELSE [k EXCEPT !.pc = "returned", !.op = op, !.result = "rejected"]]

\* faketcp_prepare_udp
Prepare(p, r, gso) ==
    /\ packet[p].pc = "idle"
    /\ r \in attached /\ r \in active
    /\ Call(p, [Idle EXCEPT !.of = r, !.gso = gso, !.via = backend[r], !.cookie = seeded[r]], "prepare")
    /\ UNCHANGED <<moduleVars, ownerVars, waits, faults, kills>>

\* The probe at the entry of the helper.  It may be missed, which the kernel counts;
\* for an unknown cookie no return probe is set up, and the helper's refusal stands.
Probe(p) ==
    /\ packet[p].pc = "called"
    /\ \/ /\ loaded /\ Fault
          /\ missed' = missed + 1
          /\ packet' = [packet EXCEPT ![p].pc = "returned", ![p].result = "refused"]
       \/ /\ packet' = [packet EXCEPT ![p] =
                 IF loaded /\ CookieActive(@.cb) THEN [@ EXCEPT !.pc = "probed"]
                 ELSE [@ EXCEPT !.pc = "returned", !.result = "refused"]]
          /\ UNCHANGED <<missed, faults>>
    /\ UNCHANGED <<loaded, cookies, errors, lease, minted, ownerVars, waits, kills>>

\* Mutant: the lease is not looked up again.
StillActiveAssumed(cookie) == TRUE

StillActive(cookie) == CookieActive(cookie)

\* The return probe.  A lease that was closed since is an error, and the refusal
\* stands; else the descriptor is consumed and the packet prepared or committed.
Handle(p) ==
    /\ packet[p].pc = "probed"
    /\ IF StillActive(packet[p].cb)
       THEN /\ \E result \in {"ok", "rejected"} :
                  packet' = [packet EXCEPT ![p].pc = "returned", ![p].cb = 0, ![p].result = result,
                                           ![p].served = IF result = "ok" THEN @ \cup {packet[p].op} ELSE @]
            /\ UNCHANGED errors
       ELSE /\ packet' = [packet EXCEPT ![p].pc = "returned", ![p].result = "refused"]
            /\ errors' = errors + 1
    /\ UNCHANGED <<loaded, cookies, missed, lease, minted, ownerVars, waits, faults, kills>>

\* faketcp_clear_kprobe_descriptor, after every helper call.
DescriptorCleared(k) == [k EXCEPT !.cb = 0]

\* Mutant: a helper's refusal is not one of the results the program knows.
AcceptsUnknown(result) == result # "rejected"

Accepts(result) == result = "ok"

\* Back in the program: an aggregate that was prepared is rewritten and then
\* committed, anything else that is refused is dropped.
Return(p) ==
    /\ packet[p].pc = "returned"
    /\ LET k == DescriptorCleared(packet[p])
       IN  packet' = [packet EXCEPT ![p] =
               IF ~Accepts(k.result) THEN Idle
               ELSE [k EXCEPT !.pc = IF k.gso /\ k.op = "prepare" THEN "rewriting" ELSE "out"]]
    /\ UNCHANGED <<moduleVars, ownerVars, waits, faults, kills>>

\* faketcp_commit_udp_gso
Commit(p) ==
    /\ packet[p].pc = "rewriting"
    /\ Call(p, packet[p], "commit")
    /\ UNCHANGED <<moduleVars, ownerVars, waits, faults, kills>>

\* The packet is on its way.
Leave(p) ==
    /\ packet[p].pc = "out"
    /\ packet' = [packet EXCEPT ![p] = Idle]
    /\ UNCHANGED <<moduleVars, ownerVars, waits, faults, kills>>

-----------------------------------------------------------------------------

Next ==
    \/ LoadModule \/ UnloadModule
    \/ DoctorOpens \/ DoctorCloses \/ Kill
    \/ \E r \in Runtimes :
          \/ SelectKfunc(r) \/ OpenKprobe(r) \/ Acquired(r) \/ Rollback(r)
          \/ Load(r) \/ Seed(r) \/ Attach(r) \/ Activate(r)
          \/ Deactivate(r) \/ Detach(r) \/ CloseCollection(r) \/ CloseLast(r)
          \/ LeaseDies(r) \/ AttachmentDies(r) \/ Dead(r)
    \/ \E p \in Packets :
          \/ \E r \in Runtimes, gso \in BOOLEAN : Prepare(p, r, gso)
          \/ Probe(p) \/ Handle(p) \/ Return(p) \/ Commit(p) \/ Leave(p)

Spec == Init /\ [][Next]_vars

-----------------------------------------------------------------------------

\* Leases, stages and packets have their types.
TypeOK ==
    /\ loaded \in BOOLEAN /\ waits \in BOOLEAN
    /\ cookies \in [1 .. MaxLeases -> 0 .. MaxOpens]
    /\ minted \in 0 .. MaxOpens /\ missed \in 0 .. MaxFaults /\ errors \in Nat
    /\ \A h \in Holders : lease[h].cookie \in 0 .. MaxOpens /\ lease[h].slot \in 0 .. MaxLeases
    /\ backend \in [Runtimes -> {"none", "kfunc", "kprobe"}]
    /\ stage \in [Runtimes -> Planning \cup {"none", "running", "quiesced", "detached", "released", "dying"}]
    /\ seeded \in [Runtimes -> 0 .. MaxOpens]
    /\ attached \subseteq Runtimes /\ active \subseteq Runtimes
    /\ \A p \in Packets :
          packet[p].pc \in {"idle", "called", "probed", "returned", "rewriting", "out"}

\* Every open file has a slot of its own, every slot in use belongs to one, and a
\* runtime that nobody owns any more has none: no sequence of failed plans and builds,
\* kills and diagnoses uses up the table.
LeasesOwned ==
    /\ \A h \in Holders : lease[h] # NoLease => cookies[lease[h].slot] = lease[h].cookie
    /\ \A s \in 1 .. MaxLeases : cookies[s] # 0 => \E h \in Holders : lease[h].cookie = cookies[s]
    /\ \A r \in Runtimes : stage[r] = "none" => lease[r] = NoLease

\* A packet leaves as FakeTCP only after the module has prepared it, an aggregate only
\* after it has committed it as well, whatever probes were missed and whatever became of
\* the lease; and the descriptor is not in the packet any more, where the XOR programs
\* would take it for their own.
FailsClosed ==
    \A p \in Packets :
        /\ packet[p].pc = "out" =>
              packet[p].served = IF packet[p].gso THEN {"prepare", "commit"} ELSE {"prepare"}
        /\ packet[p].pc \in {"rewriting", "out"} => packet[p].cb = 0

\* The lease a program's map names is its own runtime's and open while a packet can
\* reach the program, and where detaching waits for running programs, until the last
\* packet has left it.  So an error is only ever counted when the daemon was killed or
\* a classic filter was removed under a packet, and without either no lease is made
\* unhealthy by the closing of another.
LeaseOutlivesPrograms ==
    /\ \A r \in attached : stage[r] # "dying" /\ backend[r] = "kprobe" =>
          seeded[r] # 0 /\ seeded[r] = lease[r].cookie
    /\ kills = 0 /\ waits =>
          /\ errors = 0
          /\ \A p \in Packets : packet[p].cookie # 0 => CookieActive(packet[p].cookie)

\* The module prepares a packet only under a lease that is open at that time.
ServedUnderLeaseStep ==
    \A p \in Packets :
        packet[p].via = "kprobe" /\ packet'[p].served # packet[p].served /\ packet'[p].pc # "idle" =>
            CookieActive(packet[p].cookie)
=============================================================================
