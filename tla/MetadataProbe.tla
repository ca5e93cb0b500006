---------------------------- MODULE MetadataProbe ----------------------------
(***************************************************************************)
(* The metadata probes of a TCP or serial link.  The health check of       *)
(* check_connection(), connect_meshtastic() and its delayed calibration    *)
(* probe submit jobs to one shared executor with one worker.  Only one     *)
(* probe is in flight: a job that is still running after the watchdog time *)
(* loses its place and its executor, its worker is counted as orphaned,    *)
(* and too many of them end all probing.  A probe asks the device and      *)
(* waits for flags on the client that any answer sets.                     *)
(*                                                                         *)
(* Each caller checks for a stale job, replaces the executor and submits   *)
(* in separate critical sections of _metadata_future_lock, so callers, the *)
(* watchdogs and the worker threads interleave there.  A client is named   *)
(* by the connect that made it; connect() holds meshtastic_lock until it   *)
(* is set up (MeshConnection has the rest of it).                          *)
(***************************************************************************)
EXTENDS Naturals, FiniteSets

CONSTANTS
    MaxJobs,         \* bound: probes submitted
    MaxClients,      \* bound: clients connected
    OrphanThreshold  \* EXECUTOR_ORPHAN_THRESHOLD

ASSUME ProbeAssumption ==
    MaxJobs \in Nat /\ MaxClients \in Nat \ {0} /\ OrphanThreshold \in Nat \ {0}

Jobs == 1..MaxJobs
Clients == 1..MaxClients
None == 0

\* The threads that submit: check_connection(), connect_meshtastic(), the timer of
\* the delayed probe.
Callers == {"health", "connect", "timer"}

VARIABLES
    client,        \* meshtastic_client
    clients,       \* clients made so far
    reconnecting,  \* reconnecting
    connecting,    \* connect_meshtastic() holds meshtastic_lock
    pending,       \* _pending_connect_time_probe_timer, by the client it is for
    md,            \* _metadata_future, _metadata_executor and their state
    job,           \* the futures and their watchdogs
    caller,        \* the _submit_metadata_probe() calls
    ack            \* the acknowledgment flags of each client

link == <<client, clients, reconnecting, connecting>>
vars == <<link, pending, md, job, caller, ack>>

\* Executors are told apart only as the one in use and those given up.
NoJob == [st |-> "none", kind |-> "probe", inUse |-> FALSE, client |-> None, stale |-> FALSE,
          timer |-> "off", asked |-> FALSE, heard |-> FALSE, ok |-> FALSE]
Idle == [pc |-> "idle", kind |-> "probe", client |-> None, job |-> None]

TypeOK ==
    /\ client \in 0..MaxClients /\ clients \in 0..MaxClients
    /\ reconnecting \in BOOLEAN /\ connecting \in BOOLEAN
    /\ pending \in 0..MaxClients
    /\ md \in [slot : 0..MaxJobs, orphans : 0..OrphanThreshold, degraded : BOOLEAN]
    /\ \A j \in Jobs : job[j].st \in {"none", "queued", "running", "sending", "waiting",
                                      "ended", "over", "cancelled"}
    /\ \A c \in Callers : caller[c].pc \in {"idle", "check", "stale", "submit", "wait",
                                            "lost"}
    /\ ack \in [Clients -> BOOLEAN]

\* The relay starts with its first connect.
Init ==
    /\ client = None /\ clients = 0 /\ reconnecting = TRUE /\ connecting = FALSE
    /\ pending = None
    /\ md = [slot |-> None, orphans |-> 0, degraded |-> FALSE]
    /\ job = [j \in Jobs |-> NoJob]
    /\ caller = [c \in Callers |-> Idle]
    /\ ack = [c \in Clients |-> FALSE]

Done(j) == job[j].st \in {"ended", "over", "cancelled"}
Runs(j) == job[j].st \in {"running", "sending", "waiting"}
SlotBusy == md.slot # None /\ ~Done(md.slot)

-----------------------------------------------------------------------------
(* The executor *)

\* _reset_metadata_executor_for_stale_probe()
Reset(m) ==
    IF m.degraded THEN m
    ELSE [m EXCEPT !.slot = None, !.orphans = @ + 1, !.degraded = m.orphans + 1 >= OrphanThreshold]

\* executor.shutdown(wait=False, cancel_futures=True) on the executor given up.  A
\* watchdog that has not fired will find another job in the place of its own.
ResetJobs ==
    IF md.degraded THEN job
    ELSE [j \in Jobs |-> IF job[j].st = "queued" THEN [NoJob EXCEPT !.st = "cancelled"]
                         ELSE [job[j] EXCEPT !.inUse = FALSE,
                                             !.timer = IF @ = "armed" THEN "off" ELSE @]]

\* A mutant: a job that ends frees the place, whoever has it.
ClearAlways(j) == [md EXCEPT !.slot = None]

\* _clear_metadata_future_if_current()
ClearIfCurrent(j) == IF md.slot = j THEN [md EXCEPT !.slot = None] ELSE md

\* The worker takes the job; ThreadPoolExecutor(max_workers=1).
Start(j) ==
    /\ job[j].st = "queued"
    /\ \A k \in Jobs : job[k].inUse => ~Runs(k) /\ job[k].st # "ended"
    /\ job' = [job EXCEPT ![j].st = "running"]
    /\ UNCHANGED <<link, pending, md, caller, ack>>

\* Time passes: METADATA_WATCHDOG_SECS since the job was submitted.
GetsStale(j) ==
    /\ Runs(j) /\ ~job[j].stale
    /\ job' = [job EXCEPT ![j].stale = TRUE]
    /\ UNCHANGED <<link, pending, md, caller, ack>>

\* set_result() or set_exception(): the future is done.
Ended(j, ok) == [job EXCEPT ![j].st = "ended", ![j].ok = ok, ![j].stale = FALSE]

\* getMetadata() returns or raises; it may as well hang.
MetadataEnds(j) ==
    /\ job[j].st = "running" /\ job[j].kind = "metadata"
    /\ job' = Ended(j, FALSE)
    /\ UNCHANGED <<link, pending, md, caller, ack>>

\* A mutant: flags left by an earlier answer are not reset.
KeepAck(c) == ack

\* _reset_probe_ack_state()
ResetAck(c) == [ack EXCEPT ![c] = FALSE]

\* _probe_device_connection() resets the flags, or the client has no transport for a
\* probe and it raises before that.
ClearFlags(j) ==
    /\ job[j].st = "running" /\ job[j].kind = "probe"
    /\ \/ job' = [job EXCEPT ![j].st = "sending"] /\ ack' = ResetAck(job[j].client)
       \/ job' = Ended(j, FALSE) /\ ack' = ack
    /\ UNCHANGED <<link, pending, md, caller>>

\* Then the request is sent, or sendData() raises.
Probe(j) ==
    /\ job[j].st = "sending"
    /\ \/ job' = [job EXCEPT ![j].st = "waiting", ![j].asked = TRUE]
       \/ job' = Ended(j, FALSE)
    /\ UNCHANGED <<link, pending, md, caller, ack>>

\* _set_probe_ack_flag_from_packet()
SetAck(c) == [ack EXCEPT ![c] = TRUE]

\* The device answers, perhaps long after the probe was given up:
\* _handle_probe_ack_callback() sets the flags of the client.
Answer(j) ==
    /\ job[j].asked /\ job[j].client = client
    /\ ack' = SetAck(client)
    /\ job' = [k \in Jobs |->
                  IF k = j /\ job[k].st = "over" THEN [job[k] EXCEPT !.asked = FALSE, !.client = None]
                  ELSE [job[k] EXCEPT !.asked = @ /\ k # j,
                          !.heard = @ \/ (job[k].client = client /\ job[k].st \in {"sending", "waiting"})]]
    /\ UNCHANGED <<link, pending, md, caller>>

\* _wait_for_probe_ack(): whichever probe polls first takes the flags.
Hears(j) ==
    /\ job[j].st = "waiting" /\ ack[job[j].client]
    /\ ack' = ResetAck(job[j].client)
    /\ job' = Ended(j, TRUE)
    /\ UNCHANGED <<link, pending, md, caller>>

\* ... and gives up after the probe timeout.
HearsNothing(j) ==
    /\ job[j].st = "waiting" /\ ~ack[job[j].client] /\ job[j].stale
    /\ job' = Ended(j, FALSE)
    /\ UNCHANGED <<link, pending, md, caller, ack>>

\* The callbacks of the future: its place is free and its watchdog cancelled.
Callback(j) ==
    /\ job[j].st = "ended"
    /\ job' = [job EXCEPT ![j] = [NoJob EXCEPT !.st = "over", !.ok = job[j].ok, !.asked = job[j].asked,
                  !.client = IF job[j].asked THEN job[j].client ELSE None,
                  !.timer = IF job[j].timer = "firing" THEN "firing" ELSE "off"]]
    /\ md' = ClearIfCurrent(j)
    /\ UNCHANGED <<link, pending, caller, ack>>

\* _cleanup() of _schedule_metadata_future_cleanup() finds the job in the way,
WatchdogFires(j) ==
    /\ job[j].timer = "armed" /\ job[j].stale
    /\ job' = [job EXCEPT ![j].timer = IF Done(j) \/ md.slot # j THEN "off" ELSE "firing"]
    /\ UNCHANGED <<link, pending, md, caller, ack>>

\* and resets whatever executor there is by now.
WatchdogResets(j) ==
    /\ job[j].timer = "firing"
    /\ md' = Reset(md)
    /\ job' = [ResetJobs EXCEPT ![j].timer = "off"]
    /\ UNCHANGED <<link, pending, caller, ack>>

-----------------------------------------------------------------------------
(* _submit_metadata_probe() *)

Call(kind, cl) == [pc |-> "check", kind |-> kind, client |-> cl, job |-> None]

\* The call has returned; connect_meshtastic() goes on with its next one.
Over(w) == [Idle EXCEPT !.kind = w.kind]

\* The first look: a probe in flight is left alone unless it is stale.
Check(c) ==
    /\ caller[c].pc = "check"
    /\ caller' = [caller EXCEPT ![c] =
                    IF ~SlotBusy THEN [@ EXCEPT !.pc = "submit"]
                    ELSE IF job[md.slot].stale THEN [@ EXCEPT !.pc = "stale"] ELSE Over(@)]
    /\ UNCHANGED <<link, pending, md, job, ack>>

ReplaceStale(c) ==
    /\ caller[c].pc = "stale"
    /\ md' = Reset(md) /\ job' = ResetJobs
    /\ caller' = [caller EXCEPT ![c].pc = "submit"]
    /\ UNCHANGED <<link, pending, ack>>

\* The executor takes the job; its watchdog starts.
Submitted(c, j) ==
    /\ job' = [job EXCEPT ![j] = [NoJob EXCEPT !.st = "queued", !.kind = caller[c].kind,
                                   !.inUse = TRUE, !.client = caller[c].client,
                                   !.timer = "armed"]]
    /\ md' = [md EXCEPT !.slot = j]
    /\ caller' = [caller EXCEPT ![c] = IF c = "timer" THEN Idle ELSE [@ EXCEPT !.pc = "wait", !.job = j]]

\* The second critical section.  A degraded executor makes the health check give up
\* the connection; the other callers go on without a probe.  A RuntimeError of submit()
\* has the executor replaced, and there is no probe either.
Submit(c) ==
    /\ caller[c].pc = "submit"
    /\ \/ /\ md.degraded
          /\ caller' = [caller EXCEPT ![c] = IF c = "health" THEN [@ EXCEPT !.pc = "lost"]
                                             ELSE Over(@)]
          /\ UNCHANGED <<md, job>>
       \/ /\ ~md.degraded /\ SlotBusy
          /\ caller' = [caller EXCEPT ![c] = Over(@)]
          /\ UNCHANGED <<md, job>>
       \/ /\ ~md.degraded /\ ~SlotBusy
          /\ \E j \in Jobs : /\ job[j].st = "none" /\ \A k \in 1..(j - 1) : job[k].st # "none"
                             /\ Submitted(c, j)
       \/ /\ ~md.degraded /\ ~SlotBusy
          /\ md' = Reset(md) /\ job' = ResetJobs
          /\ caller' = [caller EXCEPT ![c] = Over(@)]
    /\ UNCHANGED <<link, pending, ack>>

-----------------------------------------------------------------------------
(* The callers *)

\* One turn of check_connection().
HealthCheck ==
    /\ caller["health"].pc = "idle" /\ client # None /\ ~reconnecting
    /\ caller' = [caller EXCEPT !["health"] = Call("probe", client)]
    /\ UNCHANGED <<link, pending, md, job, ack>>

\* _execute_health_probe() has its answer, its error or no more time; wait_for()
\* cancels the job, which only helps before it runs.
HealthResult ==
    LET w == caller["health"]
        j == w.job
        late == Runs(j) /\ job[j].stale
        passed == Done(j) /\ job[j].ok IN
    /\ w.pc = "wait" /\ (Done(j) \/ late)
    /\ caller' = [caller EXCEPT !["health"] =
                    IF passed \/ reconnecting \/ client # w.client THEN Idle
                    ELSE [w EXCEPT !.pc = "lost"]]
    /\ UNCHANGED <<link, pending, md, job, ack>>

\* on_lost_meshtastic_connection() for client c.  The link is neither BLE nor has it
\* a degraded BLE address, so _reset_ble_degraded_state_after_disconnect() does nothing.
\* Nothing more is heard from a closed client.
Lost(c) ==
    IF client = c /\ ~reconnecting
    THEN /\ client' = None /\ reconnecting' = TRUE /\ pending' = None
         /\ job' = [j \in Jobs |-> [job[j] EXCEPT !.asked = FALSE]]
         /\ UNCHANGED <<clients, connecting>>
    ELSE UNCHANGED <<link, pending, job>>

HealthLost ==
    /\ caller["health"].pc = "lost" /\ ~connecting
    /\ Lost(caller["health"].client)
    /\ caller' = [caller EXCEPT !["health"] = Idle]
    /\ UNCHANGED <<md, ack>>

\* The reader thread notices that the link is gone; the last client stays.
LinkLost ==
    /\ ~connecting /\ client # None /\ ~reconnecting /\ clients < MaxClients
    /\ Lost(client)
    /\ UNCHANGED <<md, caller, ack>>

\* connect_meshtastic() publishes a client and asks for the metadata, unless the
\* library has it already (_extract_firmware_version_from_client()).
Connect ==
    /\ reconnecting /\ ~connecting /\ client = None /\ clients < MaxClients
    /\ clients' = clients + 1 /\ client' = clients + 1 /\ connecting' = TRUE
    /\ caller' = [caller EXCEPT !["connect"] =
                    Call("metadata", clients + 1)]
    /\ UNCHANGED <<reconnecting, pending, md, job, ack>>

CachedMetadata ==
    /\ connecting /\ caller["connect"].pc = "check" /\ caller["connect"].kind = "metadata"
    /\ caller' = [caller EXCEPT !["connect"] = Over(@)]
    /\ UNCHANGED <<link, pending, md, job, ack>>

\* _get_device_metadata() waits for the watchdog time at most.
MetadataResult ==
    LET w == caller["connect"] IN
    /\ w.pc = "wait" /\ w.kind = "metadata"
    /\ Done(w.job) \/ job[w.job].stale
    /\ caller' = [caller EXCEPT !["connect"] = Over(@)]
    /\ UNCHANGED <<link, pending, md, job, ack>>

\* _schedule_connect_time_calibration_probe(): at once, or by a timer once the
\* startup drain is over.  The setup is complete and reconnect() returns.
SetUp ==
    LET w == caller["connect"] IN
    /\ connecting /\ w.pc = "idle" /\ w.kind = "metadata"
    /\ \/ /\ caller' = [caller EXCEPT !["connect"] = Call("probe", client)]
          /\ UNCHANGED <<link, pending>>
       \/ /\ pending' = client
          /\ caller' = [caller EXCEPT !["connect"] = Idle]
          /\ connecting' = FALSE /\ reconnecting' = FALSE
          /\ UNCHANGED <<client, clients>>
    /\ UNCHANGED <<md, job, ack>>

\* Nobody waits for the calibration probe.
SetUpDone ==
    LET w == caller["connect"] IN
    /\ connecting /\ w.kind = "probe" /\ w.pc \in {"idle", "wait"}
    /\ caller' = [caller EXCEPT !["connect"] = Idle]
    /\ connecting' = FALSE /\ reconnecting' = FALSE
    /\ UNCHANGED <<client, clients, pending, md, job, ack>>

\* _delayed_submit_with_stale_guard(): the timer of a client that is gone does nothing.
DelayedProbe ==
    /\ pending # None /\ caller["timer"].pc = "idle"
    /\ pending' = None
    /\ caller' = [caller EXCEPT !["timer"] =
                    IF pending = client THEN Call("probe", pending) ELSE Idle]
    /\ UNCHANGED <<link, md, job, ack>>

-----------------------------------------------------------------------------
Worker(j) ==
    Start(j) \/ ClearFlags(j) \/ Probe(j) \/ Hears(j) \/ HearsNothing(j) \/ Callback(j)
Watchdog(j) == WatchdogFires(j) \/ WatchdogResets(j)
Submission(c) == Check(c) \/ ReplaceStale(c) \/ Submit(c)
Connector == CachedMetadata \/ MetadataResult \/ SetUp \/ SetUpDone

Next ==
    \/ \E j \in Jobs : \/ Worker(j) \/ MetadataEnds(j) \/ Answer(j) \/ GetsStale(j)
                       \/ Watchdog(j)
    \/ \E c \in Callers : Submission(c)
    \/ HealthCheck \/ HealthResult \/ HealthLost \/ LinkLost
    \/ Connect \/ Connector \/ DelayedProbe

Spec == Init /\ [][Next]_vars

-----------------------------------------------------------------------------
\* Probes that hang cost at most EXECUTOR_ORPHAN_THRESHOLD threads, however callers
\* and watchdogs race to replace the executor
\* (_reset_metadata_executor_for_stale_probe()).
WorkersBounded == Cardinality({j \in Jobs : Runs(j)}) <= OrphanThreshold

\* A probe is never queued behind one that is still running: its time would be over
\* before it is sent (_submit_metadata_probe(), _clear_metadata_future_if_current()).
NoQueueing ==
    \A j, k \in Jobs : (job[j].st = "queued" /\ job[k].inUse) => ~Runs(k)

\* A probe passes only on an answer that arrived after it had reset the flags, so it
\* "cannot 'pass' on prior traffic" (_probe_device_connection()), although all probes of
\* a client share its flags, answers may be late and whichever probe polls first takes
\* them.  The answer need not be to this probe: one to a probe that was given up may
\* arrive after the reset, even before the request is sent, and passes it.
PassMeansAnswer == \A j \in Jobs : (job[j].st = "ended" /\ job[j].ok) => job[j].heard

\* Hung probes neither pile up threads nor hold up the probes after them
\* (_submit_metadata_probe(), _reset_metadata_executor_for_stale_probe()).
HungProbesContained == WorkersBounded /\ NoQueueing
=============================================================================
