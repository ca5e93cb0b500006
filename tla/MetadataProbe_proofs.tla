------------------------ MODULE MetadataProbe_proofs ------------------------
(* Theorems about MetadataProbe, for every number of probes and clients and  *)
(* every orphan threshold.                                                   *)
EXTENDS MetadataProbe, FiniteSetTheorems, TLAPS

ClientIds == 0..MaxClients
JobIds == 0..MaxJobs
Counts == 0..OrphanThreshold

JobRecord ==
    [st : {"none", "queued", "running", "sending", "waiting", "ended", "over", "cancelled"},
     kind : {"probe", "metadata"}, inUse : BOOLEAN, client : ClientIds, stale : BOOLEAN,
     timer : {"off", "armed", "firing"}, asked : BOOLEAN, heard : BOOLEAN, ok : BOOLEAN]

CallRecord ==
    [pc : {"idle", "check", "stale", "submit", "wait", "lost"}, kind : {"probe", "metadata"},
     client : ClientIds, job : JobIds]

Types ==
    /\ client \in ClientIds /\ clients \in ClientIds
    /\ reconnecting \in BOOLEAN /\ connecting \in BOOLEAN
    /\ pending \in ClientIds
    /\ md \in [slot : JobIds, orphans : Counts, degraded : BOOLEAN]
    /\ job \in [Jobs -> JobRecord]
    /\ caller \in [Callers -> CallRecord]
    /\ ack \in [Clients -> BOOLEAN]

\* A call that may still submit is for a client, and so is a job that is not over.
ForClients ==
    /\ connecting => client # None
    /\ \A c \in Callers : caller[c].pc \in {"check", "stale", "submit"} => caller[c].client # None
    /\ \A j \in Jobs : Runs(j) \/ job[j].st = "queued" => job[j].client # None

\* The job has reset the flags of its client and not yet looked at them for the last time.
Listens(j) == job[j].st \in {"sending", "waiting"}

\* Flags that such a probe will find set were set by an answer it has heard.
FlagsAreFresh == \A j \in Jobs : Listens(j) /\ ack[job[j].client] => job[j].heard

\* The executor in use has no unfinished job but the one in the place; a job that has
\* not started is on it.
OneInFlight ==
    \A j \in Jobs : /\ job[j].inUse /\ (Runs(j) \/ job[j].st = "queued") => md.slot = j
                    /\ job[j].st = "queued" => job[j].inUse

\* The jobs that run on executors that were given up.
Orphans == {j \in Jobs : Runs(j) /\ ~job[j].inUse}

\* Every orphan was counted, and a degraded executor has no job.
OrphansCounted ==
    /\ Cardinality(Orphans) <= md.orphans
    /\ md.degraded <=> md.orphans = OrphanThreshold
    /\ md.degraded => md.slot = None

ProbeInv ==
    Types /\ ForClients /\ FlagsAreFresh /\ PassMeansAnswer /\ OneInFlight /\ OrphansCounted

-----------------------------------------------------------------------------
(* Counting the orphans. *)

\* None stands for no client and no job.
LEMMA Ids ==
    /\ None \in ClientIds /\ None \in JobIds /\ 0 \in Counts
    /\ Clients = ClientIds \ {None} /\ Jobs = JobIds \ {None}
BY ProbeAssumption DEF None, ClientIds, JobIds, Counts, Clients, Jobs

\* A counter of orphans is a number.
LEMMA CountsAre == Counts \subseteq Nat /\ OrphanThreshold \in Nat \ {0}
BY ProbeAssumption DEF Counts

\* There are finitely many jobs, so every set of them has a cardinality.
LEMMA OrphansFinite ==
    /\ IsFiniteSet(Jobs)
    /\ \A S \in SUBSET Jobs : IsFiniteSet(S) /\ Cardinality(S) \in Nat
<1>1. 1 \in Int /\ MaxJobs \in Int BY ProbeAssumption
<1>2. IsFiniteSet(Jobs) BY <1>1, FS_Interval DEF Jobs
<1> QED BY <1>2, FS_Subset, FS_CardinalityType

\* One element more.
LEMMA PlusOne ==
    ASSUME NEW S, IsFiniteSet(S), NEW x
    PROVE  /\ IsFiniteSet(S \cup {x})
           /\ Cardinality(S \cup {x}) \in Nat
           /\ Cardinality(S \cup {x}) <= Cardinality(S) + 1
<1>1. Cardinality(S) \in Nat BY FS_CardinalityType
<1>2. /\ IsFiniteSet(S \cup {x})
      /\ Cardinality(S \cup {x}) = IF x \in S THEN Cardinality(S) ELSE Cardinality(S) + 1
  BY FS_AddElement
<1> QED BY <1>1, <1>2

\* A step that makes no orphan and counts none keeps the count.
LEMMA NoNewOrphan ==
    ASSUME Types, OrphansCounted, Orphans' \subseteq Orphans, md'.orphans = md.orphans,
           md'.degraded = md.degraded, md'.degraded => md'.slot = None
    PROVE  OrphansCounted'
<1>1. Orphans \in SUBSET Jobs /\ Orphans' \in SUBSET Jobs BY DEF Orphans
<1>2. Cardinality(Orphans') <= Cardinality(Orphans)
  BY <1>1, OrphansFinite, FS_Subset
<1>3. Cardinality(Orphans) \in Nat /\ Cardinality(Orphans') \in Nat /\ md.orphans \in Nat
  BY <1>1, OrphansFinite, CountsAre DEF Types
<1>4. Cardinality(Orphans)' = Cardinality(Orphans') OBVIOUS
<1> QED BY <1>2, <1>3, <1>4 DEF OrphansCounted

\* An executor that is given up makes one orphan at most, the job in the place.
LEMMA OneNewOrphan ==
    ASSUME Types, OrphansCounted, OneInFlight, ~md.degraded, md' = Reset(md),
           Orphans' \subseteq {j \in Jobs : Runs(j)}
    PROVE  OrphansCounted'
<1>1. Orphans \in SUBSET Jobs /\ Orphans' \in SUBSET Jobs BY DEF Orphans
<1>2. Orphans' \subseteq Orphans \cup {md.slot}
  BY DEF Orphans, OneInFlight
<1>3. IsFiniteSet(Orphans) /\ Cardinality(Orphans) \in Nat /\ Cardinality(Orphans') \in Nat
  BY <1>1, OrphansFinite
<1>4. /\ IsFiniteSet(Orphans \cup {md.slot})
      /\ Cardinality(Orphans \cup {md.slot}) \in Nat
      /\ Cardinality(Orphans \cup {md.slot}) <= Cardinality(Orphans) + 1
  BY <1>3, PlusOne
<1>5. Cardinality(Orphans') <= Cardinality(Orphans) + 1
  BY <1>2, <1>3, <1>4, FS_Subset
<1>6. /\ md'.orphans = md.orphans + 1 /\ md'.slot = None
      /\ md'.degraded <=> md.orphans + 1 >= OrphanThreshold
      /\ md.orphans \in Counts /\ md.orphans # OrphanThreshold
  BY DEF Reset, Types, OrphansCounted
<1>8. Cardinality(Orphans) <= md.orphans BY DEF OrphansCounted
<1>7. Cardinality(Orphans)' = Cardinality(Orphans') OBVIOUS
<1> QED BY <1>3, <1>5, <1>6, <1>7, <1>8, ProbeAssumption DEF OrphansCounted, Counts

\* _reset_metadata_executor_for_stale_probe(): jobs that have not started are cancelled,
\* the others run on.
LEMMA ResetEffect ==
    ASSUME Types, OrphansCounted
    PROVE  /\ ResetJobs \in [Jobs -> JobRecord]
           /\ Reset(md) \in [slot : JobIds, orphans : Counts, degraded : BOOLEAN]
           /\ md.degraded => Reset(md) = md /\ ResetJobs = job
           /\ ~md.degraded => \A j \in Jobs :
                 /\ ~ResetJobs[j].inUse
                 /\ ResetJobs[j].st = IF job[j].st = "queued" THEN "cancelled" ELSE job[j].st
                 /\ job[j].st # "queued" => /\ ResetJobs[j].client = job[j].client
                                            /\ ResetJobs[j].heard = job[j].heard
                                            /\ ResetJobs[j].ok = job[j].ok
<1>1. CASE md.degraded
  BY <1>1 DEF Types, ResetJobs, Reset
<1>2. CASE ~md.degraded
  <2>1. NoJob \in JobRecord /\ [NoJob EXCEPT !.st = "cancelled"] \in JobRecord
        /\ [NoJob EXCEPT !.st = "cancelled"].st = "cancelled"
        /\ ~[NoJob EXCEPT !.st = "cancelled"].inUse
    BY Ids DEF NoJob, JobRecord
  <2> DEFINE Left(r) == [r EXCEPT !.inUse = FALSE, !.timer = IF @ = "armed" THEN "off" ELSE @]
  <2>2. ASSUME NEW r \in JobRecord
        PROVE  /\ Left(r) \in JobRecord /\ ~Left(r).inUse /\ Left(r).st = r.st
               /\ Left(r).client = r.client /\ Left(r).heard = r.heard /\ Left(r).ok = r.ok
    BY DEF JobRecord
  <2>3. ResetJobs = [j \in Jobs |-> IF job[j].st = "queued" THEN [NoJob EXCEPT !.st = "cancelled"]
                                    ELSE Left(job[j])]
    BY <1>2 DEF ResetJobs
  <2> HIDE DEF Left
  <2>4. \A j \in Jobs : job[j] \in JobRecord BY DEF Types
  <2>5. Reset(md) \in [slot : JobIds, orphans : Counts, degraded : BOOLEAN]
    <3>1. md.orphans + 1 \in Counts
      BY <1>2, ProbeAssumption DEF Types, OrphansCounted, Counts
    <3>2. (md.orphans + 1 >= OrphanThreshold) \in BOOLEAN OBVIOUS
    <3> QED BY <1>2, <3>1, <3>2, Ids DEF Reset, Types
  <2> QED BY <1>2, <2>1, <2>2, <2>3, <2>4, <2>5
<1> QED BY <1>1, <1>2

\* Replacing the executor keeps the invariant, whoever does it and whatever the timer
\* of the watchdog is.
LEMMA ResetKeeps ==
    ASSUME ProbeInv, md' = Reset(md), ack' = ack, job' \in [Jobs -> JobRecord],
           \A j \in Jobs : /\ job'[j].st = ResetJobs[j].st
                           /\ job'[j].inUse = ResetJobs[j].inUse
                           /\ job'[j].client = ResetJobs[j].client
                           /\ job'[j].heard = ResetJobs[j].heard
                           /\ job'[j].ok = ResetJobs[j].ok
    PROVE  /\ FlagsAreFresh' /\ PassMeansAnswer' /\ OneInFlight' /\ OrphansCounted'
           /\ \A j \in Jobs : Runs(j)' \/ job'[j].st = "queued" => job'[j].client # None
<1> USE DEF ProbeInv
<1>1. CASE md.degraded
  <2>1. \A j \in Jobs : /\ job'[j].st = job[j].st /\ job'[j].inUse = job[j].inUse
                        /\ job'[j].client = job[j].client /\ job'[j].heard = job[j].heard
                        /\ job'[j].ok = job[j].ok
    BY <1>1, ResetEffect
  <2>2. md' = md BY <1>1, ResetEffect
  <2>3. Orphans' \subseteq Orphans BY <2>1 DEF Orphans, Runs
  <2>4. OrphansCounted' BY <2>2, <2>3, NoNewOrphan DEF OrphansCounted
  <2> QED BY <2>1, <2>2, <2>4 DEF FlagsAreFresh, PassMeansAnswer, OneInFlight, ForClients, Runs, Listens
<1>2. CASE ~md.degraded
  <2>1. \A j \in Jobs :
           /\ ~job'[j].inUse
           /\ job'[j].st = IF job[j].st = "queued" THEN "cancelled" ELSE job[j].st
           /\ job[j].st # "queued" => /\ job'[j].client = job[j].client
                                      /\ job'[j].heard = job[j].heard
                                      /\ job'[j].ok = job[j].ok
    BY <1>2, ResetEffect
  <2>2. Orphans' \subseteq {j \in Jobs : Runs(j)} BY <2>1 DEF Orphans, Runs
  <2>3. OrphansCounted' BY <1>2, <2>2, OneNewOrphan
  <2> QED BY <2>1, <2>3 DEF FlagsAreFresh, PassMeansAnswer, OneInFlight, ForClients, Runs, Listens
<1> QED BY <1>1, <1>2

-----------------------------------------------------------------------------
(* The invariant is inductive. *)

\* The relay starts without a probe.
LEMMA ProbeInvInit == Init => ProbeInv
<1> SUFFICES ASSUME Init PROVE ProbeInv OBVIOUS
<1>1. NoJob \in JobRecord /\ Idle \in CallRecord
  BY Ids DEF NoJob, JobRecord, Idle, CallRecord
<1>2. Types
  <2>1. md \in [slot : JobIds, orphans : Counts, degraded : BOOLEAN]
    BY Ids DEF Init
  <2>2. job \in [Jobs -> JobRecord] /\ caller \in [Callers -> CallRecord]
        /\ ack \in [Clients -> BOOLEAN]
    BY <1>1 DEF Init
  <2>3. /\ client = None /\ clients = None /\ pending = None
        /\ reconnecting = TRUE /\ connecting = FALSE
    BY DEF Init, None
  <2> QED BY <2>1, <2>2, <2>3, Ids DEF Types
<1>3. \A j \in Jobs : job[j].st = "none" /\ ~job[j].inUse
  BY DEF Init, NoJob
<1>4. \A c \in Callers : caller[c].pc = "idle"
  BY DEF Init, Idle
<1>5. Orphans = {} BY <1>3 DEF Orphans, Runs
<1>6. OrphansCounted
  BY <1>5, FS_EmptySet, ProbeAssumption DEF Init, OrphansCounted
<1> QED BY <1>2, <1>3, <1>4, <1>6
        DEF Init, ProbeInv, ForClients, FlagsAreFresh, PassMeansAnswer, OneInFlight, Runs, Listens

\* The worker and the device: a job runs, its request is answered, it ends.
LEMMA ProbeInvJobs ==
    ASSUME ProbeInv, NEW j \in Jobs,
           Worker(j) \/ MetadataEnds(j) \/ Answer(j) \/ GetsStale(j) \/ WatchdogFires(j)
    PROVE  ProbeInv'
<1> USE DEF ProbeInv, link
<1>j. \A k \in Jobs : job[k] \in JobRecord BY DEF Types
<1>e. ASSUME NEW ok \in BOOLEAN
      PROVE  /\ Ended(j, ok) \in [Jobs -> JobRecord]
             /\ \A k \in Jobs \ {j} : Ended(j, ok)[k] = job[k]
             /\ Ended(j, ok)[j].st = "ended" /\ Ended(j, ok)[j].ok = ok
             /\ Ended(j, ok)[j].heard = job[j].heard
  <2> DEFINE r == [job[j] EXCEPT !.st = "ended", !.ok = ok, !.stale = FALSE]
  <2>1. r \in JobRecord /\ r.st = "ended" /\ r.ok = ok /\ r.heard = job[j].heard
    BY <1>j DEF JobRecord
  <2>2. Ended(j, ok) = [job EXCEPT ![j] = r] BY DEF Ended, Types
  <2> HIDE DEF r
  <2> QED BY <2>1, <2>2 DEF Types
<1>f. ASSUME NEW ok \in BOOLEAN, job' = Ended(j, ok), ok => job[j].heard, md' = md,
             caller' = caller, UNCHANGED <<link, pending>>, ack' \in [Clients -> BOOLEAN],
             \A c \in Clients : ack'[c] => ack[c]
      PROVE  ProbeInv'
  <2>1. Types' BY <1>e, <1>f DEF Types
  <2>2. Orphans' \subseteq Orphans BY <1>e, <1>f DEF Orphans, Runs
  <2>3. OrphansCounted' BY <1>f, <2>2, NoNewOrphan DEF OrphansCounted
  <2>4. \A k \in Jobs : Listens(k) => job[k].client \in Clients
    BY <1>j, Ids DEF ForClients, JobRecord, Listens, Runs
  <2> QED BY <1>e, <1>f, <2>1, <2>3, <2>4
          DEF ForClients, FlagsAreFresh, PassMeansAnswer, OneInFlight, Runs, Listens
<1>1. CASE Start(j)
  <2>1. \A k \in Jobs : /\ job'[k].st = IF k = j THEN "running" ELSE job[k].st
                        /\ job'[k].inUse = job[k].inUse /\ job'[k].client = job[k].client
                        /\ job'[k].heard = job[k].heard /\ job'[k].ok = job[k].ok
    BY <1>1, <1>j DEF Start, Types, JobRecord
  <2>2. Types' BY <1>1 DEF Start, Types, JobRecord
  <2>3. Orphans' \subseteq Orphans BY <1>1, <2>1 DEF Start, Orphans, Runs, OneInFlight
  <2>4. OrphansCounted' BY <1>1, <2>3, NoNewOrphan DEF Start, OrphansCounted
  <2> QED BY <1>1, <2>1, <2>2, <2>4
          DEF Start, ForClients, FlagsAreFresh, PassMeansAnswer, OneInFlight, Runs, Listens
<1>g. ASSUME NEW r \in JobRecord, job' = [job EXCEPT ![j] = r], Runs(j),
             r.st \in {"sending", "waiting"}, r.inUse = job[j].inUse, r.client = job[j].client,
             r.heard = job[j].heard, UNCHANGED <<link, pending, md, caller>>,
             ack' \in [Clients -> BOOLEAN], \A c \in Clients : ack'[c] => ack[c],
             ack'[r.client] => r.heard
      PROVE  ProbeInv'
  <2>1. job' \in [Jobs -> JobRecord] /\ job'[j] = r /\ \A k \in Jobs \ {j} : job'[k] = job[k]
    BY <1>g DEF Types
  <2>2. Types' BY <1>g, <2>1 DEF Types
  <2>3. Orphans' \subseteq Orphans BY <1>g, <2>1 DEF Orphans, Runs
  <2>4. OrphansCounted' BY <1>g, <2>3, NoNewOrphan DEF OrphansCounted
  <2>5. \A k \in Jobs : Listens(k) => job[k].client \in Clients
    BY <1>j, Ids DEF ForClients, JobRecord, Listens, Runs
  <2>6. FlagsAreFresh' BY <1>g, <2>1, <2>5 DEF FlagsAreFresh, Listens
  <2>7. ForClients' BY <1>g, <2>1 DEF ForClients, Runs
  <2>8. PassMeansAnswer' BY <1>g, <2>1 DEF PassMeansAnswer
  <2>9. OneInFlight' BY <1>g, <2>1 DEF OneInFlight, Runs
  <2> QED BY <2>2, <2>4, <2>6, <2>7, <2>8, <2>9
<1>2. CASE ClearFlags(j)
  <2>1. CASE job' = Ended(j, FALSE) /\ ack' = ack
    <3>1. ack' \in [Clients -> BOOLEAN] /\ \A c \in Clients : ack'[c] => ack[c] BY <2>1 DEF Types
    <3> QED BY <1>2, <1>f, <2>1, <3>1 DEF ClearFlags
  <2>2. CASE job' = [job EXCEPT ![j].st = "sending"] /\ ack' = ResetAck(job[j].client)
    <3> DEFINE r == [job[j] EXCEPT !.st = "sending"]
    <3>1. /\ r \in JobRecord /\ r.st = "sending" /\ r.inUse = job[j].inUse
          /\ r.client = job[j].client /\ r.heard = job[j].heard
      BY <1>j DEF JobRecord
    <3>2. job' = [job EXCEPT ![j] = r] BY <2>2
    <3>3. Runs(j) /\ job[j].client \in Clients
      BY <1>2, <1>j, Ids DEF ClearFlags, Runs, ForClients, JobRecord
    <3>4. /\ ack' \in [Clients -> BOOLEAN] /\ ~ack'[job[j].client]
          /\ \A c \in Clients : ack'[c] => ack[c]
      BY <2>2, <3>3 DEF ResetAck, Types
    <3> HIDE DEF r
    <3> QED BY <1>2, <1>g, <3>1, <3>2, <3>3, <3>4 DEF ClearFlags
  <2> QED BY <1>2, <2>1, <2>2 DEF ClearFlags
<1>9. CASE Probe(j)
  <2>0. /\ ack' \in [Clients -> BOOLEAN] /\ ack' = ack
        /\ \A c \in Clients : ack'[c] => ack[c]
    BY <1>9 DEF Probe, Types
  <2>1. CASE job' = Ended(j, FALSE)
    BY <1>9, <1>f, <2>0, <2>1 DEF Probe
  <2>2. CASE job' = [job EXCEPT ![j].st = "waiting", ![j].asked = TRUE]
    <3> DEFINE r == [job[j] EXCEPT !.st = "waiting", !.asked = TRUE]
    <3>1. /\ r \in JobRecord /\ r.st = "waiting" /\ r.inUse = job[j].inUse
          /\ r.client = job[j].client /\ r.heard = job[j].heard
      BY <1>j DEF JobRecord
    <3>2. job' = [job EXCEPT ![j] = r] BY <2>2 DEF Types
    <3>3. Runs(j) /\ (ack[job[j].client] => job[j].heard)
      BY <1>9 DEF Probe, Runs, FlagsAreFresh, Listens
    <3> HIDE DEF r
    <3> QED BY <1>9, <1>g, <2>0, <3>1, <3>2, <3>3 DEF Probe
  <2> QED BY <1>9, <2>1, <2>2 DEF Probe
<1>3. CASE Hears(j)
  <2>1. ack' \in [Clients -> BOOLEAN] /\ \A c \in Clients : ack'[c] => ack[c]
    BY <1>3 DEF Hears, ResetAck, Types
  <2>2. job[j].heard BY <1>3 DEF Hears, FlagsAreFresh, Listens
  <2> QED BY <1>3, <1>f, <2>1, <2>2 DEF Hears
<1>4. CASE HearsNothing(j)
  <2>1. ack' = ack /\ ack \in [Clients -> BOOLEAN] BY <1>4 DEF HearsNothing, Types
  <2> QED BY <1>4, <1>f, <2>1 DEF HearsNothing
<1>5. CASE Callback(j)
  <2>1. /\ \A k \in Jobs \ {j} : job'[k] = job[k]
        /\ job'[j] \in JobRecord /\ job'[j].st = "over" /\ ~job'[j].inUse
    <3> DEFINE t == IF job[j].timer = "firing" THEN "firing" ELSE "off"
               cl == IF job[j].asked THEN job[j].client ELSE None
               r == [NoJob EXCEPT !.st = "over", !.ok = job[j].ok, !.asked = job[j].asked,
                                  !.client = cl, !.timer = t]
    <3>1. cl \in ClientIds /\ t \in {"off", "firing"} /\ job[j].ok \in BOOLEAN
          /\ job[j].asked \in BOOLEAN
      BY <1>j, Ids DEF JobRecord
    <3>2. job' = [job EXCEPT ![j] = r] BY <1>5 DEF Callback
    <3> HIDE DEF cl, t
    <3>3. r \in JobRecord /\ r.st = "over" /\ ~r.inUse BY <3>1 DEF NoJob, JobRecord
    <3> HIDE DEF r
    <3> QED BY <3>2, <3>3 DEF Types
  <2>2. md' = ClearIfCurrent(j) BY <1>5 DEF Callback
  <2>3. /\ md' \in [slot : JobIds, orphans : Counts, degraded : BOOLEAN]
        /\ md'.slot = (IF md.slot = j THEN None ELSE md.slot)
        /\ md'.orphans = md.orphans /\ md'.degraded = md.degraded
    BY <2>2, Ids DEF ClearIfCurrent, Types
  <2>4. job' \in [Jobs -> JobRecord] BY <1>5, <2>1 DEF Callback, Types
  <2>5. Types' BY <1>5, <2>3, <2>4 DEF Callback, Types
  <2>6. Orphans' \subseteq Orphans BY <2>1 DEF Orphans, Runs
  <2>7. OrphansCounted' BY <2>3, <2>6, NoNewOrphan DEF OrphansCounted
  <2> QED BY <1>5, <2>1, <2>3, <2>5, <2>7
          DEF Callback, ForClients, FlagsAreFresh, PassMeansAnswer, OneInFlight, Runs, Listens
<1>6. CASE MetadataEnds(j)
  <2>1. ack' = ack /\ ack \in [Clients -> BOOLEAN] BY <1>6 DEF MetadataEnds, Types
  <2> QED BY <1>6, <1>f, <2>1 DEF MetadataEnds
<1>7. CASE Answer(j)
  <2>1. \A k \in Jobs :
           /\ job'[k] \in JobRecord /\ job'[k].st = job[k].st /\ job'[k].inUse = job[k].inUse
           /\ job'[k].ok = job[k].ok
           /\ job[k].st # "over" =>
                 /\ job'[k].client = job[k].client
                 /\ job'[k].heard <=>
                       (job[k].heard \/ (job[k].client = client /\ job[k].st \in {"sending", "waiting"}))
    <3> TAKE k \in Jobs
    <3> DEFINE a == job[k].asked /\ k # j
               h == job[k].heard \/ (job[k].client = client /\ job[k].st \in {"sending", "waiting"})
    <3>1. a \in BOOLEAN /\ h \in BOOLEAN /\ job[k] \in JobRecord BY <1>j DEF JobRecord
    <3>2. CASE k = j /\ job[k].st = "over"
      <4>1. job'[k] = [job[k] EXCEPT !.asked = FALSE, !.client = None]
        BY <1>7, <3>2 DEF Answer
      <4> QED BY <3>1, <3>2, <4>1, Ids DEF JobRecord
    <3>3. CASE ~(k = j /\ job[k].st = "over")
      <4>1. job'[k] = [job[k] EXCEPT !.asked = a, !.heard = h]
        BY <1>7, <3>3 DEF Answer
      <4>2. h = (job[k].heard \/ (job[k].client = client /\ job[k].st \in {"sending", "waiting"})) OBVIOUS
      <4> HIDE DEF a, h
      <4>3. /\ job'[k] \in JobRecord /\ job'[k].st = job[k].st /\ job'[k].inUse = job[k].inUse
            /\ job'[k].ok = job[k].ok /\ job'[k].client = job[k].client /\ job'[k].heard = h
        BY <3>1, <4>1 DEF JobRecord
      <4> QED BY <4>2, <4>3
    <3> QED BY <3>2, <3>3
  <2>2. job' \in [Jobs -> JobRecord] BY <1>7, <2>1 DEF Answer
  <2>3. /\ ack' \in [Clients -> BOOLEAN]
        /\ \A c \in Clients : c # client => ack'[c] = ack[c]
    BY <1>7 DEF Answer, SetAck, Types
  <2>4. Types' BY <1>7, <2>2, <2>3 DEF Answer, Types
  <2>5. Orphans' \subseteq Orphans BY <2>1 DEF Orphans, Runs
  <2>6. OrphansCounted' BY <1>7, <2>5, NoNewOrphan DEF Answer, OrphansCounted
  <2>7. \A k \in Jobs : Listens(k) => job[k].client \in Clients
    BY <1>j, Ids DEF ForClients, JobRecord, Listens, Runs
  <2>8. FlagsAreFresh'
    <3> SUFFICES ASSUME NEW k \in Jobs, Listens(k)', ack'[job'[k].client], ~job'[k].heard
                 PROVE  FALSE
      BY DEF FlagsAreFresh
    <3>1. Listens(k) /\ job[k].st # "over" BY <2>1 DEF Listens
    <3>2. job'[k].client = job[k].client /\ ~job[k].heard /\ job[k].client # client
      BY <2>1, <3>1 DEF Listens
    <3>3. ack[job[k].client] BY <2>3, <2>7, <3>1, <3>2
    <3> QED BY <3>1, <3>2, <3>3 DEF FlagsAreFresh
  <2>9. PassMeansAnswer' BY <2>1 DEF PassMeansAnswer
  <2>10. md' = md /\ connecting' = connecting /\ client' = client /\ caller' = caller
    BY <1>7 DEF Answer
  <2>11. ForClients' BY <2>1, <2>10 DEF ForClients, Runs
  <2>12. OneInFlight' BY <2>1, <2>10 DEF OneInFlight, Runs
  <2> QED BY <2>4, <2>6, <2>8, <2>9, <2>11, <2>12
<1>8. CASE GetsStale(j) \/ WatchdogFires(j)
  <2>1. /\ \A k \in Jobs : /\ job'[k].st = job[k].st
                            /\ job'[k].inUse = job[k].inUse /\ job'[k].client = job[k].client
                            /\ job'[k].heard = job[k].heard /\ job'[k].ok = job[k].ok
        /\ job' \in [Jobs -> JobRecord]
    <3>1. PICK r \in JobRecord :
             /\ job' = [job EXCEPT ![j] = r]
             /\ r.st = job[j].st /\ r.inUse = job[j].inUse /\ r.client = job[j].client
             /\ r.heard = job[j].heard /\ r.ok = job[j].ok
      <4>1. CASE GetsStale(j)
        <5> DEFINE r == [job[j] EXCEPT !.stale = TRUE]
        <5>1. /\ r \in JobRecord
              /\ r.st = job[j].st /\ r.inUse = job[j].inUse /\ r.client = job[j].client
              /\ r.heard = job[j].heard /\ r.ok = job[j].ok
          BY <1>j DEF JobRecord
        <5>2. job' = [job EXCEPT ![j] = r] BY <4>1 DEF GetsStale
        <5> HIDE DEF r
        <5> QED BY <5>1, <5>2
      <4>2. CASE WatchdogFires(j)
        <5> DEFINE t == IF Done(j) \/ md.slot # j THEN "off" ELSE "firing"
                   r == [job[j] EXCEPT !.timer = t]
        <5>1. t \in {"off", "firing"} OBVIOUS
        <5>2. job' = [job EXCEPT ![j] = r] BY <4>2 DEF WatchdogFires
        <5> HIDE DEF t
        <5>3. /\ r \in JobRecord
              /\ r.st = job[j].st /\ r.inUse = job[j].inUse /\ r.client = job[j].client
              /\ r.heard = job[j].heard /\ r.ok = job[j].ok
          BY <1>j, <5>1 DEF JobRecord
        <5> HIDE DEF r
        <5> QED BY <5>2, <5>3
      <4> QED BY <1>8, <4>1, <4>2
    <3> QED BY <3>1 DEF Types
  <2>2. UNCHANGED <<link, pending, md, caller, ack>> BY <1>8 DEF GetsStale, WatchdogFires
  <2>3. Types' BY <2>1, <2>2 DEF Types
  <2>4. Orphans' \subseteq Orphans BY <2>1 DEF Orphans, Runs
  <2>5. OrphansCounted' BY <2>2, <2>4, NoNewOrphan DEF OrphansCounted
  <2> QED BY <2>1, <2>2, <2>3, <2>5
          DEF ForClients, FlagsAreFresh, PassMeansAnswer, OneInFlight, Runs, Listens
<1> QED BY <1>1, <1>2, <1>3, <1>4, <1>5, <1>6, <1>7, <1>8, <1>9 DEF Worker

\* _submit_metadata_probe() and the watchdog that replaces the executor.
LEMMA ProbeInvSubmission ==
    ASSUME ProbeInv,
           \/ \E j \in Jobs : WatchdogResets(j)
           \/ \E c \in Callers : Submission(c)
    PROVE  ProbeInv'
<1> USE DEF ProbeInv, link
<1>c. \A c \in Callers : caller[c] \in CallRecord BY DEF Types
<1>r. ASSUME NEW c \in Callers, NEW r \in CallRecord, caller' = [caller EXCEPT ![c] = r],
             r.pc \in {"check", "stale", "submit"} => r.client # None,
             UNCHANGED <<link, pending>>, ack' = ack
      PROVE  /\ caller' \in [Callers -> CallRecord]
             /\ \A d \in Callers : caller'[d].pc \in {"check", "stale", "submit"} =>
                   caller'[d].client # None
  BY <1>r DEF Types, ForClients
<1>0. ASSUME NEW c \in Callers, NEW r \in CallRecord, caller' = [caller EXCEPT ![c] = r],
             r.pc \in {"check", "stale", "submit"} => r.client # None,
             UNCHANGED <<link, pending, md, job, ack>>
      PROVE  ProbeInv'
  <2>1. caller' \in [Callers -> CallRecord] BY <1>0, <1>r
  <2>2. Types' BY <1>0, <2>1 DEF Types
  <2>3. Orphans' \subseteq Orphans BY <1>0 DEF Orphans, Runs
  <2>4. OrphansCounted' BY <1>0, <2>3, NoNewOrphan DEF OrphansCounted
  <2>5. ForClients' BY <1>0, <1>r DEF ForClients, Runs, link
  <2> QED BY <1>0, <2>2, <2>4, <2>5 DEF FlagsAreFresh, PassMeansAnswer, OneInFlight, Runs, Listens
<1>1. ASSUME NEW j \in Jobs, WatchdogResets(j) PROVE ProbeInv'
  <2>1. /\ job' \in [Jobs -> JobRecord]
        /\ \A k \in Jobs : /\ job'[k].st = ResetJobs[k].st /\ job'[k].inUse = ResetJobs[k].inUse
                            /\ job'[k].client = ResetJobs[k].client
                            /\ job'[k].heard = ResetJobs[k].heard /\ job'[k].ok = ResetJobs[k].ok
    <3>1. ResetJobs \in [Jobs -> JobRecord] BY ResetEffect
    <3> QED BY <1>1, <3>1 DEF WatchdogResets, JobRecord
  <2>2. md' = Reset(md) /\ UNCHANGED <<link, pending, caller, ack>> BY <1>1 DEF WatchdogResets
  <2>3. Types' BY <2>1, <2>2, ResetEffect DEF Types
  <2> QED BY <2>1, <2>2, <2>3, ResetKeeps DEF ForClients
<1>2. ASSUME NEW c \in Callers, Check(c) PROVE ProbeInv'
  <2>1. PICK r \in {[caller[c] EXCEPT !.pc = "submit"], [caller[c] EXCEPT !.pc = "stale"],
                    Over(caller[c])} : caller' = [caller EXCEPT ![c] = r]
    BY <1>2 DEF Check
  <2>2. r \in CallRecord /\ (r.pc \in {"check", "stale", "submit"} => r.client # None)
    BY <1>2, <1>c, <2>1, Ids DEF Check, ForClients, CallRecord, Over, Idle
  <2> QED BY <1>0, <1>2, <2>1, <2>2 DEF Check
<1>3. ASSUME NEW c \in Callers, ReplaceStale(c) PROVE ProbeInv'
  <2> DEFINE r == [caller[c] EXCEPT !.pc = "submit"]
  <2>1. /\ md' = Reset(md) /\ job' = ResetJobs /\ UNCHANGED <<link, pending, ack>>
        /\ caller' = [caller EXCEPT ![c] = r]
    BY <1>3 DEF ReplaceStale
  <2>2. r \in CallRecord /\ r.client # None
    BY <1>3, <1>c DEF ReplaceStale, ForClients, CallRecord
  <2> HIDE DEF r
  <2>3. job' \in [Jobs -> JobRecord] BY <2>1, ResetEffect
  <2>4. Types' BY <2>1, <2>2, <2>3, <1>r, ResetEffect DEF Types
  <2> QED BY <2>1, <2>2, <2>3, <2>4, <1>r, ResetKeeps DEF ForClients
<1>4. ASSUME NEW c \in Callers, Submit(c) PROVE ProbeInv'
  <2>0. UNCHANGED <<link, pending, ack>> /\ caller[c].client # None
    BY <1>4 DEF Submit, ForClients
  <2>o. /\ Over(caller[c]) \in CallRecord /\ Over(caller[c]).pc = "idle"
        /\ [caller[c] EXCEPT !.pc = "lost"] \in CallRecord
        /\ [caller[c] EXCEPT !.pc = "lost"].pc = "lost"
    BY <1>c, Ids DEF CallRecord, Over, Idle
  <2>1. CASE UNCHANGED <<md, job>> /\ \/ caller' = [caller EXCEPT ![c] = Over(@)]
                                      \/ caller' = [caller EXCEPT ![c] = [@ EXCEPT !.pc = "lost"]]
    BY <1>0, <2>0, <2>o, <2>1
  <2>2. ASSUME ~md.degraded, ~SlotBusy, NEW j \in Jobs, job[j].st = "none", Submitted(c, j)
        PROVE  ProbeInv'
    <3> DEFINE new == [NoJob EXCEPT !.st = "queued", !.kind = caller[c].kind, !.inUse = TRUE,
                                    !.client = caller[c].client, !.timer = "armed"]
               r == IF c = "timer" THEN Idle ELSE [caller[c] EXCEPT !.pc = "wait", !.job = j]
    <3>1. job' = [job EXCEPT ![j] = new] /\ md' = [md EXCEPT !.slot = j]
          /\ caller' = [caller EXCEPT ![c] = r]
      BY <2>2 DEF Submitted
    <3>2. /\ new \in JobRecord /\ new.st = "queued" /\ new.inUse
          /\ new.client = caller[c].client /\ ~new.heard
      BY <1>c, Ids DEF NoJob, JobRecord, CallRecord
    <3>3. r \in CallRecord /\ r.pc \in {"idle", "wait"}
      BY <1>c, Ids DEF Idle, CallRecord
    <3> HIDE DEF new, r
    <3>4. /\ md' \in [slot : JobIds, orphans : Counts, degraded : BOOLEAN]
          /\ md'.slot = j /\ md'.orphans = md.orphans /\ md'.degraded = md.degraded
      BY <3>1, Ids DEF Types
    <3>5. job' \in [Jobs -> JobRecord] /\ job'[j] = new /\ \A k \in Jobs \ {j} : job'[k] = job[k]
      BY <3>1, <3>2 DEF Types
    <3>6. Types' BY <2>0, <3>1, <3>3, <3>4, <3>5, <1>r DEF Types
    <3>7. Orphans' \subseteq Orphans BY <3>2, <3>5 DEF Orphans, Runs
    <3>8. OrphansCounted' BY <2>2, <3>4, <3>7, NoNewOrphan DEF OrphansCounted
    <3>9. \A k \in Jobs : job[k].inUse => ~Runs(k) /\ job[k].st # "queued"
      BY <2>2, Ids DEF SlotBusy, OneInFlight, Done, Runs
    <3>10. ForClients' BY <2>0, <3>1, <3>2, <3>3, <3>5, <1>r DEF ForClients, Runs
    <3>11. FlagsAreFresh' /\ PassMeansAnswer'
      BY <2>0, <3>2, <3>5 DEF FlagsAreFresh, PassMeansAnswer, Listens
    <3>12. OneInFlight' BY <3>2, <3>4, <3>5, <3>9 DEF OneInFlight, Runs
    <3> QED BY <3>6, <3>8, <3>10, <3>11, <3>12
  <2>3. CASE md' = Reset(md) /\ job' = ResetJobs /\ caller' = [caller EXCEPT ![c] = Over(@)]
    <3>1. job' \in [Jobs -> JobRecord] BY <2>3, ResetEffect
    <3>2. Types' BY <2>0, <2>o, <2>3, <3>1, <1>r, ResetEffect DEF Types
    <3> QED BY <2>0, <2>o, <2>3, <3>1, <3>2, <1>r, ResetKeeps DEF ForClients
  <2> QED BY <1>4, <2>1, <2>2, <2>3 DEF Submit
<1> QED BY <1>1, <1>2, <1>3, <1>4 DEF Submission

\* check_connection(), connect_meshtastic() and the delayed probe.
LEMMA ProbeInvCallers ==
    ASSUME ProbeInv,
           \/ HealthCheck \/ HealthResult \/ HealthLost \/ LinkLost
           \/ Connect \/ Connector \/ DelayedProbe
    PROVE  ProbeInv'
<1> USE DEF ProbeInv, link
<1>c. \A c \in Callers : caller[c] \in CallRecord BY DEF Types
<1>d. {"health", "connect", "timer"} = Callers BY DEF Callers
<1>0. ASSUME UNCHANGED <<md, job, ack>>, caller' \in [Callers -> CallRecord],
             client' \in ClientIds, clients' \in ClientIds, pending' \in ClientIds,
             reconnecting' \in BOOLEAN, connecting' \in BOOLEAN,
             connecting' => client' # None,
             \A c \in Callers : caller'[c].pc \in {"check", "stale", "submit"} =>
                 caller'[c].client # None
      PROVE  ProbeInv'
  <2>1. Types' BY <1>0 DEF Types
  <2>2. Orphans' \subseteq Orphans BY <1>0 DEF Orphans, Runs
  <2>3. OrphansCounted' BY <1>0, <2>2, NoNewOrphan DEF OrphansCounted
  <2> QED BY <1>0, <2>1, <2>3 DEF ForClients, FlagsAreFresh, PassMeansAnswer, OneInFlight, Runs, Listens
<1>l. ASSUME NEW c, Lost(c), ~connecting, UNCHANGED <<md, ack>>, caller' \in [Callers -> CallRecord],
             \A d \in Callers : caller'[d].pc \in {"check", "stale", "submit"} =>
                 caller'[d].client # None
      PROVE  ProbeInv'
  <2>1. \A k \in Jobs : /\ job'[k] \in JobRecord /\ job'[k].st = job[k].st
                        /\ job'[k].inUse = job[k].inUse /\ job'[k].client = job[k].client
                        /\ job'[k].heard = job[k].heard /\ job'[k].ok = job[k].ok
    <3>1. CASE job' = job BY <3>1 DEF Types
    <3>2. CASE job' = [k \in Jobs |-> [job[k] EXCEPT !.asked = FALSE]]
      <4> TAKE k \in Jobs
      <4>1. job[k] \in JobRecord BY DEF Types
      <4>2. job'[k] = [job[k] EXCEPT !.asked = FALSE] BY <3>2
      <4> QED BY <4>1, <4>2 DEF JobRecord
    <3> QED BY <1>l, <3>1, <3>2 DEF Lost
  <2>2. job' \in [Jobs -> JobRecord] BY <1>l, <2>1 DEF Lost, Types
  <2>3. Types' BY <1>l, <2>2, Ids DEF Types, Lost
  <2>4. Orphans' \subseteq Orphans BY <2>1 DEF Orphans, Runs
  <2>5. OrphansCounted' BY <1>l, <2>4, NoNewOrphan DEF OrphansCounted
  <2>6. ~connecting' BY <1>l DEF Lost
  <2> QED BY <1>l, <2>1, <2>3, <2>5, <2>6
          DEF ForClients, FlagsAreFresh, PassMeansAnswer, OneInFlight, Runs, Listens
<1>k. /\ Idle \in CallRecord /\ Idle.pc = "idle"
      /\ \A w \in CallRecord : Over(w) \in CallRecord /\ Over(w).pc = "idle"
      /\ \A kind \in {"probe", "metadata"}, cl \in ClientIds :
            Call(kind, cl) \in CallRecord /\ Call(kind, cl).client = cl
      /\ \A w \in CallRecord : [w EXCEPT !.pc = "lost"] \in CallRecord
                               /\ [w EXCEPT !.pc = "lost"].pc = "lost"
  BY Ids DEF Idle, CallRecord, Over, Call
<1>1. CASE HealthCheck
  BY <1>1, <1>0, <1>k, <1>d DEF HealthCheck, Types, ForClients
<1>2. CASE HealthResult
  BY <1>2, <1>0, <1>k, <1>d, <1>c DEF HealthResult, Types, ForClients
<1>3. CASE HealthLost
  <2>1. /\ caller' \in [Callers -> CallRecord]
        /\ \A d \in Callers : caller'[d].pc \in {"check", "stale", "submit"} =>
               caller'[d].client # None
    BY <1>3, <1>k, <1>d DEF HealthLost, Types, ForClients
  <2> QED BY <1>3, <1>l, <2>1 DEF HealthLost
<1>4. CASE LinkLost
  BY <1>4, <1>l DEF LinkLost, Types, ForClients
<1>5. CASE Connect
  <2>1. clients + 1 \in ClientIds /\ clients + 1 # None
    BY <1>5, ProbeAssumption DEF Connect, Types, None, ClientIds
  <2> QED BY <1>5, <1>0, <1>k, <1>d, <2>1 DEF Connect, Types, ForClients
<1>6. CASE Connector
  <2>1. CASE CachedMetadata \/ MetadataResult
    BY <2>1, <1>0, <1>k, <1>d, <1>c DEF CachedMetadata, MetadataResult, Types, ForClients
  <2>2. CASE SetUp
    <3>1. client # None /\ client \in ClientIds /\ UNCHANGED <<clients, client>>
      BY <2>2 DEF SetUp, ForClients, Types
    <3>2. /\ caller' \in [Callers -> CallRecord]
          /\ \A c \in Callers : caller'[c].pc \in {"check", "stale", "submit"} =>
                caller'[c].client # None
      <4>1. PICK r \in CallRecord :
               caller' = [caller EXCEPT !["connect"] = r] /\ (r.pc = "idle" \/ r.client # None)
        <5>1. Call("probe", client) \in CallRecord /\ Call("probe", client).client = client
          BY <1>k, <3>1
        <5>2. \/ caller' = [caller EXCEPT !["connect"] = Call("probe", client)]
              \/ caller' = [caller EXCEPT !["connect"] = Idle]
          BY <2>2 DEF SetUp
        <5> QED BY <1>k, <3>1, <5>1, <5>2
      <4>2. "connect" \in Callers BY <1>d
      <4>3. caller \in [Callers -> CallRecord] BY DEF Types
      <4>4. \A c \in Callers : caller'[c] = IF c = "connect" THEN r ELSE caller[c]
        BY <4>1, <4>2, <4>3
      <4>5. caller' \in [Callers -> CallRecord] BY <4>1, <4>3
      <4> QED BY <4>1, <4>4, <4>5 DEF ForClients
    <3> QED BY <2>2, <1>0, <3>1, <3>2 DEF SetUp, Types
  <2>3. CASE SetUpDone
    BY <2>3, <1>0, <1>k, <1>d, <1>c DEF SetUpDone, Types, ForClients
  <2> QED BY <1>6, <2>1, <2>2, <2>3 DEF Connector
<1>7. CASE DelayedProbe
  <2>1. None \in ClientIds BY Ids
  <2> QED BY <1>7, <1>0, <1>k, <1>d, <2>1 DEF DelayedProbe, Types, ForClients
<1> QED BY <1>1, <1>2, <1>3, <1>4, <1>5, <1>6, <1>7

\* Every step keeps the invariant.
LEMMA ProbeInvNext == ProbeInv /\ [Next]_vars => ProbeInv'
<1> SUFFICES ASSUME ProbeInv, [Next]_vars PROVE ProbeInv' OBVIOUS
<1>1. CASE UNCHANGED vars
  <2>1. Types' BY <1>1 DEF ProbeInv, Types, vars, link
  <2>2. Orphans' \subseteq Orphans BY <1>1 DEF Orphans, Runs, vars
  <2>3. OrphansCounted' BY <1>1, <2>2, NoNewOrphan DEF ProbeInv, OrphansCounted, vars
  <2> QED BY <1>1, <2>1, <2>3
          DEF ProbeInv, ForClients, FlagsAreFresh, PassMeansAnswer, OneInFlight, Runs, Listens, vars, link
<1>2. CASE Next
  BY <1>2, ProbeInvJobs, ProbeInvSubmission, ProbeInvCallers DEF Next, Watchdog
<1> QED BY <1>1, <1>2

\* The jobs that run are the orphans and the one in the place.
LEMMA ProbeInvContains == ProbeInv => HungProbesContained
<1> SUFFICES ASSUME ProbeInv PROVE HungProbesContained OBVIOUS
<1> USE DEF ProbeInv
<1> DEFINE Running == {j \in Jobs : Runs(j)}
<1>1. NoQueueing
  BY DEF NoQueueing, OneInFlight, Runs
<1>2. Orphans \in SUBSET Jobs /\ Running \in SUBSET Jobs BY DEF Orphans
<1>3. /\ IsFiniteSet(Orphans) /\ Cardinality(Orphans) \in Nat /\ Cardinality(Running) \in Nat
      /\ md.orphans \in Counts
  BY <1>2, OrphansFinite DEF Types
<1>4. CASE md.degraded
  <2>1. Running \subseteq Orphans
    BY <1>4, Ids DEF Orphans, OneInFlight, OrphansCounted
  <2>2. Cardinality(Running) <= Cardinality(Orphans) BY <1>3, <2>1, FS_Subset
  <2> QED BY <1>1, <1>3, <2>2, ProbeAssumption DEF HungProbesContained, WorkersBounded, OrphansCounted, Counts
<1>5. CASE ~md.degraded
  <2>1. Running \subseteq Orphans \cup {md.slot} BY DEF Orphans, OneInFlight
  <2>2. /\ IsFiniteSet(Orphans \cup {md.slot})
        /\ Cardinality(Orphans \cup {md.slot}) \in Nat
        /\ Cardinality(Orphans \cup {md.slot}) <= Cardinality(Orphans) + 1
    BY <1>3, PlusOne
  <2>3. Cardinality(Running) <= Cardinality(Orphans) + 1
    BY <1>3, <2>1, <2>2, FS_Subset
  <2> QED BY <1>1, <1>3, <1>5, <2>3, ProbeAssumption
          DEF HungProbesContained, WorkersBounded, OrphansCounted, Counts
<1> QED BY <1>4, <1>5

\* Probes that hang cost at most EXECUTOR_ORPHAN_THRESHOLD threads and hold up no later
\* probe (_submit_metadata_probe(), _reset_metadata_executor_for_stale_probe()).
THEOREM ProbesContained == Spec => []HungProbesContained
BY ProbeInvInit, ProbeInvNext, ProbeInvContains, PTL DEF Spec

\* A probe passes only on an answer that arrived after it had reset the flags of its
\* client, whatever other probes and late answers do (_probe_device_connection()).
THEOREM AnswersAreFresh == Spec => []PassMeansAnswer
<1>1. ProbeInv => PassMeansAnswer BY DEF ProbeInv
<1> QED BY ProbeInvInit, ProbeInvNext, <1>1, PTL DEF Spec
=============================================================================
