------------------------------- MODULE Poller -------------------------------
(***************************************************************************)
(* The poller as it runs: the capture thread of MEPRRD_Dispatcher, the     *)
(* TBB workers of WriteRRDs, and the files that outlive both.  How many    *)
(* workers TBB runs depends on the machine and is settled at the start.    *)
(***************************************************************************)
EXTENDS MEPRRD_Dispatcher, FiniteSets

CONSTANTS
  IpOrder, Aggregation, Workers, PerSecond, MaxFailures,
  Pools    \* the sets of workers TBB may run

ASSUME PollerAssumption ==
  /\ IpOrder \in Seq(Ip)
  /\ \A ip \in Ip : \E i \in DOMAIN IpOrder : IpOrder[i] = ip
  /\ \A i, j \in DOMAIN IpOrder : IpOrder[i] = IpOrder[j] => i = j
  /\ Aggregation \notin Ip
  /\ PerSecond \in Nat \ {0}
  /\ MaxFailures \in Nat
  /\ IsFiniteSet(Workers) /\ Pools \subseteq SUBSET Workers

VARIABLES
  files, task, failures,
  pool    \* the workers TBB runs

W == INSTANCE WriteRRDs

pollerVars == <<vars, files, task, failures, pool>>

PollerInit == Init /\ W!Init /\ pool \in Pools

(* The constructor of the task runs before its enqueueing.                 *)
Posting ==
  /\ EnqueueWriteRRDs
  /\ W!CreateAggregation
  /\ UNCHANGED <<task, pool>>

Capturing ==
  /\ \/ \E ip \in Ip, seqno \in Seqnos : DispatchPacket(ip, seqno)
     \/ SkipPosting
     \/ RemoveOldieUpdates
     \/ Tick
     \/ SetClockBack
  /\ UNCHANGED <<files, task, failures, pool>>

Writing(w) ==
  /\ w \in pool
  /\ W!Work(w)
  /\ UNCHANGED <<threadVars, mapVars, clockVars, restarts, count, posted,
                 watermark, pool>>

(* The tasks die with the process, wherever they are; the files stay.      *)
CrashAndRestart ==
  /\ Restart
  /\ task' = [w \in Workers |-> W!Idle]
  /\ UNCHANGED <<files, failures, pool>>

PollerNext ==
  \/ Posting
  \/ Capturing
  \/ \E w \in Workers : Writing(w)
  \/ CrashAndRestart

PollerSpec == PollerInit /\ [][PollerNext]_pollerVars

(* TBB runs every enqueued task eventually, and a task never waits.        *)
FairPollerSpec ==
  PollerSpec /\ \A w \in Workers : WF_pollerVars(Writing(w))
-----------------------------------------------------------------------------
Stored(f, m) == m \in DOMAIN files[f].data

(* Minutes of a device that a task has yet to write to the device's file.  *)
PendingForIp(ip, m) ==
  \/ \E i \in DOMAIN queue : m \in DOMAIN queue[i].received[ip]
  \/ \E w \in Workers :
       /\ \E i \in DOMAIN task[w].ips : task[w].ips[i] = ip
       /\ m \in DOMAIN task[w].batch.received[ip]

PendingForAggregation(m) ==
  \/ \E i \in DOMAIN queue, ip \in Ip : m \in DOMAIN queue[i].received[ip]
  \/ \E w \in Workers :
       /\ task[w].step = "aggregate"
       /\ \E ip \in Ip : m \in DOMAIN task[w].batch.received[ip]

(* "Remove the updated bits": a minute that left the maps is in both of    *)
(* its files, or in a task that has yet to write it there.                 *)
RemovedIsUpdated ==
  \A ip \in Ip, m \in Minute :
    posted[ip][m] > 0 =>
      /\ Stored(ip, m) \/ PendingForIp(ip, m)
      /\ Stored(Aggregation, m) \/ PendingForAggregation(m)

(* With one worker and as long as no call of librrd fails nothing posted   *)
(* is lost, and if the process does not die either.                        *)
RemovedIsUpdatedByOne ==
  Cardinality(pool) = 1 /\ failures = 0 /\ restarts = 0 => RemovedIsUpdated

(* Whatever a device's file holds for a minute is the final count of that  *)
(* minute: no task writes a partial one, not even around a restart.        *)
StoredIsFinal ==
  \A ip \in Ip : \A m \in DOMAIN files[ip].data :
    files[ip].data[m].mep = posted[ip][m]

(* The aggregation file holds, for each minute, the rate of all devices    *)
(* together: no device's share of a minute comes in a later task.          *)
AggregateIsComplete ==
  \A m \in DOMAIN files[Aggregation].data :
    files[Aggregation].data[m].mep =
      SumFunction([ip \in Ip |-> posted[ip][m]]) \div PerSecond

(* The bound on the losses of a minute holds in the files too, where the   *)
(* two data sources could have been exchanged.                             *)
StoredLossBounded ==
  \A ip \in Ip : \A m \in DOMAIN files[ip].data :
    files[ip].data[m].lost_mep <=
      (OutlierGap - 1) * (files[ip].data[m].mep - 1)

(* With a single worker librrd has no reason to refuse an update, also     *)
(* after a restart, when the files are older than the process: what is     *)
(* posted is always later than what the file has.                          *)
NoUpdateRefused ==
  \A w \in Workers :
    /\ task[w].step = "update" =>
         LET ip == Head(task[w].ips)
         IN  W!Accepts(files[ip], W!IpValues(task[w].batch, ip))
    /\ task[w].step = "aggregate" =>
         W!Accepts(files[Aggregation], W!AggregateValues(task[w].batch))

(* A stored minute is never lost or changed: no update overwrites it and   *)
(* no creation replaces a file that has values.                            *)
HistoryKept ==
  [][\A f \in Ip \cup {Aggregation} : \A m \in DOMAIN files[f].data :
       /\ m \in DOMAIN files'[f].data
       /\ files'[f].data[m] = files[f].data[m]]_files

(* A device's file is an archive of its posted minutes.                    *)
Archive == INSTANCE MinuteArchive WITH
  stored <- [ip \in Ip |->
               [m \in DOMAIN files[ip].data |-> files[ip].data[m].mep]]

(* With one worker a device's file only ever grows at its end, by minutes  *)
(* whose count is final, in the order in which they were posted, also when *)
(* the process dies between any two steps and the files outlive it.        *)
ImplementsArchive == Archive!Spec

(* The workers run dry again and again: every posted minute is written, or *)
(* refused, in the end, whatever the other worker does to the files and    *)
(* whichever call fails.  With RemovedIsUpdatedByOne: a posted minute      *)
(* reaches both of its files.                                              *)
TasksDrain ==
  []<>(queue = << >> /\ \A w \in Workers : task[w] = W!Idle)
=============================================================================
