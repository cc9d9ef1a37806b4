----------------------------- MODULE WriteRRDs -----------------------------
(***************************************************************************)
(* The TBB tasks that write the posted minutes to the RRD files.  A task   *)
(* owns a copy of its batch; what tasks share is the files.  TBB's own     *)
(* queue is external: enqueued tasks start in FIFO order, each on some     *)
(* worker thread, and two of them may run at the same time.  librrd may    *)
(* fail any call (a full disk, a lock on the file): nothing is written,    *)
(* the code logs the status and goes on.                                   *)
(***************************************************************************)
EXTENDS RRDFile, SequencesExt

CONSTANTS
  Ip,           \* the devices
  IpOrder,      \* the devices in the order of a std::map's keys
  Aggregation,  \* the file aggregation.rrd; a device's file has its address
  Workers,      \* the worker threads of TBB
  PerSecond,    \* divisor of the aggregated values (60)
  MaxFailures   \* bound of the model on the failed calls of librrd

VARIABLES
  queue,    \* batches enqueued and not yet started
  files,    \* the rrd/ directory
  task,     \* what each worker is doing
  failures  \* calls of librrd that failed

vars == <<queue, files, task, failures>>

Idle == [step |-> "idle", batch |-> << >>, ips |-> << >>]

Init ==
  /\ queue = << >>
  /\ files = [f \in Ip \cup {Aggregation} |-> Absent]
  /\ task = [w \in Workers |-> Idle]
  /\ failures = 0
-----------------------------------------------------------------------------
(* Slip: a device with nothing to write is in the batch all the same.      *)
AllIps(batch) == IpOrder

IpsOf(batch) ==
  FoldLeft(LAMBDA ips, ip : IF DOMAIN batch.received[ip] = {} THEN ips
                            ELSE Append(ips, ip),
           << >>, IpOrder)

(* Slip: the two data sources exchanged.                                   *)
IpValuesExchanged(batch, ip) ==
  [m \in DOMAIN batch.received[ip] |->
     [mep |-> batch.lost[ip][m], lost_mep |-> batch.received[ip][m]]]

IpValues(batch, ip) ==
  [m \in DOMAIN batch.received[ip] |->
     [mep |-> batch.received[ip][m], lost_mep |-> batch.lost[ip][m]]]

(* Slip: the rates of the devices added up, not their counts.              *)
AggregateRates(batch) ==
  LET With(m) == {ip \in Ip : m \in DOMAIN batch.received[ip]}
      Total(map, m) ==
        MapThenSumSet(LAMBDA ip : map[ip][m] \div PerSecond, With(m))
  IN  [m \in UNION {DOMAIN batch.received[ip] : ip \in Ip} |->
         [mep |-> Total(batch.received, m), lost_mep |-> Total(batch.lost, m)]]

(* Per minute, the devices' counts added up and divided down to a rate.    *)
AggregateValues(batch) ==
  LET With(m) == {ip \in Ip : m \in DOMAIN batch.received[ip]}
      Total(map, m) == MapThenSumSet(LAMBDA ip : map[ip][m], With(m))
  IN  [m \in UNION {DOMAIN batch.received[ip] : ip \in Ip} |->
         [mep      |-> Total(batch.received, m) \div PerSecond,
          lost_mep |-> Total(batch.lost, m) \div PerSecond]]

(* The task's next step once the devices in ips remain to be written.      *)
Continue(w, ips) ==
  task' = [task EXCEPT ![w] = IF ips = << >> THEN Idle
                              ELSE [@ EXCEPT !.step = "check", !.ips = ips]]

(* A call of librrd that would turn file f into result.                    *)
Write(f, result) ==
  \/ /\ files' = [files EXCEPT ![f] = result]
     /\ UNCHANGED failures
  \/ /\ failures < MaxFailures
     /\ failures' = failures + 1
     /\ UNCHANGED files

(* The constructor, on the capture thread, makes the aggregation file.     *)
CreateAggregation ==
  IF files[Aggregation].exists THEN UNCHANGED <<files, failures>>
  ELSE Write(Aggregation, Created)

Start(w) ==
  /\ task[w].step = "idle"
  /\ queue # << >>
  /\ queue' = Tail(queue)
  /\ task' = [task EXCEPT ![w] = [step  |-> "aggregate",
                                  batch |-> Head(queue),
                                  ips   |-> IpsOf(Head(queue))]]
  /\ UNCHANGED <<files, failures>>

UpdateAggregateRRD(w) ==
  /\ task[w].step = "aggregate"
  /\ Write(Aggregation,
           Updated(files[Aggregation], AggregateValues(task[w].batch)))
  /\ Continue(w, task[w].ips)
  /\ UNCHANGED queue

(* Slip: the file is created whether it exists or not.                     *)
CheckNoFile(w) ==
  /\ task[w].step = "check"
  /\ task' = [task EXCEPT ![w].step = "create"]
  /\ UNCHANGED <<queue, files, failures>>

(* updateIPSpecificRRDs takes three steps for each device: does its file   *)
(* exist, create it if not, update it.                                     *)
CheckFile(w) ==
  /\ task[w].step = "check"
  /\ task' = [task EXCEPT ![w].step =
       IF files[Head(task[w].ips)].exists THEN "update" ELSE "create"]
  /\ UNCHANGED <<queue, files, failures>>

CreateRRD(w) ==
  /\ task[w].step = "create"
  /\ Write(Head(task[w].ips), Created)
  /\ task' = [task EXCEPT ![w].step = "update"]
  /\ UNCHANGED queue

(* Slip: the task ends after the first device.                             *)
UpdateOneRRD(w) ==
  LET ip == Head(task[w].ips)
  IN  /\ task[w].step = "update"
      /\ Write(ip, Updated(files[ip], IpValues(task[w].batch, ip)))
      /\ Continue(w, << >>)
      /\ UNCHANGED queue

(* Slip: an update that was refused is tried again.                        *)
UpdateRRDAgain(w) ==
  LET ip == Head(task[w].ips)
      values == IpValues(task[w].batch, ip)
  IN  /\ task[w].step = "update"
      /\ Write(ip, Updated(files[ip], values))
      /\ Continue(w, IF Accepts(files[ip], values) THEN Tail(task[w].ips)
                     ELSE task[w].ips)
      /\ UNCHANGED queue

UpdateRRD(w) ==
  LET ip == Head(task[w].ips)
  IN  /\ task[w].step = "update"
      /\ Write(ip, Updated(files[ip], IpValues(task[w].batch, ip)))
      /\ Continue(w, Tail(task[w].ips))
      /\ UNCHANGED queue

Work(w) ==
  \/ Start(w)
  \/ UpdateAggregateRRD(w)
  \/ CheckFile(w)
  \/ CreateRRD(w)
  \/ UpdateRRD(w)
=============================================================================
