# netfpga-polling, specified

A TLA+ development beside the two programs of this repository: `poller`, which
captures the MEP requests that NetFPGA devices receive and keeps statistics of
them, and `mep_gen`, which generates test traffic.  The modules are translated
from the source; line numbers below are those of `src/poller/` unless another
directory is named.

## The system

| Part | State | Operations | Hard because |
|---|---|---|---|
| `PacketCapture`, `GenericPacket`, `MEPPacket`, `UDPPacket`, `TCPPacket` | `dispatch_queue`, `count`, and for each processor a copy of the frame | `addDispatcher`; `capture` for each frame: copy, parse, dispatch, free | one processor object lives through all frames and its pointers dangle between them; dispatchers delete their copies at once, later, or never; one class makes no copy; no field but protocol and sizes is looked at |
| `main` of the poller | the pcap handle, the compiled filter | options, open, compile, register, loop, clean up | a filter that is compiled and not set |
| `MEPRRD_Dispatcher` | `received_meps`, `lost_meps` (device, minute), `last_seqnos`, `_starting_time`, `_max_update_time` | `dispatchPacket`, `updateDataSets`, `removeOldieUpdates` | two readings of the clock in one dispatch, a posting timer against a threshold, wrapping sequence numbers, an erased iterator that is advanced |
| `WriteRRDs` | a copy of the posted minutes; the files of `rrd/` | constructor (capture thread), `execute` (TBB worker) | tasks run later and possibly at the same time, over files that outlive the process; failures are only logged |
| `MEPSQL_Dispatcher` | `_packet_buffer`, `_last_seqno` (not initialised), `_current_id`, a table | `dispatchPacket`, `updateDataSets`, `updateSQL` | reordering, numbers compared now signed and now unsigned, two flushes looking at the same packets |
| `MEPSQL_QuickDispatcher` | `seqnos`, `_current_id`, a table | `dispatchPacket`, `updateSQL` | wrap-around, ids that start over |
| `UDPRRD_Dispatcher` | `_packet_buffer`: seconds with counts | `dispatchPacket`, `updateRRD` | `end()` dereferenced, a clock that is set back |
| `UDP_test` | none | `dispatchPacket`: copy, delete, write | writes to what it has deleted |
| `mep_gen`: `main` | `mep_seqno`, `protocol`, the libnet context | options, prompts, send loop | a packet is built block by block in a context that survives failures; unchecked options and addresses |
| `mep_gen`: `ConnectionSetup` | four addresses in text and binary | setters, prompts | the binary forms depend on the order of the calls; prompts with a width |

How they interact: `main.cpp` registers one pair (a `MEPPacket`, a
`MEPRRD_Dispatcher`) and enters `pcap_loop`.  The callback runs on that one
thread and calls the dispatcher synchronously, so a packet is the only thing
that makes a dispatcher act: there is no timer.  Every ten minutes the
dispatcher enqueues a `WriteRRDs` task for a TBB worker and drops the posted
minutes from its maps.  The dispatcher and its tasks share no memory (the task
copies the maps in its constructor, on the capture thread); tasks share the
files.  The other dispatchers are alternatives, commented out or not named in
`main.cpp`.

What makes each part correct: a packet is counted once and posted once, its
minute is posted with its final count, what is removed from the maps reaches
the files (dispatcher and tasks); losses that are recorded happened, and those
that happened are recorded (all MEP dispatchers); every copy of a frame is freed
exactly once and untouched until then (capture); seconds are pushed once, in
order (UDP); packets are whole, go where was typed, and carry numbers that a
poller can count losses by (`mep_gen`).

## Modules

| Module | Models | Code |
|---|---|---|
| `CInt` | the `int` in two's complement, `HalfRange` = 2^31 in the program. Overflow of a signed sum, undefined in C++, is taken to wrap, as the compilers this was built with do for values read from memory | |
| `SeqnoGap` | the test for outliers and gaps | MEPRRD_Dispatcher.cpp:278-282 |
| `MinuteLedger` | abstract: packets counted per device and minute, every minute below a watermark posted with its count and closed | |
| `MEPRRD_Dispatcher` | the dispatcher; one action up to the posting test, then skip or enqueue and remove | MEPRRD_Dispatcher.cpp:180-287, 61-76 |
| `MEPRRD_DispatcherProofs` | theorems about the dispatcher, and about the losses on record when it is fed | |
| `MinuteArchive` | abstract: minutes posted in order, each device's archive growing at its end by posted minutes with their counts | |
| `RRDFile` | external: what `rrd_create_r` and `rrd_update_r` do to a file | |
| `WriteRRDs` | the tasks: one action for each call of `stat` or librrd | MEPRRD_Dispatcher.cpp:11-178 |
| `Poller` | composes the dispatcher, the workers and the files | |
| `PollerProofs` | theorems about the whole | |
| `MEPFeed` | composes the dispatcher with devices and a network that drops and delays | |
| `Frames` | what each packet class makes of a frame | mep_headers.cpp, udp_headers.cpp, tcp_headers.cpp |
| `PacketCapture` | the callback and the life of every copy of a frame | PacketCapture.cpp, GenericPacket.cpp |
| `PollerMain` | `main` around the callback; composes with `PacketCapture` | main.cpp |
| `PollerMainProofs` | theorems about the callback in `main` | |
| `MEPSQL_Dispatcher` | the row-per-loss dispatcher with its stream | MEPSQL_Dispatcher.cpp |
| `MEPSQL_DispatcherProofs` | theorems about its reports and rows | |
| `MEPSQL_QuickDispatcher` | the row-per-gap dispatcher with its stream | MEPSQL_QuickDispatcher.cpp |
| `MEPSQL_QuickDispatcherProofs` | theorems about its rows and gaps | |
| `UDPRRD_Dispatcher` | the per-second dispatcher | UDPRRD_Dispatcher.cpp |
| `UDPRRD_DispatcherProofs` | theorems about its list and its pushes | |
| `SeqnoStream` | abstract: the numbers of a source that skips at most one, and two more for each request that failed to leave it | |
| `MepGen` | the generator; one action for each block and each call that may fail | mep_gen/main.cpp |
| `ConnectionSetup` | the generator's addresses: the public calls as operators on the object's state and as the steps of `ConnSpec`; `MepGen` extends it and makes one of the calls | mep_gen/ConnectionSetup.cpp |
| `MepGenProofs` | theorems about the generator's numbers, packets and addresses | |
| `FoldLemmas` | what the folds of the community modules compute, over any finite set or sequence; no code | |
| `MC...` | instances for TLC: devices, orders, numbers, symmetry | |

Variables have the names of the fields without the underscore.  Variables that
no field holds are marked as history in each module; no guard reads them, but
for the clock's bound `high`.  Definitions under a comment that says "Slip" are
plausible mistakes in the definition that follows them.  No specification uses
them; each is there to show that one of the checked properties would notice it.

Choices worth knowing:

- **Time.** The dispatcher compares only minutes, so the clock of
  `MEPRRD_Dispatcher` counts minutes, from 1: a minute of epoch time is never 0,
  and `_starting_time` uses 0 for "none".  `Tick` may fire between the packet's
  clock reading (191) and that of the posting test (217), `SetClockBack` too.
- **removeOldieUpdates** erases an iterator and advances it (242-251), which is
  undefined.  Two outcomes are modelled: the loop removes what it should, or the
  process dies, which is `Restart` while `pc = "remove"`.
- **A restart** empties maps, timers and tasks and leaves the files.  `Restart`
  may fire in any state.
- **Write** in `WriteRRDs`: any call of librrd may fail (a full disk, a lock);
  the code logs it and goes on (96-99, 171-174).  `MaxFailures` bounds it.
- **end() dereferenced** in `UDPRRD_Dispatcher` (84-85): `end_is_older` is chosen
  at the start and never changes, one value for each kind of build.
- **TBB** decides how many workers there are: `pool` is chosen from `Pools` at
  the start.  `TakeTask` in `MEPRRD_Dispatcher` stands for any of them; `Poller`
  puts the task in its place.
- **A frame** is a record of the fields that decide what becomes of it, and every
  frame has all of them: the classes overlay their headers on the octets without
  a look at `ether_type`.
- **A TCPPacket's pointer** is never set.  Freeing it is a fault, after which the
  process ends or goes on; reading through it ends the process.
- **The terminal** of `mep_gen`: `cin.width` cuts a word, and its rest is the next
  word.  Texts are model values with the functions that libnet and the width
  define on them; what is binary is known by the text it was read from.
- **A block of libnet** either joins the context or ends the program; `Write` may
  fail, and the loop goes on with the next number.
- **_last_seqno** of `MEPSQL_Dispatcher` is never initialised: `InitialSeqnos` is
  the set of values it may have.

## Runs

`CHECK_DEADLOCK FALSE` is in every configuration because each model stops at its
named bounds (packets, minutes, restarts); the program has no blocking wait
besides `pcap_loop`.

| Run | What it shows |
|---|---|
| `poller_single` | one worker, which is what keeps tasks in order; two devices, seven minutes, four packets, a posting every two minutes, one crash anywhere, the clock set back and ticking inside a dispatch. Of the dispatcher: `CountedOnce` and its strengthening `MinutesClose`, `NoEmptyBatch` and its strengthening `MinuteAtHand`, `ImplementsLedger`. Of the files: `NoUpdateRefused`, `AggregateIsComplete`, `HistoryKept`, `ImplementsArchive`. Four packets are enough for two devices, two postings and a packet on either side of a cut. The aggregation divides by 2 instead of 60, so that four packets show a rounding |
| `poller_workers` | one or two workers, a failed call and a crash. `StoredIsFinal`, `StoredLossBounded`: minutes may be missing, none is wrong. `RemovedIsUpdatedByOne`: with one worker, no failure and no crash nothing posted is lost. `TasksDrain`, under `FairPollerSpec` |
| `poller_race` | violation of `RemovedIsUpdated` with two workers |
| `feed_losses` | one device (devices share nothing but the timer) with a 4-bit `int`, numbering from 0 or close to the wrap, up to three requests dropped in a row where three is an outlier, one request delayed at a time until up to two numbers have passed it. `LossBounded`, `LossIsReal`, `LossIsSeen` |
| `capture_memory` | four contents of `dispatch_queue`: what `main` registers, what its comments would add, and one for each other class; six kinds of frames; five buffers that the allocator reuses in any order; the keeping dispatcher flushes two packets at three. `TypeOK`, `NoFaults`, `NoLeak`, `KeptIntact`, `TakenIsWhole` |
| `unfiltered` | violation of `OnlyFilteredFrames` |
| `sql_reports` | nine packets, a buffer of five that drops two, three flushes, a wrap in the middle, seven values of `_last_seqno`, at most one packet delayed. For streams in order `ReportIsReal` and, up to the wrap, `ReportedOnce` and `UnreportedIsAtFlush`; `TypeOK` and `RowsAreFirstReports` for all, with ids that start over after four rows |
| `sql_out_of_order` | violation of `ReceivedIsNotReported` |
| `quick_gaps` | two destinations, a 3-bit `int`, ids that start over after three. `GapPerRow`, `RowsAreFirstInserts`, `TypeOK` |
| `udp_seconds` | both builds, clock set back by one second, eight packets, two pushes. `PacketsConserved` always; `BufferInOrder` and `PushedIsFinal` for the other build and a steady clock |
| `udp_front_insert` | violation of `SecondPushedOnce` |
| `generator` | 22 inputs (addresses, defaults, a MAC that is too short, one that is none, an overlong word, the end of the input), the two types and an unknown one, rates of 0, above a million and below zero, two writes in a row that fail. `WireWellFormed`, `DestinationIsTyped`, `SetParametersForgets` (after the one call that `main` makes), `ImplementsStream`, `TypeOK`. The numbers wrap around an `int` of 14 values, so the run is finite without a bound on the packets |

Assumptions and how sharp they are.  `ClockStepsBounded` (the clock is set back
by at most `ThresholdMinutes`) is needed for `CountedOnce` and
`ImplementsLedger`: with `ClockSlack` one more, TLC reopens a closed minute.
`DispatchIsPrompt` (a dispatch straddles at most `ThresholdMinutes` minute
boundaries; threshold and slack fit in a posting period) is needed for
`NoEmptyBatch`: with `MaxLag` 2 and a threshold of 1 TLC enqueues an empty task.
With the program's constants (10, 2) both say that the clock is never set back
by more than two minutes and a packet is dispatched within two.

`BufferIsNarrow` (the numbers in the buffer of `MEPSQL_Dispatcher` are less than
half the range of the int apart) is a hypothesis of `ReportIsReal`'s theorem.  The
program's twenty packets would have to be 2^31 apart; where they are, a difference
of two of them overflows and a gap is taken for the wrong one.

`LossIsReal` allows, for each request that comes late, the request itself, counted
when it is passed, and the numbers that passed it, `MaxOvertakes` at most: the
dispatcher goes back to the late number (282) and counts them again.  The run
fails with one less.

Fairness.  `FairPollerSpec` asks for weak fairness of each worker that TBB runs:
an enqueued task is started eventually, and a task waits for nothing, so the
steps of a started task stay enabled until it takes them.  No fairness is asked
of packets, of the clock or of the capture thread: a minute that is never posted
because no packet comes is the program's behaviour.  `TasksDrain` says that the
queue and the workers run empty again and again, whatever fails; with
`RemovedIsUpdatedByOne` a posted minute then is in both of its files.

## What the violations show

- `poller_race`: line 231, "Remove the updated bits", removes minutes that were
  only enqueued.  Two workers may write them in the wrong order, and librrd
  refuses the older ones; or both find the file missing and the second creation
  wipes the first task's update.  The run scales the posting period down to one
  minute; in the program it takes a task delayed by a whole period.
- `unfiltered`: the filter expression is printed (65) and compiled (81), but there
  is no call of `pcap_setfilter`.  Every frame of the interface is copied, parsed
  and freed; one of another protocol, or of a request's protocol and another size,
  prints a line, and one whose IP header is too short goes silently
  (mep_headers.cpp:60, 67, 23-26).  `TakenIsWhole` shows that
  no other frame reaches a dispatcher of requests except one whose octets at the
  places of an IPv4 header say so; `ether_type` is not looked at.
- `sql_out_of_order`: an overtaken request left in the buffer by a flush moves
  `prev_seqno` back in the next one (165), and a request that was received, in
  order, is inserted as lost.
- `udp_front_insert`: with a list that keeps its size in the sentinel (current
  libstdc++), new seconds are inserted at the front and the newest are pushed.

Also visible in properties that hold: `UnreportedIsAtFlush` says which losses
`MEPSQL_Dispatcher` never reports (those right before the number a flush stops
at, line 130), `ReportedOnce` that no loss is reported twice before the numbers wrap
(then each flush reports the gaps between the negative numbers in the buffer, which
lie below any `_last_seqno` that is not negative), and `GapPerRow` that `lost_no` is one more than the requests lost
(MEPSQL_QuickDispatcher.cpp:53-54; MEPRRD_Dispatcher.cpp:282 subtracts one).
`NoFaults` names the two classes that are no part of it: a `TCPPacket` has no copy
to free, and `UDP_test` writes to the one it deleted (UDP_test.cpp:13-15).
`DestinationIsTyped` holds for input within the widths of the prompts: an address
that is longer loses its end to the MAC (mep_gen/ConnectionSetup.cpp:74).  A MAC
that libnet cannot read is used all the same (mep_gen/main.cpp:184): no packet goes
out if nothing of it was read, and one goes out with octets from beyond the array if
fewer than six were, which is `whole` in the model.
`ReportIsReal` says of a `_last_seqno` that starts below the stream that the numbers
in between, `Phantoms`, are reported lost although nobody sent them, and that
these are the only reports of that kind.  `RowsAreFirstReports` and
`RowsAreFirstInserts` say that from a table that starts empty only the first cycle of ids makes
rows: all inserts after it are refused by the primary key
(MEPSQL_Dispatcher.cpp:158, MEPSQL_QuickDispatcher.cpp:77).
`TypeOK` of the generator bounds the pause by a second *either way*: option `-p` goes
through an unchecked `atoi` (mep_gen/main.cpp:46), a rate below zero makes the quotient
of line 100 negative, and `usleep` takes it as an unsigned number, more than an hour
between two packets.  `set_tx_ip` converts the receiver's text and not its own
(mep_gen/ConnectionSetup.cpp:37), whatever was called before; nothing in the repository
says what the sender's address is for, and the generator never sends it.

Met on the way, and no part of a property: the comments of mep_headers.h:22-23
describe each other's field; `mep_gen` sends UDP and ICMP, whose packets the
shipped poller does not take; the archive "per minute for one month"
(MEPRRD_Dispatcher.cpp:53) has the 10080 minutes of a week.

## Theorems

All for every value of the constants that satisfies the named assumptions.

`MEPRRD_DispatcherProofs`:

- `TypeCorrect`: `[]TypeOK`; inductive by itself.
- `PacketsCountedOnce` and `PostedMinutesClose`, under `ClockStepsBounded`:
  `[]CountedOnce`, `[]MinutesClose`.  `CountedOnce` alone is not inductive: nothing
  in it keeps a packet out of a minute already posted.  `MinutesClose` adds why:
  the watermark trails the latest time by `ThresholdMinutes`, the clock is behind
  the latest time by no more than `ClockSlack`, and `_starting_time` is not below
  the watermark, so the next cut, more than `RrdUpdateSize` after it less the
  threshold, is above it.  The conjunction with `TypeOK` is inductive.
- `DispatcherImplementsLedger`, under `ClockStepsBounded`: `Spec =>
  ImplementsLedger`, each action mapped to `Count`, `Post`, `Forget` or a stutter
  by the same invariant.
- `LossesBounded`: `[]LossBounded`, for any sequence of numbers.  It rests on a
  lemma about `LostBetween` that goes through the cases of the wrap.
- `NoBatchIsEmpty`, under `DispatchIsPrompt`: `[]NoEmptyBatch` and its
  strengthening `[]MinuteAtHand`: while the timer runs some minute in the maps is
  not later than it, and a posting keeps the minute of its packet.

`FoldLemmas`: `SumOfFunction`, `SumBounds`, `SumOneMore`, `SegmentSums`, `LeftFoldSteps` and
others.
The community modules' folds are a `CHOOSE` of a recursive function on subsets.
`SetInduction` gets from the well-founded minimum of a set of numbers what the
library's induction theorem, which takes an operator, would give: the induction
is over a set of numbers that is written down.  With it such a function is shown
to exist, to be a sum, and to be the same whichever element it takes first.

`PollerProofs`, for any number of workers, of failed calls and of crashes:

- `PollerImplementsDispatcher`: every step of the poller is a step of the
  dispatcher or none that it sees, so the theorems above hold in the whole;
  `PollerCountsOnce` says it of two of them.
- `PollerStoresFinalCounts` and `PollerStoresBoundedLosses`, under
  `ClockStepsBounded`: `[]StoredIsFinal` and `[]StoredLossBounded`.  The invariant
  `StoredInv` follows the values: every batch in the queue or in a worker's hands
  carries final counts and possible losses, and so does every device's file.  A
  posting adds such a batch, because its minutes were open and so never posted
  before (`CountedOnce`), and changes no count that was posted; an update merges a
  batch's values into a file.
- `PollerAggregatesAll`, under `ClockStepsBounded`: `[]AggregateIsComplete`.
  `AggregateInv` adds that a batch on its way to the aggregation file is whole: it
  has every device that was posted in its minutes, so that its fold over the
  devices is the sum of the posted counts, and no posting adds to those again.

and with one worker (`OneWorker`: every pool has at most one):

- `PollerKeepsHistory`: `[][HistoryKept]` whatever the clock does.  `FilesInv` says
  that no minute of a file is later than its last update, and that a worker about
  to create a file finds none: the step that fails with two workers, as
  `poller_race` shows.
- `PollerImplementsArchive`, under `ClockStepsBounded`: `PollerSpec =>
  ImplementsArchive`.  An accepted update is a `Store` of the archive by `FilesInv`, a
  posting a `Post` by `MinutesClose`, and every other step a stutter.
- `PollerUpdatesAreAccepted`, under `ClockStepsBounded` and `DispatchIsPrompt`:
  `[]NoUpdateRefused`; `PollerIsNeverRefused` says what follows when no call fails
  for a reason of its own (`MaxFailures = 0`).  `OrderInv`: the minutes of a task are
  later than those of every task before it and than the last update of every file.
  `ReadyInv`: the batch of a task has something to write, which is `NoEmptyBatch`,
  and its files are there when it comes to write them.
- `PollerUpdatesWhatItRemoves`, under the same assumptions:
  `[]RemovedIsUpdatedByOne`.

`MepGenProofs`:

- `GeneratorImplementsStream`: `Spec => ImplementsStream`.  `SeqnoInv` says how far
  the next number is ahead of the last one sent: two for each failed write and for
  the current draw; two draws in a row wrap around like their sum.  A failed write is
  a `Fail` of the stream, so what a `Send` may skip is tied to the writes that did fail.
- `GeneratorTypeCorrect`, `PacketsAreWellFormed`: `[]TypeOK`, for every rate an int can
  hold, and `[]WireWellFormed`.
  `PacketInv` ties the blocks in the context, and the number and type they carry, to
  the place in the loop; a round begins with none, however the last one ended, and
  what was typed does not change once a packet is sent.
- `PacketsGoWhereTyped`: `[]DestinationIsTyped`.  The lemmas about
  the setters say, member by member, what the prompts leave.
- `ParametersForget`: `ConnSpec => SetParametersForgets`, for any calls before and any
  texts, those with a "y" included, where the run has one call and eleven texts; and so
  in the generator.  It is about `set_parameters`, which calls the four
  setters in one order; of the setters alone it does not hold, since `set_tx_ip` leaves
  the address of whatever `rx_ip` was.  The lemmas about them compose to a record in
  which every member comes from the arguments (`ParametersSet`).

`MEPRRD_DispatcherProofs` on `MEPFeed`, for any number of devices, width of the int and
losses, where a number may be any int (`EveryInt`):

- `LossesAreSeen`, under `ClockStepsBounded`: `[]LossIsSeen`.  `InOrderInv` says of
  a device whose order is kept that `_last_seqnos` is the last number sent once a
  minute of it is in the maps, and that a minute that may still open has lost
  nothing; by `MinutesClose` a minute in a task is not added to.  `LossOfNext` goes
  through the wraps of the int.
- `LossesAreReal`: `[]LossIsReal`, whatever the clock does and with any number of
  requests delayed at a time, as long as none is overtaken by half the range of the
  int (`FeedAssumption`).  The bound is not inductive: a late packet sets the
  dispatcher back, and the packets after it count again.  `PaidInv` keeps an account:
  every delay is a credit of `MaxOvertakes + 1`, and what is not used up of it covers
  the numbers the dispatcher has still to look at (`Ahead`) and `MaxOvertakes` for
  each request on its way.  `LossOnTime` and `LossOfLate` say that no packet spends
  more than it may, around the int.

`PollerMainProofs`, for any heap, any frames and any pairs whose processors have one
class each (`MainAssumption`), any `KeptSize` and `DeleteSize`:

- `CaptureTypeCorrect`, `CopiesAreSound`, `FramesAreFreed`, `KeptPacketsStay`,
  `TakenFramesAreWhole`: the five invariants of `capture_memory`.  `CaptureInv` adds
  why: no two kept packets share a buffer, the processor's copy of the frame at hand
  is in none of theirs, and what is not free is one or the other; a `TCPPacket`'s
  pointers were never set.

`MEPSQL_DispatcherProofs`, for any buffer, any part of it that a flush drops, any width of
the int and any `InitialSeqnos`.  The lemmas say what the three loops of `updateSQL`
compute: `LastNumber` the greatest number as unsigned, `OrderedNumbers` the buffer's
numbers below it in order, `LostNumbers` the numbers in the gaps, each once.

- `SQLTypeCorrect`, `RowsAreReports`: `[]TypeOK` and `[]RowsAreFirstReports`, in whatever
  order the packets come: until the ids start over the next id is the next free one,
  and then there is none.
- `ReportsAreReal`, under `BufferIsNarrow`: `[]ReportIsReal`.  `ReportIsReal` alone says
  nothing of what the next flush may report.  `OrderedInv` does: the buffer is in
  order with no two neighbours further apart than the network drops and delays,
  and what arrived is in it or before it and not above `_last_seqno`; so a gap
  of the ordered buffer is one of the stream (`ReportLies`), also where the signed
  order of the numbers turns around.  `FromStart`: what is reported comes after what
  `_last_seqno` started as, or is one of the sender's numbers.
- `NothingReportedTwice`: `[]ReportedOnce`.  `OnceInv`: what was reported is below
  `_last_seqno` and below the whole buffer, of which all but the first packet is
  above `_last_seqno`.
- `UnreportedOnlyAtFlush`: `[]UnreportedIsAtFlush`.  `FlushedInv`: a flush stops at a number
  that arrived, or stays where the first one started; `Unreported`: a dropped
  number between two stops that gets no report has nothing of the buffer between
  itself and the second.

`MEPSQL_QuickDispatcherProofs`:

- `QuickTypeCorrect`, `RowsAreKept`: `[]TypeOK` and `[]RowsAreFirstInserts`: until the ids
  start over the next id is the next free one, and then there is none.
- `GapsAddUp`: `[]GapPerRow`.  `GapInv`: the number on record for a destination is the
  last one delivered; a row adds the distance to the next, also around the wrap,
  and the sum over the rows grows by one row at a time.

`UDPRRD_DispatcherProofs`, for any size of the list and of a push, either build and
any clock:

- `UDPTypeCorrect`, `PacketsAreConserved`: `[]TypeOK` and `[]PacketsConserved`.
  `ListInv`: the list stays below its size, and the packets of a second on the list,
  wherever an insertion puts it, and in the pushes add up to those dispatched.
- `ListIsInOrder`: `[]BufferInOrder`.  `OrderInv`: while the clock is steady it is at
  its latest second and no second of the list is later, so that the search, which
  skips the first one, stops in the right place.
- `PushesAreFinal`, when `UpdateSize < BufferSize`: `[]PushedIsFinal`.  `FinalInv`: what
  was pushed is older than the clock and than everything on the list.  A push
  that empties the list would take the current second, which is why the
  hypothesis is there; the program has 10 and 20.

Only model-checked: liveness (`TasksDrain`), which is out of the provers' reach.  Every
other property of a passing run is the statement of a theorem.  Only proved: `ConnSpec`,
any calls in any order, is the specification of no run; the generator makes one call.

## Not modelled

- `clearDispatchVector`, `getMacsFromIPs`, `mac_manual`: never called or used.
- The archives of librrd and its heartbeat; only which updates it accepts.
- The file of `UDPRRD_Dispatcher`: each update carries one value for two data
  sources (28-29, 100-101), so that librrd refuses them all.
- Fields behind the headers.  A `UDPPacket`'s headers point into the packet it was
  copied from (udp_headers.cpp:20) and dangle once that is freed; no dispatcher
  reads them.  The byte order of the sequence number, in which the dispatchers
  disagree (MEPSQL_QuickDispatcher.cpp:47, MEPRRD_Dispatcher.cpp:196).
- The text and timestamps of SQL rows, MySQL's failures other than a taken id.
- Mixed streams of several devices in `MEPSQL_Dispatcher`, which does not tell
  them apart.
- The memory of `vec2arg`, which each call of librrd leaks.
- The payload's text and the checksum and length fields of `mep_gen`'s packets.

## Plan

What is left to do: an abstract table of losses that `MEPSQL_QuickDispatcher` and,
for streams in order, `MEPSQL_Dispatcher` implement; a `MEPSQL_Dispatcher` fed by two devices.
