# Specifications of KafKatch

KafKatch watches a hotspot. A C program, the *sniffer*, groups captured packets
into flows and sends them once per second to a Kafka topic; three Java programs
aggregate the flows, look for anomalies and show warnings. This directory holds
TLA+ specifications of that code, the TLC models that check them, and proofs
checked by TLAPS. Paths below are relative to `src/`.

## 1. The system

```
 libpcap --> pkt_handler --> tables[active_idx] --swap--> send_flows --> network-microflows-raw
            (main thread)      mutex, double buffer     (flush thread)          |
                                                                                v
 alert viewer <-- network-warnings <-- OutputWatcher <-- ..-aggregated <-- core App
```

| Component | State | Operations | Interacts through |
|---|---|---|---|
| capture thread, `sniffer/src/main.c` | pcap handle, exit path | start-up and its failures, `pcap_loop`, `handle_sigint`, shutdown | `sniffer_context_t` under its mutex; `pthread_join` |
| packet parser, `parser.c` | none | `pkt_handler` | calls the flow table inside the critical section |
| flow table, `flow.c` | `flow_t` per `flow_key_t` | `flow_create`, `flow_update_stats`, `flow_process_packet` | `tables[2]`, `active_idx` |
| hash table, `uthash.h` | two doubly linked lists through every `flow_t`, an array of buckets | `HASH_FIND`, `HASH_ADD` with expansion, `HASH_ITER`, `HASH_DEL` | expanded into the flow table and the export loop |
| flush thread, `main.c` | the table being exported | swap, export, sleep until the next tick | the mutex, `is_running`, the producer |
| producer client, `kafka_client.c` | librdkafka's queue and delivery reports | init, `send_flows`, `dr_msg_cb`, cleanup | librdkafka's threads, the brokers |
| aggregator, `kafkatch-core` `App.java` | window store, suppression buffer | parse, regroup, aggregate 10 s windows, emit closed ones | Kafka Streams, repartition topic |
| watcher, `kafkatch-notification` `OutputWatcher.java` | one `RollingStats` per key and metric | parse, three checks, put, commit | changelogged in-memory stores |
| alert viewer, `kafkatch-alert-viewer` `App.java` | the consumer's position and committed offset | poll, notify, both with their failures | automatic commits |
| `Splitter`, notification `App`/`Notifier` | - | earlier versions, nothing starts them | - |

What is hard in this code, and what a unit test would hardly reach:

- two threads share the tables through a mutex and a double buffer whose
  inactive slot holds a *dangling* pointer for most of every second;
- the flows of a window leave through a bounded queue, a flush that may time out
  and a connection with `acks=0`, while failures of all three are ignored;
- shutdown starts from a signal handler and has to stop a thread that may be
  sleeping, locking or flushing, and there are three more ways out of `main`;
- 32-bit counters wrap, 16-bit sizes are compared with an `int`, header lengths
  may contradict each other, the wall clock may step back;
- the table is a pointer structure whose elements are freed inside the loop that
  walks them, and whose buckets are redistributed in the middle of an insertion;
- Kafka Streams processes at least once: a store and the input offset are not
  saved together, stream time is forgotten, and three checks of a record may fail
  one by one;
- the viewer commits what it has polled, not what it has shown, and a record that
  cannot be deserialized makes `poll()` fail.

`PROJECT.json` lists these hazards line by line with the properties that cover
them.

## 2. The modules

| Module | Models | Size of the picture |
|---|---|---|
| `Sniffer` | `main.c`, the locked section of `parser.c`/`flow.c`, `kafka_client.c`; librdkafka's threads, the network and the broker as external actions | processes, pointers, queues |
| `WindowExport` | abstract: what the double buffer promises, in three actions | specification |
| `SnifferProofs` | theorems about `Sniffer`, and that it implements `WindowExport` | proofs |
| `PacketParser` | `pkt_handler` up to its critical section, as operators on a frame | pure functions |
| `FlowTable` | the numeric fields of `flow_t` and the exported event | one table, sequential |
| `FlowTableProofs` | theorems about `FlowTable` | proofs |
| `UtHash` | the macros of `uthash.h` that the sniffer uses, with its two callers | one table, sequential, pointers |
| `OrderedMap` | abstract: what the hash table promises, in four actions | specification |
| `UtHashProofs` | theorems about `UtHash`, and that it implements `OrderedMap` | proofs |
| `Aggregator` | `App`, `FlowParser`, `AggregatedFlow` and its store serde of `kafkatch-core`, with crashes | two sub-topologies in one thread |
| `AggregatorProofs` | theorems about `Aggregator` | proofs |
| `AnomalyDetector` | `OutputWatcher`, `AnomalyDetectorTransformer`, `RollingStats` with crashes | one stream task |
| `AnomalyDetectorProofs` | theorems about `AnomalyDetector` | proofs |
| `AlertViewer` | `App` and what `Notifier` and `WarningDeserializer` may do to it, with ends and restarts of the process | one consumer |
| `AlertViewerProofs` | theorems about `AlertViewer` | proofs |
| `DataLemmas` | induction over sets of numbers, running sums, sequences, quotients and remainders, for the proof modules | lemmas |
| `MCFlowTable`, `MCUtHash`, `MCAggregator`, `MCAnomalyDetector` | frames, hash functions, events and aggregates for TLC | instances |

Mutated forms of some definitions (`KeepStaleTable`, `JoinNotWaiting`, ...) stand
before the definition they vary; each is a plausible bug of that code and breaks
the property it is listed with in `PROJECT.json`. Nothing else uses them.

### Sniffer

`mainPc` and `flushPc` say where the two threads are; a step is a statement, or a
group of statements, between two points where the other thread can notice.
The swap is four steps (lock, read the active slot, flip the index, clear the new
active slot) and the update of a flow is two (take the address of the active
slot, then find, add and update), so a missing lock would show.
A table is an *address*; `heap[t][k]` is the set of packets counted by flow `k` of
table `t`. An address without flows is free memory and `HASH_ADD` on an empty table
may receive any free address, the one a dangling pointer still names included.
A packet is an identity, so "counted once" can be said; `FlowTable` relates
the numbers to the packets.

`librdkafka` (external) is a queue bounded by `QueueCap`, which counts a message
until its delivery report has been served, a set of reports, and `Transmit` and
`Expire`. The wire may deliver or lose a message; it outlives the process.
`rd_kafka_flush` serves reports until nothing is left or the time is up, two
different actions, since time is not modelled. `handle` is `"null"` until the handler is installed: before that,
and on the error paths, SIGINT has its default action. After `pcap_close` the
global pointer is `"closed"`; using it is undefined and modelled as a choice
between no effect and death of the process.

`is_running` and `active_idx` are plain fields. `active_idx` is accessed under the
mutex only. `is_running` is read and written without it; each turn of the loop makes calls the
compiler cannot see into, so the field is read again each time and the model lets
the flush thread read it in a step of its own, before or after the write.

### PacketParser and FlowTable

A frame is a record of the header fields the code reads. `Accepted` is the
conjunction of the negated early returns, `Parse` the `pkt_stats_t`. `FlowTable`
applies them one packet at a time (that this is sound is what `Sniffer` shows),
keeps the real packets of each flow as history, and makes the event in `SendFlow`.
Counters wrap at `CounterModulus` (2^32 in the code). `mean_iat` is the exact
quotient; the code computes it in `double` and prints one decimal.
The hash compares `flow_key_t` bytewise with three bytes of padding, which
`pkt_stats_t stats = {0}` is taken to clear.

### UtHash

An element is an address. `hh[e]` is its `UT_hash_handle` (four links and the key;
`hashv` is a function of the key), `tbl` the `UT_hash_table`, which exists while
`head` is not NULL, `allocated` the elements between `calloc` and `free`. Each macro
is an operator of the same name on the memory before it. `Hit` and `Miss` are
`flow_process_packet`; `IterBegin`, `IterDelete` and `IterEnd` are the loop of
`kafka_client_send_flows`, where `HASH_ITER` reads its next pointer before the body
frees the element. The hash function is any function from keys to hash values: only
the cost of a lookup may depend on it. Addresses are compared and nothing else, so
`Miss` takes one arbitrary free address. `OutOfMemory` is `exit()` in `flow_create` and
in `uthash_fatal`. That one thread at a time works on a table is
`Sniffer!TableOwnership`; that a table of `Sniffer` is a function from keys to flows is
`ImplementsOrderedMap` here.

### Aggregator

`Forward(p)` is the task of raw partition `p` (parse, filter, regroup); `Aggregate` is the
task of the one repartition record key: late check, `addFlow`, `suppress`, output, all
in one step as in the code. The raw topic has three partitions (`README.md` line 37) and
the sniffer's messages have no key, so they land anywhere, and since each partition has a
task of its own the repartition topic is any merge of them. Without grace a window is
closed when stream time reaches its end; stream time and `suppress` are Kafka
Streams' own, as far as the code uses them. An address or a port is a sequence of characters, because
`UniqueKeyPerFlow` is about their concatenation. `FromStore` is the round trip through
the store's serde between any two records. The JSON sent to the output topic goes
through `toJsonString` with no view active, in which case Jackson writes `flowKeys` too,
so an emitted aggregate has the field here (`AggregatedFlowParser.java` lines 17-20 say it
is left out; the watcher ignores it).

App configures no number of threads, so one `StreamThread` runs all tasks: they crash
and commit together. `Commit` flushes the producers, writes the suppression buffer to its
changelog, and commits the offsets. `Crash` (the process dies, or the uncaught-exception handler
replaces the thread) keeps any prefix of what each topic was sent since the last commit,
topic by topic, as they have leaders of their own, but at least the repartition records that
were already read. The buffer's changelog is written by a commit only, so between two commits it
holds the committed buffer; a crash within a commit, before the offsets are committed, leaves it
anywhere between that and the present one, window by window (`Flushed`), while the output may or
may not have arrived. Afterwards the window store is what its changelog says, records are read
again from the committed offsets, and stream time starts over at the first of them, so a record
that was late before may be accepted and its window then waits for new traffic.

`App.java` lines 114-125 set no retention, so the store keeps a window for `windowSize`, as far as the
latest window put into it goes, and does not return it after that (`Expired`). As long as stream
time is known this changes nothing, since such a window is closed. After a crash the record that is
read again may be of a window that the restored store has expired: `aggregate` then starts
anew, and the new aggregate takes the place of the committed one in the buffer. Whether it does
depends on how much of the changelog this store was restored from (what its local files hold
already does not count), so `Lookup` is a set of one or two results. The local files are taken to
hold what the changelog holds.

### AnomalyDetector

One stream task over one partition. `changelog[m]` lists the contents that store `m` has had since the last
commit; the last one is the store. `Transform` is one call of `transform()`: for
each metric not in `bad`, compare, then put; a check in `bad` throws and is
caught. `Commit` flushes and commits; `Crash` (the process dies, or the handler
replaces the thread) goes back to the committed offset, with each store as far as
its changelog had got and any part of the warnings already out. The ratio is compared exactly, by
cross-multiplication, where the code divides doubles. Two metrics stand for the
code's three: they do not influence each other except through `bad` and the crash,
for which two suffice.

### AlertViewer

One partition of `network-warnings`; a record is `null`, malformed or a warning. `Poll(n)`
returns records up to the next malformed one; if that is the first, `PollThrows`
and the position stays (the consumer raises the exception after it has handed out what
precedes it). `cursor` is how far the `for` loop has got in the batch; a poll happens
only when the batch is finished, and may commit the position automatically.
`Notify` shows the warning or throws an `Exception`, which is caught. An `Error` (the
notification library loads desktop classes) is caught by neither clause: the consumer is closed,
which commits its position, the rest of the batch included, if the broker can be reached.
`Kill` is the end without a close; Ctrl+C is one, as there is no shutdown
hook. What the viewer never looks at is `GivenUp`: records older than its latest start without a
committed offset (`origin`, as `latest` begins at the end of the topic), and the rest of a batch that was
committed when an `Error` closed the consumer (`cuts`, with the warning and the position). Kafka's session and the severity, icon and text of the
notification are left out.

## 3. The runs

| Run | Properties | Shows |
|---|---|---|
| `sniffer` | `TypeOK`, `TableOwnership`, `PacketConservation`, `ResourcesOutliveThreads`, `SigintEndsProcess`, `PacketsLeaveTables`, `ImplementsWindowExport` | no use after free, leak or sharing of tables; no packet lost or doubled inside the process; mutex and producer outlive the flush thread, on all exits; Ctrl+C ends the process whatever the brokers do; packets do not stay in the tables; the swap is an atomic change of window |
| `flow_table` | `TypeOK`, `AggregatesMatchPackets`, `MeanIsOverGaps`, `SizesFit`, `MirroredDirections` | flows and events against a definition over the packets, through wraps, negative payloads and clock steps, whose negative gaps enter sum and mean with their sign |
| `uthash` | `TypeOK`, `Integrity`, `FindExact`, `NoDangling`, `ChainsBounded`, `ImplementsOrderedMap` | the integrity check that the build leaves out would pass; lookups are exact under every hash function and through expansions; the export frees what it walks without following a freed pointer, and empties the table in order |
| `aggregator_windows` | `TypeOK`, `DropsOnlyAcrossPartitions`, `EmittedInOrder`, `WindowsExact`, `OvertakenWindowsAreEmitted` | windows come out once, in order and with exactly their records; only a partition that runs ahead makes records late; an overtaken window does come out |
| `aggregator_crash` | `OpenWindowsSurviveCrashes`, `CopiesBounded`, `OvertakenWindowsAreEmitted` | after a crash, between commits or within one, every record of a window that was still open is accounted for, no record is counted more than three times in a window, and overtaken windows still come out |
| `detector_exact` | `TypeOK`, `DetectsExactly` | the warnings are those of a definition over the whole input |
| `detector_crash` | `SumMatchesWindow`, `DuplicatesBounded`, `RecordsAreHandled` | what survives crashes and replays, and that neither corrupt records nor throwing checks block the stream |
| `alert_viewer` | `TypeOK`, `CommittedWereHandled`, `RepeatsBounded`, `RecordsAreHandled` | automatic commits never run ahead of the loop; an `Error` costs the rest of one batch, from the warning that raised it; a warning is shown again only after the process has ended; the loop gets through null records and failing notifications |
| `sniffer_lastwindow` | `GracefulShutdownExports` **violated** | a shutdown called graceful drops what was captured since the last tick |
| `sniffer_sigint` | `PeacefulShutdown` **violated** | a second Ctrl+C during shutdown uses a closed pcap handle |
| `aggregator_keys` | `UniqueKeyPerFlow` **violated** | different flows can have the same key string, which `AggregatedFlow.java` line 76 calls unique |
| `alert_malformed` | `WarningsBehindMalformed` **violated** | the `catch` around `poll()` keeps the loop running, but the position stays in front of a malformed record, so nothing behind it is ever shown |

### Bounds and why they are enough

Every safety property and both refinements below are also theorems (section 4), for all
sizes; the bounds matter for the liveness properties, and for finding a mistake
in the model or a property before it is proved.

- `sniffer`: 2 packets, 2 keys, 2 tables, queue of 1, no symmetry (liveness). Two
  keys make exports of several steps; two packets fill two windows in a row, so that a
  slot is used again and a freed address is allocated again while a pointer to it is stale;
  with a queue of 1 the second flow of a window overflows it.
- the violated runs of `Sniffer`: 2 packets, 1 key, 2 tables, queue of 2, found in seconds.
- `flow_table`: 18 frames that sit on both sides of every check, 6 packets,
  counters modulo 4, so that a flow has up to two gaps, wraps and goes on.
- `uthash`: 5 keys, 5 elements, hash values 0, 1, 2 and 4, one bucket at first and a
  threshold of 1 (32 and 10 in the code), so that the table doubles several times (to 16 buckets and more), some chains
  stay long whatever the number of buckets, expansion is found ineffective twice and is inhibited.
  Only hash functions that ascend with the key: keys are interchangeable. At this size no chain
  exceeds its bucket's multiple of the threshold either; see `ChainsAreBounded` in section 4 for
  why `ChainsBounded` does not promise that.
- `aggregator_windows`: 3 records in 2 partitions, times 0 to 4, windows of 2: three windows,
  both ends of a window, a late record followed by a closing one, two records of a window and
  one that closes it. Two events with the same key string, one of them with a byte
  count past the largest `int` (modulus 8), and a corrupt value. `CHECK_DEADLOCK FALSE`: the tasks wait for records.
- `aggregator_crash`: the same with one event, times 0 and 1, windows of 1, and one crash
  between commits or within one, with any number of commits before it. Two times are two windows, which is
  what it takes for the first to expire. One crash already
  combines a record that was regrouped twice with a store that is ahead of the
  offsets, which gives the three copies of `CopiesBounded`.
- `detector_exact`: 5 records with 2 keys and a window of 3, so that an eviction precedes
  a comparison; the two aggregates hit every threshold exactly, and a mean of zero.
- `detector_crash`: 3 records, 2 crashes, one check that throws, window of 3; replays overfill the window.
  `CHECK_DEADLOCK FALSE` in the detector's runs: when no more records arrive the task waits.
- `alert_viewer`: 4 records of 3 kinds, the process ends up to twice: a batch with all kinds
  that is interrupted, replayed and interrupted again. `CHECK_DEADLOCK FALSE`: after
  the last end nobody has to start it again. `alert_malformed` has the same bounds.

### Fairness

`Sniffer!FairSpec` has weak fairness for the steps of each thread (the scheduler
runs what can run; a flush ends by its timeout, a sleep by the clock) and strong
fairness for the two lock operations: the capture thread holds the mutex for one
update of a hash table and the flush thread for three assignments, and between two
acquisitions each does other work, so a waiter is not passed over for ever. No
fairness for packets, signals, failures, the network or the broker.
`PcapBreak` is among the fair steps: `pcap_loop` returns to its flag at least every
10 ms (`pcap_set_timeout`). `AnomalyDetector!FairSpec` lets the stream thread
process and commit as long as it runs, and `Aggregator!FairSpec` each of its tasks; crashes are bounded, so they
run in the end. `AlertViewer!FairSpec` is the loop going on while the process runs: it polls
when there are records, and a notification returns. Nobody has to start the viewer again, so its
properties end with the process. Nothing is assumed about arrivals.

## 4. The proofs

Every safety property that a passing run checks, and both refinements, are theorems: they hold
for every value of the constants that satisfies the `ASSUME` of the module. The assumptions:

- `Sniffer`: `NULL` is not a table and the queue bound is a number;
- `FlowTable`: frames have a 16-bit `ip_len` and natural header lengths, the modulus is positive;
- `UtHash`: memory is finite and `NULL` is not in it, hash values are natural numbers, the threshold is
  positive;
- `Aggregator`: counters of events are natural numbers (`FlowParser` reads what `kafka_client_send_flows` printed
  with `%u`), windows and the modulus of `int` are positive, the corrupt value is no event;
- `AnomalyDetector`: metrics are integers, the window is not empty, the corrupt value is no flow;
- `AnomalyDetector`, `AlertViewer`, `FlowTable`: the bounds on records, crashes and ends are numbers.

| Theorem | Statement | Argument |
|---|---|---|
| `SnifferProofs!TypeCorrect` | `Spec => []TypeOK` | inductive with `PacketInHand`: between lock and unlock there is a packet, without which `pkt.key` has no type |
| `SnifferProofs!ResourceSafety` | `Spec => []ResourcesOutliveThreads` | from `ControlInv` |
| `SnifferProofs!MemorySafety` | `Spec => []TableOwnership` | inductive over `TypeInv` and `ControlInv` |
| `SnifferProofs!Conservation` | `Spec => []PacketConservation` | from `ConservationInv` |
| `SnifferProofs!Refinement` | `Spec => ImplementsWindowExport` | step simulation under `RefinementInv` |
| `FlowTableProofs!FlowTypes` | `Spec => []TypeOK` | inductive |
| `FlowTableProofs!SizesInRange` | `Spec => []SizesFit` | inductive with `TypeOK`, from the clamp in `PayloadSize` and `ip_len < 2^16` |
| `FlowTableProofs!FlowsAreTheirPackets` | `Spec => []AggregatesMatchPackets` | from `PacketsInv` |
| `FlowTableProofs!MeanIsExact` | `Spec => []MeanIsOverGaps` | from `PacketsInv` and `Coherent` (the sum of the gaps is the distance from `start_time` to `last_seen`) |
| `FlowTableProofs!DirectionsMirror` | `Spec => []MirroredDirections` | from `PacketsInv`: a packet is in the history of its own key |
| `UtHashProofs!HashTypes` | `Spec => []TypeOK` | from `HashInv` |
| `UtHashProofs!LookupsAreExact` | `Spec => []FindExact` | from `HashInv`: the chain of a bucket has exactly the elements that hash there |
| `UtHashProofs!ChainsAreBounded` | `Spec => []ChainsBounded` | from `HashInv` |
| `UtHashProofs!NothingDangles` | `Spec => []NoDangling` | from `HashInv`: links of a list stay within its elements |
| `UtHashProofs!TableIntegrity` | `Spec => []Integrity` | from `HashInv` |
| `UtHashProofs!TableIsOrderedMap` | `Spec => ImplementsOrderedMap` | step simulation under `HashInv` |
| `AggregatorProofs!AggregatorTypes` | `Spec => []TypeOK` | from `TypeInv` |
| `AggregatorProofs!WindowsLeaveInOrder` | `Spec => []EmittedInOrder` | from `OrderInv` |
| `AggregatorProofs!LateOnlyAcrossPartitions` | `Spec => []DropsOnlyAcrossPartitions` | inductive over `SourceInv`, `MergeInv`, `TimeInv` |
| `AggregatorProofs!OpenWindowsSurvive` | `Spec => []OpenWindowsSurviveCrashes` | from `RegroupedInv`, `HorizonInv`, `LogInv`, `HandledInv` |
| `AggregatorProofs!CopiesAreBounded` | `Spec => []CopiesBounded` | from `RegroupBound`, `EntryBound` |
| `AggregatorProofs!WindowsAreExact` | `Spec => []WindowsExact` | from `SumsInv`, `WindowInv`, `OrderInv` |
| `AnomalyDetectorProofs!DetectorTypes` | `Spec => []TypeOK` | from `TypeInv` |
| `AnomalyDetectorProofs!SumsAreExact` | `Spec => []SumMatchesWindow` | inductive: of every content a changelog still holds, as a crash may bring any of them back |
| `AnomalyDetectorProofs!ReplaysAreBounded` | `Spec => []DuplicatesBounded` | from `CopiesInv` |
| `AnomalyDetectorProofs!WarningsAreExact` | `Spec => []DetectsExactly` | from `DetectInv` |
| `AlertViewerProofs!ViewerTypes` | `Spec => []TypeOK` | inductive |
| `AlertViewerProofs!CommitsFollowHandling` | `Spec => []CommittedWereHandled` | from `ProgressInv` |
| `AlertViewerProofs!RepeatsOnlyAfterEnds` | `Spec => []RepeatsBounded` | from `ShownInv` |

### Sniffer and FlowTable

`ControlInv` is what the program counters say about the mutex (`MutexInv`: held by
whoever is inside its section), about the threads (`ThreadInv`: main past the join
means the flush thread has ended), about the handle (`HandleInv`) and about the
pointers (`PointerInv`: the slot address the capture thread took is still that of the
active table while it holds the mutex, the flush thread has no table outside its
section and its export). Without it `TableOwnership` is not inductive: from a state in which both
threads are inside their sections the swap could take a table that is being updated.
`ConservationInv` says where each packet is: in at most one flow, in
messages that do not overlap, never in both, and new packets are nowhere.
`RefinementInv` is the three together. By `PointerInv` the export is over when the next
window is taken, so `TakeTable` maps to `CloseWindow`; `ProduceFlow` maps to `Emit`,
`FlowProcessPacket` to `Aggregate`, every other step to a stutter.

`PacketsInv` keeps, with every flow, the packets it stands for: the counters are the numbers of those
packets modulo the width, sums the sums modulo the width, extremes the extremes. The step uses that
appending to a history adds one addend to each sum, and that (a mod m + b) mod m = (a + b) mod m. The
mean divides by the wrapped number of packets, so the theorem speaks of the last stretch of packets
since a wrap exactly as the property does.

### UtHash

`HashInv` gives the pointers their meaning. There are a number of buckets N, a list s and, for each
bucket, a list C[b], such that

- `IsList(s, ...)`: the application-order links are those of s, without repetition, from `head` to
  `tail`, and `num_items` is its length;
- `Chained`: the links of bucket b are those of C[b], its `count` is the length of C[b], and an element of
  the table is on C[b] exactly if its key hashes to b modulo N;
- both lists have the allocated elements and no others, no key twice, and N is the power of two that
  `log2_num_buckets` says;
- `InBounds`: chains are within their bounds unless expansion has been given up;
- `Cursor`: inside `HASH_ITER`, the element is the first one and `tmp` is what its link says.

Lists are functions on `1 .. n` that the proof picks, so that following a chain of any length
is an argument about positions. Appending to the table's list, pushing on the front of a bucket and
taking an element out of either (`AppendLinks`, `PrependLinks`, `RemoveLinks`) are proved once for
any two link fields. `Redistributed` is the invariant of the two nested loops of `HASH_EXPAND_BUCKETS`: after
some of the old buckets have been walked, the new array chains exactly the elements of those. Only the
first element is ever deleted, but it may be anywhere on its chain; the last one takes the table with it. For the refinement,
`Miss` maps to `Insert`, `IterBegin` to `BeginDrain`, `IterDelete` to `RemoveOldest`, `IterEnd` to
`EndDrain`, and everything else (a hit, a failed allocation, an expansion) to a stutter.

The proof changed one property. `uthash.h` lines 1073-1083 say of a bucket with `expand_mult` 0 that "the max
chain length threshold is enforced at its default value", and the first form of
`ChainsBounded` said so for every multiplier. It is not inductive, and it is false: lines 856-859 compare a chain with
`ideal_chain_maxlen` alone, and raise `expand_mult` only beyond that. If the multipliers of a few crowded
buckets have let the table grow to more than a threshold of items per new bucket, the expansion
leaves other chains between the two lengths with `expand_mult` 0. With a threshold of 4 and one bucket
at first, TLC reaches that with 33 keys, odd keys hashed 4 higher than even ones and, modulo 4, keys 1-5
and 13-18 to 0, 19-21 to 1, 6-12 and 25-33 to 2, 22-24 to 3, inserted in that order. It costs a few comparisons
until the next insertion into the bucket; lookups stay exact. `ChainsBounded` now allows
the multiple of either length, which is what holds.

### Aggregator

`TypeInv` (`InputInv`, `TaskInv`, `CommitInv`) has the order of positions and of what is
committed behind them. `OrderInv`: without crashes, windows in the buffer end after stream time and
what has been emitted before it. `MergeInv` and `TimeInv` say that without crashes the repartition topic is a
merge of the partitions and stream time the largest timestamp read from it, so that a late record
was overtaken by one of another partition.

That a crash loses nothing at all is not so, and an earlier form of the property that said it was
wrong twice over. A commit may remove a closed window's entry from the buffer's changelog durably,
with its emission still on its way, and an expired aggregate starts anew without the records
before the committed offset. Both need a window that stream time had closed when the thread crashed.
`crashTime`, a history variable, is the largest stream time that a crash has wiped out, and
`OpenWindowsSurviveCrashes` promises for the windows that were open then what was once promised for all. (With
a buffer that had no changelog, TLC finds an open window that loses its records.)
`HorizonInv`: no window in the store starts after the larger of stream time and `crashTime`, and what has
been emitted is closed at it. Hence a window that has expired although its record is on time was
closed before a crash (`ExpiredIsClosed`), and in the others an entry of the store keeps
the members of the entries before it (`LogInv`). `HandledInv` says of a processed record of such a window that
it is late, emitted, or both in the buffer and in an entry of the store, where the next entry
of its window takes it from. `RegroupedInv` and `HandledInv` are stated
twice, of the present state and of what the committed offsets and the committed buffer would leave:
the second is what `Crash` falls back to, and `Commit` turns the first into it. Since a crash within a commit
mixes the two buffers window by window, the invariants speak of one window at a time.
`RegroupBound` says that a record is in the repartition topic at most `crashes + 1` times, and
`EntryBound` that an aggregate has at most 1 + ... + k copies from before the k-th crash and one for
each position processed since then; together they give the bound of `CopiesBounded`.
`SumsInv`: an aggregate carries the totals of its members, also the wrapped ones. `WindowInv`: without crashes the
latest aggregate of a window has every record of it that was not late, once; that aggregate is the one
found, since by `HorizonInv` nothing that is asked for has expired.

### AnomalyDetector and AlertViewer

`CopiesInv` bounds the copies of a record in every content of every changelog, not only in the
store: by `crashes`, and one more once the record is behind the position. `DetectInv` is stated
without crashes, as `DetectsExactly` is: the checks that failed are of records already read (`FailedInv`), the windows
are the last samples of what was read (`LastInv`) and the warnings what the definition says so far
(`ExactInv`). The definition runs over the whole input, so the step needs that its values up to
a position do not depend on what is appended behind it.

`ProgressInv`: what is in front of the loop, or of the committed offset, was handled or
given up, and what is left of the batch holds no malformed record. `ShownInv`: a warning was shown at most once per end of the process, and once more
if the loop of the present run is past it.

### Definitions over sequences

Sums, samples and searches along chains are recursive functions. An induction theorem takes a predicate,
which the provers cannot instantiate; `DataLemmas` states induction for a set instead
(`NatSetInduction`: a set of numbers with 0 that is closed under successor has all of them) and applies it to
the set of lengths for which a fact holds. `RunningSumExists` and `IterationExists` show that the
function a recursive definition describes exists, without which nothing could be said of its values.

### What is only model-checked

Liveness: `SigintEndsProcess`, `PacketsLeaveTables`, `OvertakenWindowsAreEmitted` and the two `RecordsAreHandled`
rest on fairness and `ENABLED`, which are out of the prover's reach. And the violations, which are
traces.

## 5. Not modelled

- The macros of `uthash.h` that nothing calls (sorting, selection, replacement, insertion
  in order, the Bloom filter) and what its hash functions compute.
- The parser reads the Ethernet header, and the type behind a VLAN tag, before it looks at `caplen`; frames
  are taken to have both.
- The statistics printed at the end; usage errors; debug printing; `flow_table_clear`
  and `get_dir_string`, which nothing calls.
- `Splitter`, and the notification module's own `App` and `Notifier`: earlier versions that no launcher starts.
- A wall clock of the sniffer's host that steps back between two messages.
- Local files of the aggregator's store that differ from its changelog.
- The length of a tick. `Wake` may come at any time, so ticks that follow each
  other at once after a slow flush are among the behaviours of `Sniffer`, but how long a shutdown
  takes is not said.
- Wording of messages and warnings, JSON layout, Docker and access-point set-up.

Three promises in prose that the models contradict by construction, so no run is spent on them: the
repository's `README.md` line 63 says `acks=1` and the code sets 0 (`ConnectionLoses` in `Sniffer`); line 65
says a window has been transmitted when the next begins, and the flush gives up after 500 ms with its
result ignored (`FlushTimeout`); the comment in `AnomalyDetectorTransformer.java` lines 143-145 says a
value is not compared with itself, and after a crash a replayed one is compared with a
mean that may hold its first copy (`Crash` in `AnomalyDetector`).

## 6. Plan

In place: the models of section 2, the runs, and proofs of all safety properties and both
refinements. Left:

1. `Pipeline`: the topics between sniffer, aggregator and watcher composed, to say how
   many copies of a warning one crash upstream can cause.
