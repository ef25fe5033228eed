------------------------------- MODULE Sniffer -------------------------------
(***************************************************************************)
(* The sniffer process of sniffer/src: the capture thread (main, pcap_loop *)
(* and pkt_handler), the flush thread (flush_worker), the mutex and the    *)
(* double buffer they share, the librdkafka producer that takes the        *)
(* exported flows, and the path to the topic network-microflows-raw.       *)
(*                                                                         *)
(* A flow_t is abstracted to the set of packets it has counted (FlowTable  *)
(* relates its numeric fields to those packets); a uthash table is an      *)
(* address in Tables whose content heap[t] gives, per key, the packets of  *)
(* the flow stored there, {} when the table has no such flow.  An address  *)
(* with no flow at all is free memory and may be handed out again, so a    *)
(* stale pointer can alias a new table, as it can after free() in C.       *)
(***************************************************************************)
EXTENDS Naturals, FiniteSets

CONSTANTS
    Packets,    \* packets that pass the filters of pkt_handler
    Keys,       \* values of flow_key_t
    Tables,     \* addresses a hash table may have
    NULL,       \* the C null pointer, and "no packet" for pkt
    QueueCap    \* librdkafka's queue.buffering.max.messages

ASSUME SnifferAssumptions ==
    /\ NULL \notin Tables
    /\ QueueCap \in Nat

VARIABLES
    mainPc,           \* where the main (capture) thread is
    rc,               \* the exit status main() is heading for
    handle,           \* global_pcap_handle: "null", "open" or "closed"
    break_loop,       \* the flag pcap_breakloop() raises in the handle
    pkt,              \* the packet pkt_handler is working on
    slot,             \* table_ptr of flow_process_packet, an index of tables
    flushPc,          \* where the flush thread is
    table_to_export,  \* the flush thread's private table pointer
    mutex,            \* holder of ctx->mutex: "free", "main" or "flush"
    tables,           \* ctx->tables
    active_idx,       \* ctx->active_idx
    is_running,       \* ctx->is_running
    heap,             \* the flows every table holds
    counted,          \* history: the packets aggregated so far
    outq,             \* messages accepted by librdkafka, not yet transmitted
    drq,              \* delivery reports waiting for poll() or flush(); err 0 is success
    delivered,        \* history: messages reported to dr_msg_cb with no error
    wire,             \* messages written to the broker's socket
    topic,            \* messages stored in network-microflows-raw
    lost              \* messages that no longer exist anywhere

mainVars  == <<mainPc, rc, handle, break_loop, pkt, slot>>
flushVars == <<flushPc, table_to_export>>
ctxVars   == <<mutex, tables, active_idx, is_running>>
memVars   == <<heap, counted>>
netVars   == <<outq, drq, delivered, wire, topic, lost>>
vars      == <<mainVars, flushVars, ctxVars, memVars, netVars>>

-----------------------------------------------------------------------------

Message == [key : Keys, pkts : SUBSET Packets]

EmptyTable == [k \in Keys |-> {}]

\* A table that holds at least one flow is allocated memory.
Live(t) == \E k \in Keys : heap[t][k] # {}

\* All threads of the process run until main returns or something exits it.
ProcessUp == mainPc \notin {"exited", "aborted"}

MainPcs == {"init", "spawned", "capture", "lock", "locate", "update", "unlock",
            "stop", "join", "cleanup", "exited", "aborted"}

FlushPcs == {"off", "check", "lock", "take", "flip", "reset", "unlock",
             "send", "flush", "sleep", "done"}

MainGoto(from, to) == mainPc = from /\ mainPc' = to

FlushGoto(from, to) == ProcessUp /\ flushPc = from /\ flushPc' = to

Init ==
    /\ mainPc = "init" /\ rc = "none" /\ handle = "null" /\ break_loop = 0
    /\ pkt = NULL /\ slot = 0
    /\ flushPc = "off" /\ table_to_export = NULL
    /\ mutex = "free" /\ tables = [i \in {0, 1} |-> NULL]
    /\ active_idx = 0 /\ is_running = 1
    /\ heap = [t \in Tables |-> EmptyTable] /\ counted = {}
    /\ outq = {} /\ drq = {} /\ delivered = {}
    /\ wire = {} /\ topic = {} /\ lost = {}

-----------------------------------------------------------------------------
(* Start of main().                                                        *)

\* kafka_client_init() returns NULL: nothing to undo.
KafkaInitFails ==
    /\ MainGoto("init", "exited")
    /\ rc' = "failure"
    /\ UNCHANGED <<handle, break_loop, pkt, slot, flushVars, ctxVars, memVars, netVars>>

\* pthread_create() fails: goto err_kafka.
SpawnFails ==
    /\ MainGoto("init", "cleanup")
    /\ rc' = "failure"
    /\ UNCHANGED <<handle, break_loop, pkt, slot, flushVars, ctxVars, memVars, netVars>>

SpawnFlushWorker ==
    /\ MainGoto("init", "spawned")
    /\ flushPc' = "check"
    /\ UNCHANGED <<rc, handle, break_loop, pkt, slot, table_to_export,
                   ctxVars, memVars, netVars>>

\* pcap_init() or setup_pcap() fails: goto err_thread; setup_pcap has closed
\* its own handle, so the global one is still NULL.
PcapSetupFails ==
    /\ MainGoto("spawned", "stop")
    /\ rc' = "failure"
    /\ UNCHANGED <<handle, break_loop, pkt, slot, flushVars, ctxVars, memVars, netVars>>

\* The handle is open, SIGINT has its handler, pcap_loop() starts.
StartCapture ==
    /\ MainGoto("spawned", "capture")
    /\ handle' = "open"
    /\ UNCHANGED <<rc, break_loop, pkt, slot, flushVars, ctxVars, memVars, netVars>>

-----------------------------------------------------------------------------
(* The capture thread inside pcap_loop().                                  *)

\* libpcap looks at its break flag before every callback.
PktHandler(p, k) ==
    /\ break_loop = 0
    /\ p \notin counted
    /\ MainGoto("capture", "lock")
    /\ pkt' = [id |-> p, key |-> k]
    /\ UNCHANGED <<rc, handle, break_loop, slot, flushVars, ctxVars, memVars, netVars>>

\* Goes on without waiting for the mutex.
CaptureLockUnguarded ==
    /\ MainGoto("lock", "locate")
    /\ mutex' = "main"
    /\ UNCHANGED <<rc, handle, break_loop, pkt, slot, flushVars,
                   tables, active_idx, is_running, memVars, netVars>>

CaptureLock ==
    /\ mutex = "free"
    /\ MainGoto("lock", "locate")
    /\ mutex' = "main"
    /\ UNCHANGED <<rc, handle, break_loop, pkt, slot, flushVars,
                   tables, active_idx, is_running, memVars, netVars>>

\* table_ptr = &ctx->tables[ctx->active_idx]
LocateTable ==
    /\ MainGoto("locate", "update")
    /\ slot' = active_idx
    /\ UNCHANGED <<rc, handle, break_loop, pkt, flushVars, ctxVars, memVars, netVars>>

\* The key of the packet has no flow in the table (HASH_FIND misses).
Miss == tables[slot] # NULL => heap[tables[slot]][pkt.key] = {}

\* HASH_FIND, on a miss flow_create() and HASH_ADD, then flow_update_stats().
\* HASH_ADD to an empty table makes the new flow its head.
FlowProcessPacket ==
    /\ MainGoto("update", "unlock")
    /\ counted' = counted \cup {pkt.id}
    /\ \/ /\ tables[slot] = NULL
          /\ \E t \in Tables :
                /\ ~Live(t)
                /\ tables' = [tables EXCEPT ![slot] = t]
                /\ heap' = [heap EXCEPT ![t][pkt.key] = {pkt.id}]
       \/ /\ tables[slot] # NULL
          /\ heap' = [heap EXCEPT ![tables[slot]][pkt.key] = @ \cup {pkt.id}]
          /\ UNCHANGED tables
    /\ UNCHANGED <<rc, handle, break_loop, pkt, slot, flushVars,
                   mutex, active_idx, is_running, netVars>>

\* calloc() fails inside flow_create(): exit(EXIT_FAILURE) on the spot, with
\* the mutex held and nothing flushed.
FlowCreateFails ==
    /\ MainGoto("update", "aborted")
    /\ Miss
    /\ rc' = "failure"
    /\ UNCHANGED <<handle, break_loop, pkt, slot, flushVars, ctxVars, memVars, netVars>>

CaptureUnlock ==
    /\ MainGoto("unlock", "capture")
    /\ mutex' = "free"
    /\ pkt' = NULL
    /\ UNCHANGED <<rc, handle, break_loop, slot, flushVars,
                   tables, active_idx, is_running, memVars, netVars>>

-----------------------------------------------------------------------------
(* Signals and the end of main().                                          *)

\* As long as signal() has not run, which on the error paths it never does,
\* the default action of SIGINT ends the process.
SigintDefault ==
    /\ ProcessUp
    /\ handle = "null"
    /\ mainPc' = "aborted"
    /\ rc' = "failure"
    /\ UNCHANGED <<handle, break_loop, pkt, slot, flushVars, ctxVars, memVars, netVars>>

\* handle_sigint() on a live handle: pcap_breakloop() raises the flag.
Sigint ==
    /\ ProcessUp
    /\ handle = "open" /\ break_loop = 0
    /\ break_loop' = 1
    /\ UNCHANGED <<mainPc, rc, handle, pkt, slot, flushVars, ctxVars, memVars, netVars>>

\* handle_sigint() again after pcap_close(): the pointer is not NULL, so
\* pcap_breakloop() runs on freed memory.  Either it harms nothing, which is
\* a stutter, or the process dies.
SigintAfterClose ==
    /\ ProcessUp
    /\ handle = "closed"
    /\ mainPc' = "aborted"
    /\ rc' = "failure"
    /\ UNCHANGED <<handle, break_loop, pkt, slot, flushVars, ctxVars, memVars, netVars>>

\* pcap_loop() returns because of the flag.
PcapBreak ==
    /\ break_loop = 1
    /\ MainGoto("capture", "stop")
    /\ rc' = "success"
    /\ UNCHANGED <<handle, break_loop, pkt, slot, flushVars, ctxVars, memVars, netVars>>

\* pcap_loop() returns because of an error; main() does not look at which.
PcapError ==
    /\ MainGoto("capture", "stop")
    /\ rc' = "success"
    /\ UNCHANGED <<handle, break_loop, pkt, slot, flushVars, ctxVars, memVars, netVars>>

\* Leaves is_running as it is.
StopFlushForgotten ==
    /\ MainGoto("stop", "join")
    /\ UNCHANGED <<rc, handle, break_loop, pkt, slot, flushVars, ctxVars, memVars, netVars>>

StopFlush ==
    /\ MainGoto("stop", "join")
    /\ is_running' = 0
    /\ UNCHANGED <<rc, handle, break_loop, pkt, slot, flushVars,
                   mutex, tables, active_idx, memVars, netVars>>

\* Shuts the producer down without waiting for the flush thread.
JoinNotWaiting ==
    /\ MainGoto("join", "cleanup")
    /\ handle' = IF handle = "open" THEN "closed" ELSE handle
    /\ UNCHANGED <<rc, break_loop, pkt, slot, flushVars, ctxVars, memVars, netVars>>

\* pthread_join(), pthread_mutex_destroy() and, on the success path,
\* pcap_close().  global_pcap_handle keeps its value.
JoinFlush ==
    /\ flushPc = "done"
    /\ MainGoto("join", "cleanup")
    /\ handle' = IF handle = "open" THEN "closed" ELSE handle
    /\ UNCHANGED <<rc, break_loop, pkt, slot, flushVars, ctxVars, memVars, netVars>>

\* Runs dr_msg_cb for every delivery report that is waiting.
ServeReports ==
    /\ delivered' = delivered \cup {d.msg : d \in {r \in drq : r.err = 0}}
    /\ drq' = {}

\* kafka_client_cleanup(): rd_kafka_flush(5000) serves reports ...
CleanupServe ==
    /\ mainPc = "cleanup"
    /\ drq # {}
    /\ ServeReports
    /\ UNCHANGED <<mainVars, flushVars, ctxVars, memVars, outq, wire, topic, lost>>

\* ... until nothing is left or the time is up; rd_kafka_destroy() then
\* discards what is still queued, and main() returns.
CleanupDestroy ==
    /\ MainGoto("cleanup", "exited")
    /\ outq' = {} /\ drq' = {}
    /\ lost' = lost \cup outq
    /\ UNCHANGED <<rc, handle, break_loop, pkt, slot, flushVars, ctxVars, memVars,
                   delivered, wire, topic>>

-----------------------------------------------------------------------------
(* The flush thread.                                                       *)

\* while (ctx->is_running), then the head of the loop's body.
FlushCheck ==
    /\ FlushGoto("check", IF is_running = 1 THEN "lock" ELSE "done")
    /\ table_to_export' = IF is_running = 1 THEN NULL ELSE table_to_export
    /\ UNCHANGED <<mainVars, ctxVars, memVars, netVars>>

FlushLock ==
    /\ mutex = "free"
    /\ FlushGoto("lock", "take")
    /\ mutex' = "flush"
    /\ UNCHANGED <<mainVars, table_to_export, tables, active_idx, is_running,
                   memVars, netVars>>

\* table_to_export = ctx->tables[ctx->active_idx]
TakeTable ==
    /\ FlushGoto("take", "flip")
    /\ table_to_export' = tables[active_idx]
    /\ UNCHANGED <<mainVars, ctxVars, memVars, netVars>>

\* Advances the index without bringing it back to 0.
FlipIndexRunaway ==
    /\ FlushGoto("flip", "reset")
    /\ active_idx' = active_idx + 1
    /\ UNCHANGED <<mainVars, table_to_export, mutex, tables, is_running, memVars, netVars>>

\* ctx->active_idx = !ctx->active_idx
FlipIndex ==
    /\ FlushGoto("flip", "reset")
    /\ active_idx' = 1 - active_idx
    /\ UNCHANGED <<mainVars, table_to_export, mutex, tables, is_running, memVars, netVars>>

\* The new active slot keeps the pointer of two windows ago.
KeepStaleTable ==
    /\ FlushGoto("reset", "unlock")
    /\ UNCHANGED <<mainVars, table_to_export, ctxVars, memVars, netVars>>

\* ctx->tables[ctx->active_idx] = NULL
ResetTable ==
    /\ FlushGoto("reset", "unlock")
    /\ tables' = [tables EXCEPT ![active_idx] = NULL]
    /\ UNCHANGED <<mainVars, table_to_export, mutex, active_idx, is_running,
                   memVars, netVars>>

\* pthread_mutex_unlock(), then the choice between export and silence.
FlushUnlock ==
    /\ FlushGoto("unlock", IF table_to_export # NULL THEN "send" ELSE "sleep")
    /\ mutex' = "free"
    /\ UNCHANGED <<mainVars, table_to_export, tables, active_idx, is_running,
                   memVars, netVars>>

\* librdkafka counts a message until its delivery report is served.
QueueFull == Cardinality(outq) + Cardinality(drq) >= QueueCap

\* The flow stays in the table after it has been sent.
FreeFlowForgotten(t, k) == UNCHANGED <<heap, table_to_export>>

\* HASH_DEL and free() of one flow; the head pointer is NULL after the last.
FreeFlow(t, k) ==
    /\ heap' = [heap EXCEPT ![t][k] = {}]
    /\ table_to_export' = IF \E j \in Keys \ {k} : heap[t][j] # {} THEN t ELSE NULL

\* One turn of the HASH_ITER loop of kafka_client_send_flows(): the flow is
\* serialised and given to rd_kafka_producev(), whose failure when the queue
\* is full is not looked at; then the flow is removed and freed.
ProduceFlow(k) ==
    /\ ProcessUp /\ flushPc = "send" /\ table_to_export # NULL
    /\ heap[table_to_export][k] # {}
    /\ LET m == [key |-> k, pkts |-> heap[table_to_export][k]]
       IN  IF QueueFull
           THEN lost' = lost \cup {m} /\ UNCHANGED outq
           ELSE outq' = outq \cup {m} /\ UNCHANGED lost
    /\ FreeFlow(table_to_export, k)
    /\ UNCHANGED <<mainVars, flushPc, ctxVars, counted, drq, delivered, wire, topic>>

\* rd_kafka_poll(0) after the loop.
PollReports ==
    /\ table_to_export = NULL
    /\ FlushGoto("send", "flush")
    /\ ServeReports
    /\ UNCHANGED <<mainVars, table_to_export, ctxVars, memVars, outq, wire, topic, lost>>

\* rd_kafka_flush(500) serves reports while it waits ...
FlushServe ==
    /\ FlushGoto("flush", "flush")
    /\ drq # {}
    /\ ServeReports
    /\ UNCHANGED <<mainVars, table_to_export, ctxVars, memVars, outq, wire, topic, lost>>

\* ... returns when nothing is outstanding ...
FlushDrained ==
    /\ outq = {} /\ drq = {}
    /\ FlushGoto("flush", "sleep")
    /\ UNCHANGED <<mainVars, table_to_export, ctxVars, memVars, netVars>>

\* ... or after 500 ms whatever is outstanding; the result is not looked at.
FlushTimeout ==
    /\ outq \cup {d.msg : d \in drq} # {}
    /\ FlushGoto("flush", "sleep")
    /\ UNCHANGED <<mainVars, table_to_export, ctxVars, memVars, netVars>>

\* Sleeps through its ticks until the shutdown.
WakeAtShutdown ==
    /\ is_running = 0
    /\ FlushGoto("sleep", "check")
    /\ UNCHANGED <<mainVars, table_to_export, ctxVars, memVars, netVars>>

\* clock_nanosleep() until the next tick.
Wake ==
    /\ FlushGoto("sleep", "check")
    /\ UNCHANGED <<mainVars, table_to_export, ctxVars, memVars, netVars>>

-----------------------------------------------------------------------------
(* librdkafka's own threads, the network and the broker (external).        *)

Report(m, err) == drq' = drq \cup {[msg |-> m, err |-> err]}

\* With acks=0 a message is reported delivered once it is on the socket.
Transmit(m) ==
    /\ ProcessUp
    /\ outq' = outq \ {m}
    /\ wire' = wire \cup {m}
    /\ Report(m, 0)
    /\ UNCHANGED <<mainVars, flushVars, ctxVars, memVars, delivered, topic, lost>>

\* message.timeout.ms passes before the message could be sent.
Expire(m) ==
    /\ ProcessUp
    /\ outq' = outq \ {m}
    /\ lost' = lost \cup {m}
    /\ Report(m, 1)
    /\ UNCHANGED <<mainVars, flushVars, ctxVars, memVars, delivered, wire, topic>>

\* The broker appends the message, or it dies with its connection.
BrokerAppend(m) ==
    /\ wire' = wire \ {m}
    /\ topic' = topic \cup {m}
    /\ UNCHANGED <<mainVars, flushVars, ctxVars, memVars, outq, drq, delivered, lost>>

ConnectionLoses(m) ==
    /\ wire' = wire \ {m}
    /\ lost' = lost \cup {m}
    /\ UNCHANGED <<mainVars, flushVars, ctxVars, memVars, outq, drq, delivered, topic>>

-----------------------------------------------------------------------------

MainStep ==
    \/ SpawnFlushWorker \/ StartCapture
    \/ CaptureLock \/ LocateTable \/ FlowProcessPacket \/ CaptureUnlock
    \/ PcapBreak \/ StopFlush \/ JoinFlush \/ CleanupServe \/ CleanupDestroy

\* Failures and inputs: nothing makes them happen.
Environment ==
    \/ KafkaInitFails \/ SpawnFails \/ PcapSetupFails
    \/ FlowCreateFails \/ PcapError
    \/ SigintDefault \/ Sigint \/ SigintAfterClose
    \/ \E p \in Packets, k \in Keys : PktHandler(p, k)

FlushStep ==
    \/ FlushCheck \/ FlushLock
    \/ TakeTable \/ FlipIndex \/ ResetTable \/ FlushUnlock
    \/ \E k \in Keys : ProduceFlow(k)
    \/ PollReports \/ FlushServe \/ FlushDrained \/ FlushTimeout \/ Wake

NetworkStep ==
    \/ \E m \in outq : Transmit(m) \/ Expire(m)
    \/ \E m \in wire : BrokerAppend(m) \/ ConnectionLoses(m)

\* The process is gone and no message is under way.
Terminated ==
    /\ ~ProcessUp
    /\ wire = {}
    /\ UNCHANGED vars

Next == MainStep \/ Environment \/ FlushStep \/ NetworkStep \/ Terminated

Spec == Init /\ [][Next]_vars

\* Both threads are scheduled as long as they can run.  The capture thread
\* holds the mutex for one hash-table update at a time, so a thread that
\* waits for the mutex gets it in the end.  Nothing is assumed about the
\* network, the broker, the traffic or the signals.
FairSpec ==
    /\ Spec
    /\ WF_vars(MainStep) /\ SF_vars(CaptureLock)
    /\ WF_vars(FlushStep) /\ SF_vars(FlushLock)

-----------------------------------------------------------------------------
(* Invariants.                                                             *)

MessageSet == SUBSET Message

TypeOK ==
    /\ mainPc \in MainPcs /\ rc \in {"none", "success", "failure"}
    /\ handle \in {"null", "open", "closed"} /\ break_loop \in {0, 1}
    /\ pkt \in [id : Packets, key : Keys] \cup {NULL} /\ slot \in {0, 1}
    /\ flushPc \in FlushPcs /\ table_to_export \in Tables \cup {NULL}
    /\ mutex \in {"free", "main", "flush"}
    /\ tables \in [{0, 1} -> Tables \cup {NULL}]
    /\ active_idx \in {0, 1} /\ is_running \in {0, 1}
    /\ heap \in [Tables -> [Keys -> SUBSET Packets]] /\ counted \in SUBSET Packets
    /\ outq \in MessageSet /\ drq \in SUBSET [msg : Message, err : {0, 1}]
    /\ delivered \in MessageSet /\ wire \in MessageSet
    /\ topic \in MessageSet /\ lost \in MessageSet

ActiveTable == tables[active_idx]

\* Between taking the table and clearing the other slot the flush thread
\* alone knows where the flows are.
Swapping == flushPc \in {"flip", "reset"}

Owned == {table_to_export} \cup (IF Swapping THEN {} ELSE {ActiveTable})

(***************************************************************************)
(* No use after free, no leak, no sharing: the tables that hold flows are  *)
(* exactly those the active slot and the flush thread point to (main.c     *)
(* lines 53-57, parser.c's locked section), and these are two different    *)
(* tables.  The pointer left in the inactive slot dangles after the export *)
(* has freed its flows; this holds because it is cleared before use.       *)
(***************************************************************************)
TableOwnership ==
    /\ \A t \in Tables : Live(t) <=> t \in Owned
    /\ table_to_export # NULL /\ ~Swapping => table_to_export # ActiveTable

\* Every place a packet's contribution can be: a flow of a table or a message.
Places(p) ==
    {<<"table", c>> : c \in {d \in Tables \X Keys : p \in heap[d[1]][d[2]]}}
    \cup {<<"outq", m>>  : m \in {n \in outq  : p \in n.pkts}}
    \cup {<<"wire", m>>  : m \in {n \in wire  : p \in n.pkts}}
    \cup {<<"topic", m>> : m \in {n \in topic : p \in n.pkts}}
    \cup {<<"lost", m>>  : m \in {n \in lost  : p \in n.pkts}}

(***************************************************************************)
(* Every packet the capture thread has aggregated is in exactly one flow   *)
(* or in exactly one message, and no other packet is: swapping the tables, *)
(* exporting and freeing flows neither drops nor duplicates traffic.       *)
(***************************************************************************)
PacketConservation ==
    \A p \in Packets :
        /\ p \in counted <=> Places(p) # {}
        /\ \A x, y \in Places(p) : x = y

(***************************************************************************)
(* The mutex and the producer outlive their users: from                    *)
(* pthread_mutex_destroy() and kafka_client_cleanup() on (main.c 211-217   *)
(* and 222-228), the flush thread never ran or has ended, and nobody holds *)
(* the mutex.                                                              *)
(***************************************************************************)
ResourcesOutliveThreads ==
    mainPc \in {"cleanup", "exited"} =>
        /\ flushPc \in {"off", "done"}
        /\ mutex = "free"

-----------------------------------------------------------------------------
(* Refinement.                                                             *)

\* The window in capture: nothing while the tables are being swapped.
CurrentFlows ==
    IF Swapping \/ ActiveTable = NULL THEN EmptyTable ELSE heap[ActiveTable]

ClosingFlows ==
    IF table_to_export = NULL THEN EmptyTable ELSE heap[table_to_export]

Window == INSTANCE WindowExport
            WITH current <- CurrentFlows, closing <- ClosingFlows,
                 emitted <- outq \cup wire \cup topic \cup lost

(***************************************************************************)
(* The two threads, the mutex and the double buffer implement an atomic    *)
(* change of window: no exported flow mixes packets of two windows, no     *)
(* flow is exported in parts, and reading the active table (main.c line    *)
(* 54) is the moment the window closes.                                    *)
(***************************************************************************)
ImplementsWindowExport == Window!Spec

-----------------------------------------------------------------------------
(* Liveness.                                                               *)

\* Ctrl+C during capture ends the process: handle_sigint, pcap_loop, the
\* is_running flag, pthread_join and both rd_kafka_flush calls never block it
\* for good, whatever the brokers do.
SigintEndsProcess == break_loop = 1 ~> ~ProcessUp

InTable(p) == \E t \in Tables, k \in Keys : p \in heap[t][k]

\* A packet that was aggregated leaves the tables for the producer, unless
\* the process begins to shut down first (flush_worker's loop, main.c 49-68).
PacketsLeaveTables ==
    \A p \in Packets : InTable(p) ~> (~InTable(p) \/ is_running = 0 \/ ~ProcessUp)

-----------------------------------------------------------------------------
(* What the documentation and the comments say, which the code does not do. *)

\* main.c line 209: after the capture ends the shutdown is graceful, so no
\* captured flow is left unexported by a process that ended successfully.
GracefulShutdownExports ==
    mainPc = "exited" /\ rc = "success" => \A t \in Tables : ~Live(t)

\* main.c line 34: Ctrl+C ends the capture peacefully, also a second one
\* that arrives while main() is shutting down.
PeacefulShutdown ==
    [][break_loop = 1 /\ mainPc \in {"stop", "join", "cleanup"} => mainPc' # "aborted"]_vars
=============================================================================
