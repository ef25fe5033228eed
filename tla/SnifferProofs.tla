--------------------------- MODULE SnifferProofs ---------------------------
(* Proofs that the properties of Sniffer hold for every set of packets,    *)
(* keys and table addresses and every capacity of the producer's queue.    *)
EXTENDS Sniffer, TLAPS

\* The capture thread has a packet in hand from pkt_handler's lock to its
\* unlock; flow_process_packet() reads it in between.
PacketInHand ==
    mainPc \in {"lock", "locate", "update", "unlock"} => pkt \in [id : Packets, key : Keys]

TypeInv == TypeOK /\ PacketInHand

Heap == [Tables -> [Keys -> SUBSET Packets]]

(* flow_process_packet() puts the packet in one flow of one table, which is *)
(* the one of the slot or, if there is none, one that holds no flow.        *)
LEMMA FlowStored ==
    ASSUME TypeOK, pkt \in [id : Packets, key : Keys], FlowProcessPacket
    PROVE  \E t \in Tables :
             /\ tables[slot] = t \/ (tables[slot] = NULL /\ ~Live(t))
             /\ tables' = [tables EXCEPT ![slot] = t]
             /\ heap' = [heap EXCEPT ![t][pkt.key] = heap[t][pkt.key] \cup {pkt.id}]
<1>1. CASE tables[slot] = NULL
  <2>1. tables[slot] \notin Tables
    BY <1>1, SnifferAssumptions
  <2>2. PICK t \in Tables :
          /\ ~Live(t)
          /\ tables' = [tables EXCEPT ![slot] = t]
          /\ heap' = [heap EXCEPT ![t][pkt.key] = {pkt.id}]
    BY <1>1 DEF FlowProcessPacket
  <2>3. heap[t][pkt.key] \cup {pkt.id} = {pkt.id}
    BY <2>2 DEF Live
  <2> QED
    BY <1>1, <2>2, <2>3
<1>2. CASE tables[slot] # NULL
  <2>1. tables[slot] \in Tables
    BY <1>2 DEF TypeOK
  <2>2. heap' = [heap EXCEPT ![tables[slot]][pkt.key]
                             = heap[tables[slot]][pkt.key] \cup {pkt.id}]
    BY <1>2, <2>1 DEF FlowProcessPacket, TypeOK
  <2>3. tables' = [tables EXCEPT ![slot] = tables[slot]]
    BY <1>2 DEF FlowProcessPacket, TypeOK
  <2> QED
    BY <2>1, <2>2, <2>3
<1> QED
  BY <1>1, <1>2

LEMMA MainStepType == TypeInv /\ MainStep => TypeInv'
<1> SUFFICES ASSUME TypeInv, MainStep PROVE TypeInv'
  OBVIOUS
<1> USE DEF TypeInv, TypeOK, PacketInHand, MainPcs, FlushPcs, MessageSet,
            mainVars, flushVars, ctxVars, memVars, netVars, MainGoto
<1>1. CASE SpawnFlushWorker
  BY <1>1 DEF SpawnFlushWorker
<1>2. CASE StartCapture
  BY <1>2 DEF StartCapture
<1>3. CASE CaptureLock
  BY <1>3 DEF CaptureLock
<1>4. CASE LocateTable
  BY <1>4 DEF LocateTable
<1>5. CASE FlowProcessPacket
  <2>1. pkt \in [id : Packets, key : Keys]
    BY <1>5 DEF FlowProcessPacket
  <2>2. PICK t \in Tables :
          /\ tables' = [tables EXCEPT ![slot] = t]
          /\ heap' = [heap EXCEPT ![t][pkt.key] = heap[t][pkt.key] \cup {pkt.id}]
    BY <1>5, <2>1, FlowStored
  <2>3. /\ heap' \in [Tables -> [Keys -> SUBSET Packets]]
        /\ tables' \in [{0, 1} -> Tables \cup {NULL}]
    BY <2>1, <2>2
  <2>4. /\ mainPc' = "unlock" /\ counted' = counted \cup {pkt.id}
        /\ UNCHANGED <<rc, handle, break_loop, pkt, slot, flushVars,
                       mutex, active_idx, is_running, netVars>>
    BY <1>5 DEF FlowProcessPacket
  <2> QED
    BY <2>1, <2>3, <2>4
<1>6. CASE CaptureUnlock
  BY <1>6 DEF CaptureUnlock
<1>7. CASE PcapBreak
  BY <1>7 DEF PcapBreak
<1>8. CASE StopFlush
  BY <1>8 DEF StopFlush
<1>9. CASE JoinFlush
  BY <1>9 DEF JoinFlush
<1>10. CASE CleanupServe
  BY <1>10 DEF CleanupServe, ServeReports
<1>11. CASE CleanupDestroy
  BY <1>11 DEF CleanupDestroy
<1> QED
  BY <1>1, <1>2, <1>3, <1>4, <1>5, <1>6, <1>7, <1>8, <1>9, <1>10, <1>11 DEF MainStep

LEMMA EnvironmentType == TypeInv /\ Environment => TypeInv'
<1> SUFFICES ASSUME TypeInv, Environment PROVE TypeInv'
  OBVIOUS
<1> USE DEF TypeInv, TypeOK, PacketInHand, MainPcs, FlushPcs, MessageSet,
            mainVars, flushVars, ctxVars, memVars, netVars, MainGoto
<1>1. CASE KafkaInitFails
  BY <1>1 DEF KafkaInitFails
<1>2. CASE SpawnFails
  BY <1>2 DEF SpawnFails
<1>3. CASE PcapSetupFails
  BY <1>3 DEF PcapSetupFails
<1>4. CASE FlowCreateFails
  BY <1>4 DEF FlowCreateFails
<1>5. CASE PcapError
  BY <1>5 DEF PcapError
<1>6. CASE SigintDefault
  BY <1>6 DEF SigintDefault
<1>7. CASE Sigint
  BY <1>7 DEF Sigint
<1>8. CASE SigintAfterClose
  BY <1>8 DEF SigintAfterClose
<1>9. CASE \E p \in Packets, k \in Keys : PktHandler(p, k)
  BY <1>9 DEF PktHandler
<1> QED
  BY <1>1, <1>2, <1>3, <1>4, <1>5, <1>6, <1>7, <1>8, <1>9 DEF Environment

LEMMA FlushStepType == TypeInv /\ FlushStep => TypeInv'
<1> SUFFICES ASSUME TypeInv, FlushStep PROVE TypeInv'
  OBVIOUS
<1> USE DEF TypeInv, TypeOK, PacketInHand, MainPcs, FlushPcs, MessageSet,
            mainVars, flushVars, ctxVars, memVars, netVars, FlushGoto
<1>1. CASE FlushCheck
  BY <1>1 DEF FlushCheck
<1>2. CASE FlushLock
  BY <1>2 DEF FlushLock
<1>3. CASE TakeTable
  BY <1>3 DEF TakeTable
<1>4. CASE FlipIndex
  BY <1>4 DEF FlipIndex
<1>5. CASE ResetTable
  BY <1>5 DEF ResetTable
<1>6. CASE FlushUnlock
  BY <1>6 DEF FlushUnlock
<1>7. ASSUME NEW k \in Keys, ProduceFlow(k) PROVE TypeInv'
  <2>1. table_to_export \in Tables
    BY <1>7 DEF ProduceFlow
  <2>2. [key |-> k, pkts |-> heap[table_to_export][k]] \in Message
    BY <2>1 DEF Message
  <2>3. outq' \in MessageSet /\ lost' \in MessageSet
    BY <1>7, <2>2 DEF ProduceFlow
  <2>4. /\ heap' \in [Tables -> [Keys -> SUBSET Packets]]
        /\ table_to_export' \in Tables \cup {NULL}
    BY <1>7, <2>1 DEF ProduceFlow, FreeFlow
  <2>5. UNCHANGED <<mainVars, flushPc, ctxVars, counted, drq, delivered, wire, topic>>
    BY <1>7 DEF ProduceFlow
  <2> QED
    BY <2>3, <2>4, <2>5
<1>8. CASE PollReports
  BY <1>8 DEF PollReports, ServeReports
<1>9. CASE FlushServe
  BY <1>9 DEF FlushServe, ServeReports
<1>10. CASE FlushDrained
  BY <1>10 DEF FlushDrained
<1>11. CASE FlushTimeout
  BY <1>11 DEF FlushTimeout
<1>12. CASE Wake
  BY <1>12 DEF Wake
<1> QED
  BY <1>1, <1>2, <1>3, <1>4, <1>5, <1>6, <1>7, <1>8, <1>9, <1>10, <1>11, <1>12
     DEF FlushStep

LEMMA NetworkStepType == TypeInv /\ NetworkStep => TypeInv'
<1> SUFFICES ASSUME TypeInv, NetworkStep PROVE TypeInv'
  OBVIOUS
<1> USE DEF TypeInv, TypeOK, PacketInHand, MessageSet,
            mainVars, flushVars, ctxVars, memVars, netVars
<1>1. ASSUME NEW m \in outq, Transmit(m) PROVE TypeInv'
  BY <1>1 DEF Transmit, Report
<1>2. ASSUME NEW m \in outq, Expire(m) PROVE TypeInv'
  BY <1>2 DEF Expire, Report
<1>3. ASSUME NEW m \in wire, BrokerAppend(m) PROVE TypeInv'
  BY <1>3 DEF BrokerAppend
<1>4. ASSUME NEW m \in wire, ConnectionLoses(m) PROVE TypeInv'
  BY <1>4 DEF ConnectionLoses
<1> QED
  BY <1>1, <1>2, <1>3, <1>4 DEF NetworkStep

LEMMA TypeInvInductive == TypeInv /\ [Next]_vars => TypeInv'
<1> SUFFICES ASSUME TypeInv, [Next]_vars PROVE TypeInv'
  OBVIOUS
<1>1. CASE UNCHANGED vars
  BY <1>1 DEF TypeInv, TypeOK, PacketInHand, vars,
              mainVars, flushVars, ctxVars, memVars, netVars
<1>2. CASE Terminated
  BY <1>1, <1>2 DEF Terminated
<1> QED
  BY <1>1, <1>2, MainStepType, EnvironmentType, FlushStepType, NetworkStepType DEF Next

LEMMA TypeInvInit == Init => TypeInv
BY DEF Init, TypeInv, TypeOK, PacketInHand, MainPcs, FlushPcs, MessageSet, EmptyTable

(***************************************************************************)
(* Type correctness: the C pointers, indices, flags and queues of the      *)
(* sniffer keep their types in every reachable state.                      *)
(***************************************************************************)
THEOREM TypeCorrect == Spec => []TypeOK
<1>1. TypeInv => TypeOK
  BY DEF TypeInv
<1> QED
  BY <1>1, TypeInvInit, TypeInvInductive, PTL DEF Spec

-----------------------------------------------------------------------------
(* The threads, the mutex and the pointers they hold.                       *)

\* Who holds the mutex is where the program text says.
MutexInv ==
    /\ mainPc \in {"locate", "update", "unlock"} => mutex = "main"
    /\ mutex = "main" => mainPc \in {"locate", "update", "unlock", "aborted"}
    /\ flushPc \in {"take", "flip", "reset", "unlock"} <=> mutex = "flush"

\* The flush thread starts after init, and has ended when main cleans up.
ThreadInv ==
    /\ mainPc = "init" => flushPc = "off"
    /\ mainPc \in {"cleanup", "exited"} => flushPc \in {"off", "done"}

\* The pcap handle: open from StartCapture to pcap_close().
HandleInv ==
    /\ handle = "null" =>
         mainPc \in {"init", "spawned", "stop", "join", "cleanup", "exited", "aborted"}
    /\ handle = "closed" => mainPc \in {"cleanup", "exited", "aborted"}

\* The pointers the threads hold on to: table_ptr is the active slot while it
\* is used; the flush thread has a table only between taking and sending it.
PointerInv ==
    /\ mainPc = "update" => slot = active_idx
    /\ flushPc \notin {"flip", "reset", "unlock", "send"} => table_to_export = NULL
    /\ flushPc = "flip" => table_to_export = ActiveTable

ControlInv == TypeInv /\ MutexInv /\ ThreadInv /\ HandleInv /\ PointerInv

LEMMA MainStepControl == ControlInv /\ MainStep => ControlInv'
<1> SUFFICES ASSUME ControlInv, MainStep PROVE ControlInv'
  OBVIOUS
<1>0. TypeInv /\ TypeInv'
  BY MainStepType DEF ControlInv
<1> USE DEF ControlInv, MutexInv, ThreadInv, HandleInv, PointerInv, ActiveTable,
            TypeInv, TypeOK, MainPcs, FlushPcs,
            mainVars, flushVars, ctxVars, MainGoto
<1>1. CASE SpawnFlushWorker
  BY <1>0, <1>1 DEF SpawnFlushWorker
<1>2. CASE StartCapture
  BY <1>0, <1>2 DEF StartCapture
<1>3. CASE CaptureLock
  BY <1>0, <1>3 DEF CaptureLock
<1>4. CASE LocateTable
  BY <1>0, <1>4 DEF LocateTable
<1>5. CASE FlowProcessPacket
  BY <1>0, <1>5 DEF FlowProcessPacket
<1>6. CASE CaptureUnlock
  BY <1>0, <1>6 DEF CaptureUnlock
<1>7. CASE PcapBreak
  BY <1>0, <1>7 DEF PcapBreak
<1>8. CASE StopFlush
  BY <1>0, <1>8 DEF StopFlush
<1>9. CASE JoinFlush
  BY <1>0, <1>9 DEF JoinFlush
<1>10. CASE CleanupServe
  BY <1>0, <1>10 DEF CleanupServe
<1>11. CASE CleanupDestroy
  BY <1>0, <1>11 DEF CleanupDestroy
<1> QED
  BY <1>1, <1>2, <1>3, <1>4, <1>5, <1>6, <1>7, <1>8, <1>9, <1>10, <1>11 DEF MainStep

LEMMA EnvironmentControl == ControlInv /\ Environment => ControlInv'
<1> SUFFICES ASSUME ControlInv, Environment PROVE ControlInv'
  OBVIOUS
<1>0. TypeInv /\ TypeInv'
  BY EnvironmentType DEF ControlInv
<1> USE DEF ControlInv, MutexInv, ThreadInv, HandleInv, PointerInv, ActiveTable,
            TypeInv, TypeOK, MainPcs, FlushPcs, ProcessUp,
            mainVars, flushVars, ctxVars, MainGoto
<1>1. CASE KafkaInitFails
  BY <1>0, <1>1 DEF KafkaInitFails
<1>2. CASE SpawnFails
  BY <1>0, <1>2 DEF SpawnFails
<1>3. CASE PcapSetupFails
  BY <1>0, <1>3 DEF PcapSetupFails
<1>4. CASE FlowCreateFails
  BY <1>0, <1>4 DEF FlowCreateFails
<1>5. CASE PcapError
  BY <1>0, <1>5 DEF PcapError
<1>6. CASE SigintDefault
  BY <1>0, <1>6 DEF SigintDefault
<1>7. CASE Sigint
  BY <1>0, <1>7 DEF Sigint
<1>8. CASE SigintAfterClose
  BY <1>0, <1>8 DEF SigintAfterClose
<1>9. CASE \E p \in Packets, k \in Keys : PktHandler(p, k)
  BY <1>0, <1>9 DEF PktHandler
<1> QED
  BY <1>1, <1>2, <1>3, <1>4, <1>5, <1>6, <1>7, <1>8, <1>9 DEF Environment

LEMMA FlushStepControl == ControlInv /\ FlushStep => ControlInv'
<1> SUFFICES ASSUME ControlInv, FlushStep PROVE ControlInv'
  OBVIOUS
<1>0. TypeInv /\ TypeInv'
  BY FlushStepType DEF ControlInv
<1> USE DEF ControlInv, MutexInv, ThreadInv, HandleInv, PointerInv, ActiveTable,
            TypeInv, TypeOK, MainPcs, FlushPcs, ProcessUp,
            mainVars, flushVars, ctxVars, FlushGoto
<1>1. CASE FlushCheck
  BY <1>0, <1>1 DEF FlushCheck
<1>2. CASE FlushLock
  BY <1>0, <1>2 DEF FlushLock
<1>3. CASE TakeTable
  BY <1>0, <1>3 DEF TakeTable
<1>4. CASE FlipIndex
  BY <1>0, <1>4 DEF FlipIndex
<1>5. CASE ResetTable
  BY <1>0, <1>5 DEF ResetTable
<1>6. CASE FlushUnlock
  BY <1>0, <1>6 DEF FlushUnlock
<1>7. ASSUME NEW k \in Keys, ProduceFlow(k) PROVE ControlInv'
  BY <1>0, <1>7 DEF ProduceFlow
<1>8. CASE PollReports
  BY <1>0, <1>8 DEF PollReports
<1>9. CASE FlushServe
  BY <1>0, <1>9 DEF FlushServe
<1>10. CASE FlushDrained
  BY <1>0, <1>10 DEF FlushDrained
<1>11. CASE FlushTimeout
  BY <1>0, <1>11 DEF FlushTimeout
<1>12. CASE Wake
  BY <1>0, <1>12 DEF Wake
<1> QED
  BY <1>1, <1>2, <1>3, <1>4, <1>5, <1>6, <1>7, <1>8, <1>9, <1>10, <1>11, <1>12 DEF FlushStep

LEMMA NetworkStepControl == ControlInv /\ NetworkStep => ControlInv'
<1> SUFFICES ASSUME ControlInv, NetworkStep PROVE ControlInv'
  OBVIOUS
<1>1. TypeInv'
  BY NetworkStepType DEF ControlInv
<1>2. UNCHANGED <<mainVars, flushVars, ctxVars>>
  BY DEF NetworkStep, Transmit, Expire, BrokerAppend, ConnectionLoses
<1> QED
  BY <1>1, <1>2 DEF ControlInv, MutexInv, ThreadInv, HandleInv, PointerInv, ActiveTable,
                    mainVars, flushVars, ctxVars

LEMMA ControlInvInductive == ControlInv /\ [Next]_vars => ControlInv'
<1> SUFFICES ASSUME ControlInv, [Next]_vars PROVE ControlInv'
  OBVIOUS
<1>1. CASE UNCHANGED vars
  <2>1. TypeInv'
    BY <1>1, TypeInvInductive DEF ControlInv
  <2> QED
    BY <1>1, <2>1 DEF ControlInv, MutexInv, ThreadInv, HandleInv, PointerInv, ActiveTable,
                      vars, mainVars, flushVars, ctxVars
<1>2. CASE Terminated
  BY <1>1, <1>2 DEF Terminated
<1> QED
  BY <1>1, <1>2, MainStepControl, EnvironmentControl, FlushStepControl,
     NetworkStepControl DEF Next

LEMMA ControlInvInit == Init => ControlInv
BY TypeInvInit DEF Init, ControlInv, MutexInv, ThreadInv, HandleInv, PointerInv

(***************************************************************************)
(* main() destroys the mutex and the producer only when the flush thread   *)
(* is not there any more and nobody holds the mutex.                       *)
(***************************************************************************)
THEOREM ResourceSafety == Spec => []ResourcesOutliveThreads
<1>1. ControlInv => ResourcesOutliveThreads
  BY DEF ControlInv, TypeInv, TypeOK, MutexInv, ThreadInv, ResourcesOutliveThreads
<1> QED
  BY <1>1, ControlInvInit, ControlInvInductive, PTL DEF Spec

-----------------------------------------------------------------------------
(* Table ownership.                                                         *)

(* A step that moves no pointer, frees no flow and stays on its side of the *)
(* swap keeps the ownership of the tables.                                  *)
LEMMA OwnershipUntouched ==
    ASSUME TableOwnership, UNCHANGED <<heap, tables, active_idx, table_to_export>>,
           Swapping' = Swapping
    PROVE  TableOwnership'
BY DEF TableOwnership, Live, Owned, ActiveTable

LEMMA MainStepOwnership == ControlInv /\ TableOwnership /\ MainStep => TableOwnership'
<1> SUFFICES ASSUME ControlInv, TableOwnership, MainStep PROVE TableOwnership'
  OBVIOUS
<1>1. CASE FlowProcessPacket
  <2>1. /\ TypeOK /\ pkt \in [id : Packets, key : Keys] /\ slot = active_idx
        /\ ~Swapping /\ heap \in Heap
    BY <1>1 DEF FlowProcessPacket, MainGoto, ControlInv, TypeInv, TypeOK, PacketInHand,
                MutexInv, PointerInv, Swapping, Heap
  <2>2. PICK t \in Tables :
          /\ ActiveTable = t \/ (ActiveTable = NULL /\ ~Live(t))
          /\ tables' = [tables EXCEPT ![active_idx] = t]
          /\ heap' = [heap EXCEPT ![t][pkt.key] = heap[t][pkt.key] \cup {pkt.id}]
    BY <1>1, <2>1, FlowStored DEF ActiveTable
  <2>3. active_idx' = active_idx /\ table_to_export' = table_to_export /\ ~Swapping'
    BY <1>1, <2>1 DEF FlowProcessPacket, flushVars, Swapping
  <2>4. ActiveTable' = t
    BY <2>1, <2>2, <2>3 DEF ActiveTable, TypeOK
  <2>5. \A u \in Tables, j \in Keys :
          heap'[u][j] = IF u = t /\ j = pkt.key THEN heap[t][pkt.key] \cup {pkt.id}
                                                ELSE heap[u][j]
    <3>1. heap[t][pkt.key] \cup {pkt.id} \in SUBSET Packets
      BY <2>1 DEF Heap
    <3> QED
      BY <2>1, <2>2, <3>1 DEF Heap
  <2>6. Live(t)' /\ \A u \in Tables \ {t} : Live(u)' <=> Live(u)
    BY <2>1, <2>5 DEF Live
  <2>7. table_to_export # t
    BY <2>1, <2>2, SnifferAssumptions DEF TableOwnership, Owned
  <2>8. \A u \in Tables \ {t} : u \in Owned' <=> u \in Owned
    BY <2>1, <2>2, <2>3, <2>4, SnifferAssumptions DEF Owned
  <2>9. t \in Owned'
    BY <2>3, <2>4 DEF Owned
  <2> QED
    BY <2>3, <2>4, <2>6, <2>7, <2>8, <2>9 DEF TableOwnership
<1>2. CASE SpawnFlushWorker
  <2>1. Swapping' = Swapping
    BY <1>2 DEF SpawnFlushWorker, MainGoto, ControlInv, ThreadInv, Swapping
  <2> QED
    BY <1>2, <2>1, OwnershipUntouched DEF SpawnFlushWorker, ctxVars, memVars
<1>3. CASE \/ StartCapture \/ CaptureLock \/ LocateTable \/ CaptureUnlock \/ PcapBreak
           \/ StopFlush \/ JoinFlush \/ CleanupServe \/ CleanupDestroy
  <2>1. UNCHANGED <<heap, tables, active_idx, table_to_export, flushPc>>
    BY <1>3 DEF StartCapture, CaptureLock, LocateTable, CaptureUnlock, PcapBreak, StopFlush,
                JoinFlush, CleanupServe, CleanupDestroy, ctxVars, memVars, flushVars
  <2> QED
    BY <2>1, OwnershipUntouched DEF Swapping
<1> QED
  BY <1>1, <1>2, <1>3 DEF MainStep

LEMMA EnvironmentOwnership == TableOwnership /\ Environment => TableOwnership'
<1> SUFFICES ASSUME TableOwnership, Environment PROVE TableOwnership'
  OBVIOUS
<1>1. UNCHANGED <<heap, tables, active_idx, table_to_export, flushPc>>
  BY DEF Environment, KafkaInitFails, SpawnFails, PcapSetupFails, FlowCreateFails, PcapError,
         SigintDefault, Sigint, SigintAfterClose, PktHandler, flushVars, ctxVars, memVars
<1> QED
  BY <1>1, OwnershipUntouched DEF Swapping

LEMMA FlushStepOwnership == ControlInv /\ TableOwnership /\ FlushStep => TableOwnership'
<1> SUFFICES ASSUME ControlInv, TableOwnership, FlushStep PROVE TableOwnership'
  OBVIOUS
<1>0. TypeOK /\ NULL \notin Tables
  BY SnifferAssumptions DEF ControlInv, TypeInv
<1>1. CASE TakeTable
  <2>1. /\ table_to_export = NULL /\ table_to_export' = ActiveTable
        /\ ~Swapping /\ Swapping' /\ UNCHANGED heap
    BY <1>1 DEF TakeTable, FlushGoto, ControlInv, PointerInv, ActiveTable, Swapping, memVars
  <2> QED
    BY <1>0, <2>1 DEF TableOwnership, Owned, Live
<1>2. CASE FlipIndex
  <2>1. Swapping /\ Swapping' /\ UNCHANGED <<heap, table_to_export>>
    BY <1>2 DEF FlipIndex, FlushGoto, Swapping, memVars
  <2> QED
    BY <2>1 DEF TableOwnership, Owned, Live
<1>3. CASE ResetTable
  <2>1. /\ Swapping /\ ~Swapping' /\ UNCHANGED <<heap, table_to_export>>
        /\ ActiveTable' = NULL
    BY <1>0, <1>3 DEF ResetTable, FlushGoto, Swapping, memVars, ActiveTable, TypeOK
  <2> QED
    BY <1>0, <2>1 DEF TableOwnership, Owned, Live
<1>4. ASSUME NEW k \in Keys, ProduceFlow(k) PROVE TableOwnership'
  <2>1. PICK t \in Tables :
        /\ t = table_to_export /\ heap \in Heap
        /\ ~Swapping /\ ~Swapping' /\ ActiveTable' = ActiveTable
        /\ heap' = [heap EXCEPT ![t][k] = {}]
        /\ table_to_export' = IF \E j \in Keys \ {k} : heap[t][j] # {} THEN t ELSE NULL
    BY <1>0, <1>4 DEF ProduceFlow, FreeFlow, Swapping, TypeOK, Heap, ActiveTable, ctxVars
  <2>2. \A u \in Tables, j \in Keys :
          heap'[u][j] = IF u = t /\ j = k THEN {} ELSE heap[u][j]
    BY <2>1 DEF Heap
  <2>3. \A u \in Tables \ {t} : Live(u)' <=> Live(u)
    BY <2>1, <2>2 DEF Live
  <2>4. Live(t)' <=> table_to_export' = t
    BY <1>0, <2>1, <2>2 DEF Live
  <2>5. ActiveTable # t
    BY <1>0, <2>1 DEF TableOwnership
  <2>6. \A u \in Tables : u \in Owned' <=> u \in {table_to_export', ActiveTable}
    BY <2>1 DEF Owned
  <2>7. \A u \in Tables : u \in Owned <=> u \in {t, ActiveTable}
    BY <2>1 DEF Owned
  <2> QED
    BY <1>0, <2>1, <2>3, <2>4, <2>5, <2>6, <2>7 DEF TableOwnership
<1>5. CASE FlushCheck
  <2>1. /\ UNCHANGED <<heap, tables, active_idx, table_to_export>>
        /\ Swapping' = Swapping
    BY <1>5 DEF FlushCheck, FlushGoto, ControlInv, PointerInv, Swapping, ctxVars, memVars
  <2> QED
    BY <2>1, OwnershipUntouched
<1>6. CASE \/ FlushLock \/ FlushUnlock \/ PollReports \/ FlushServe
           \/ FlushDrained \/ FlushTimeout \/ Wake
  <2>1. /\ UNCHANGED <<heap, tables, active_idx, table_to_export>>
        /\ Swapping' = Swapping
    BY <1>6 DEF FlushLock, FlushUnlock, PollReports, FlushServe, FlushDrained, FlushTimeout,
                Wake, FlushGoto, Swapping, ctxVars, memVars
  <2> QED
    BY <2>1, OwnershipUntouched
<1> QED
  BY <1>1, <1>2, <1>3, <1>4, <1>5, <1>6 DEF FlushStep

LEMMA OwnershipInductive == ControlInv /\ TableOwnership /\ [Next]_vars => TableOwnership'
<1> SUFFICES ASSUME ControlInv, TableOwnership, [Next]_vars PROVE TableOwnership'
  OBVIOUS
<1>1. CASE UNCHANGED vars
  BY <1>1, OwnershipUntouched DEF vars, flushVars, ctxVars, memVars, Swapping
<1>2. CASE Terminated
  BY <1>1, <1>2 DEF Terminated
<1>3. CASE NetworkStep
  <2>1. UNCHANGED <<heap, tables, active_idx, table_to_export, flushPc>>
    BY <1>3 DEF NetworkStep, Transmit, Expire, BrokerAppend, ConnectionLoses,
                flushVars, ctxVars, memVars
  <2> QED
    BY <2>1, OwnershipUntouched DEF Swapping
<1> QED
  BY <1>1, <1>2, <1>3, MainStepOwnership, EnvironmentOwnership, FlushStepOwnership DEF Next

LEMMA OwnershipInit == Init => TableOwnership
BY SnifferAssumptions DEF Init, TableOwnership, Live, EmptyTable, Owned, ActiveTable, Swapping

(***************************************************************************)
(* No use after free, no leaked and no shared table, however the capture   *)
(* and the flush thread interleave and whichever freed address the         *)
(* allocator hands out again.                                              *)
(***************************************************************************)
THEOREM MemorySafety == Spec => []TableOwnership
BY ControlInvInit, ControlInvInductive, OwnershipInit, OwnershipInductive, PTL DEF Spec

-----------------------------------------------------------------------------
(* Packet conservation.                                                     *)

Emitted == outq \cup wire \cup topic \cup lost

InMessage(p) == \E m \in Emitted : p \in m.pkts

\* Where the packets are, as a relation between tables, messages and history.
FlowInv ==
    /\ \A p \in Packets : p \in counted <=> InTable(p) \/ InMessage(p)
    /\ \A p \in Packets : ~(InTable(p) /\ InMessage(p))
    /\ \A p \in Packets : \A t, u \in Tables : \A j, k \in Keys :
          p \in heap[t][j] /\ p \in heap[u][k] => t = u /\ j = k
    /\ \A p \in Packets : \A m, n \in Emitted : p \in m.pkts /\ p \in n.pkts => m = n

\* A message is in one stage of its life, and was a flow with a packet.
QueueInv ==
    /\ outq \cap wire = {} /\ outq \cap topic = {} /\ outq \cap lost = {}
    /\ wire \cap topic = {} /\ wire \cap lost = {} /\ topic \cap lost = {}
    /\ \A m \in Emitted : m.pkts # {}

\* The packet pkt_handler has in hand has not been counted before.
FreshInv == mainPc \in {"lock", "locate", "update"} => pkt.id \notin counted

ConservationInv == FlowInv /\ QueueInv /\ FreshInv

LEMMA FlowsUntouched ==
    ASSUME FlowInv, UNCHANGED <<heap, counted>>, Emitted' = Emitted
    PROVE  FlowInv'
BY DEF FlowInv, InTable, InMessage

LEMMA AggregateConserves ==
    ASSUME ControlInv, ConservationInv, FlowProcessPacket
    PROVE  ConservationInv'
<1>1. /\ TypeOK /\ pkt \in [id : Packets, key : Keys] /\ heap \in Heap
      /\ pkt.id \notin counted
  BY DEF ControlInv, TypeInv, TypeOK, PacketInHand, ConservationInv, FreshInv,
         FlowProcessPacket, MainGoto, Heap
<1>2. PICK t \in Tables :
        heap' = [heap EXCEPT ![t][pkt.key] = heap[t][pkt.key] \cup {pkt.id}]
  BY <1>1, FlowStored
<1>3. \A u \in Tables, j \in Keys :
        heap'[u][j] = IF u = t /\ j = pkt.key THEN heap[t][pkt.key] \cup {pkt.id}
                                              ELSE heap[u][j]
  BY <1>1, <1>2 DEF Heap
<1>4. /\ counted' = counted \cup {pkt.id} /\ mainPc' = "unlock"
      /\ UNCHANGED netVars /\ Emitted' = Emitted
  BY DEF FlowProcessPacket, MainGoto, netVars, Emitted
<1>5. ~InTable(pkt.id) /\ ~InMessage(pkt.id)
  BY <1>1 DEF ConservationInv, FlowInv
<1>6. \A p \in Packets : InMessage(p)' <=> InMessage(p)
  BY <1>4 DEF InMessage
<1>7. \A p \in Packets : InTable(p)' <=> InTable(p) \/ p = pkt.id
  BY <1>1, <1>3 DEF InTable
<1>8. ASSUME NEW p \in Packets, NEW u \in Tables, NEW v \in Tables,
             NEW j \in Keys, NEW k \in Keys, p \in heap'[u][j], p \in heap'[v][k]
      PROVE  u = v /\ j = k
  <2>1. CASE p = pkt.id
    BY <1>3, <1>5, <1>8, <2>1 DEF InTable
  <2>2. CASE p # pkt.id
    <3>1. p \in heap[u][j] /\ p \in heap[v][k]
      BY <1>3, <1>8, <2>2
    <3> QED
      BY <3>1 DEF ConservationInv, FlowInv
  <2> QED
    BY <2>1, <2>2
<1>9. FlowInv'
  <2>1. \A p \in Packets : p \in counted' <=> InTable(p)' \/ InMessage(p)'
    BY <1>4, <1>6, <1>7 DEF ConservationInv, FlowInv
  <2>2. \A p \in Packets : ~(InTable(p)' /\ InMessage(p)')
    BY <1>5, <1>6, <1>7 DEF ConservationInv, FlowInv
  <2>3. \A p \in Packets : \A m, n \in Emitted' : p \in m.pkts /\ p \in n.pkts => m = n
    BY <1>4 DEF ConservationInv, FlowInv
  <2> QED
    BY <1>8, <2>1, <2>2, <2>3 DEF FlowInv
<1>10. QueueInv' /\ FreshInv'
  BY <1>4 DEF ConservationInv, QueueInv, FreshInv, netVars
<1> QED
  BY <1>9, <1>10 DEF ConservationInv

LEMMA ProduceConserves ==
    ASSUME ControlInv, ConservationInv, NEW k \in Keys, ProduceFlow(k)
    PROVE  ConservationInv'
<1>1. TypeOK /\ heap \in Heap
  BY DEF ControlInv, TypeInv, TypeOK, Heap
<1>2. PICK t \in Tables : t = table_to_export /\ heap' = [heap EXCEPT ![t][k] = {}]
  BY <1>1 DEF ProduceFlow, FreeFlow, TypeOK
<1>3. PICK m \in {[key |-> k, pkts |-> heap[t][k]]} : m.pkts = heap[t][k]
  OBVIOUS
<1>4. \/ lost' = lost \cup {m} /\ outq' = outq
      \/ outq' = outq \cup {m} /\ lost' = lost
  BY <1>2, <1>3 DEF ProduceFlow
<1>5. heap[t][k] # {} /\ UNCHANGED <<mainVars, counted, wire, topic>>
  BY <1>2 DEF ProduceFlow
<1>6. \A u \in Tables, j \in Keys :
        heap'[u][j] = IF u = t /\ j = k THEN {} ELSE heap[u][j]
  BY <1>1, <1>2 DEF Heap
<1>7. Emitted' = Emitted \cup {m}
  BY <1>4, <1>5 DEF Emitted
<1>8. \A p \in Packets : p \in m.pkts => InTable(p) /\ ~InMessage(p)
  BY <1>3 DEF ConservationInv, FlowInv, InTable
<1>9. \A p \in Packets : InMessage(p)' <=> InMessage(p) \/ p \in m.pkts
  BY <1>7 DEF InMessage
<1>10. \A p \in Packets : InTable(p)' <=> InTable(p) /\ p \notin m.pkts
  <2> TAKE p \in Packets
  <2>1. CASE p \in m.pkts
    <3>1. \A u \in Tables, j \in Keys : p \in heap[u][j] => u = t /\ j = k
      BY <1>3, <2>1 DEF ConservationInv, FlowInv
    <3> QED
      BY <1>6, <2>1, <3>1 DEF InTable
  <2>2. CASE p \notin m.pkts
    BY <1>3, <1>6, <2>2 DEF InTable
  <2> QED
    BY <2>1, <2>2
<1>11. m \notin Emitted
  <2>1. PICK p \in Packets : p \in m.pkts
    BY <1>1, <1>3, <1>5 DEF Heap
  <2> QED
    BY <1>8, <2>1 DEF InMessage
<1>12. FlowInv'
  <2>1. \A p \in Packets : p \in counted' <=> InTable(p)' \/ InMessage(p)'
    BY <1>5, <1>8, <1>9, <1>10 DEF ConservationInv, FlowInv
  <2>2. \A p \in Packets : ~(InTable(p)' /\ InMessage(p)')
    BY <1>9, <1>10 DEF ConservationInv, FlowInv
  <2>3. \A p \in Packets : \A u, v \in Tables : \A i, j \in Keys :
          p \in heap'[u][i] /\ p \in heap'[v][j] => u = v /\ i = j
    BY <1>6 DEF ConservationInv, FlowInv
  <2>4. \A p \in Packets : \A n, o \in Emitted' : p \in n.pkts /\ p \in o.pkts => n = o
    BY <1>7, <1>8 DEF ConservationInv, FlowInv, InMessage
  <2> QED
    BY <2>1, <2>2, <2>3, <2>4 DEF FlowInv
<1>13. QueueInv'
  BY <1>3, <1>4, <1>5, <1>7, <1>11 DEF ConservationInv, QueueInv, Emitted
<1>14. FreshInv'
  BY <1>5 DEF ConservationInv, FreshInv, mainVars
<1> QED
  BY <1>12, <1>13, <1>14 DEF ConservationInv

LEMMA NetworkConserves == ConservationInv /\ NetworkStep => ConservationInv'
<1> SUFFICES ASSUME ConservationInv, NetworkStep PROVE ConservationInv'
  OBVIOUS
<1>1. UNCHANGED <<mainVars, memVars>>
  BY DEF NetworkStep, Transmit, Expire, BrokerAppend, ConnectionLoses
<1>2. Emitted' = Emitted /\ QueueInv'
  <2> USE DEF ConservationInv, QueueInv, Emitted
  <2>1. ASSUME NEW m \in outq, Transmit(m) PROVE Emitted' = Emitted /\ QueueInv'
    BY <2>1 DEF Transmit
  <2>2. ASSUME NEW m \in outq, Expire(m) PROVE Emitted' = Emitted /\ QueueInv'
    BY <2>2 DEF Expire
  <2>3. ASSUME NEW m \in wire, BrokerAppend(m) PROVE Emitted' = Emitted /\ QueueInv'
    BY <2>3 DEF BrokerAppend
  <2>4. ASSUME NEW m \in wire, ConnectionLoses(m) PROVE Emitted' = Emitted /\ QueueInv'
    BY <2>4 DEF ConnectionLoses
  <2> QED
    BY <2>1, <2>2, <2>3, <2>4 DEF NetworkStep
<1>3. FlowInv'
  BY <1>1, <1>2, FlowsUntouched DEF ConservationInv, memVars
<1>4. FreshInv'
  BY <1>1 DEF ConservationInv, FreshInv, mainVars, memVars
<1> QED
  BY <1>2, <1>3, <1>4 DEF ConservationInv

(* Every other step leaves tables and messages where they are, or only      *)
(* moves the queue to lost when the producer is destroyed.                  *)
LEMMA OthersConserve ==
    ASSUME ConservationInv, UNCHANGED <<memVars, wire, topic>>,
           UNCHANGED <<outq, lost>> \/ (outq' = {} /\ lost' = lost \cup outq),
           FreshInv'
    PROVE  ConservationInv'
<1>1. Emitted' = Emitted
  BY DEF Emitted
<1>2. FlowInv'
  BY <1>1, FlowsUntouched DEF ConservationInv, memVars
<1>3. QueueInv'
  BY <1>1 DEF ConservationInv, QueueInv
<1> QED
  BY <1>2, <1>3 DEF ConservationInv

LEMMA ConservationInductive ==
    ControlInv /\ ConservationInv /\ [Next]_vars => ConservationInv'
<1> SUFFICES ASSUME ControlInv, ConservationInv, [Next]_vars PROVE ConservationInv'
  OBVIOUS
<1> USE DEF FreshInv, ConservationInv, mainVars, memVars, netVars, MainGoto
<1>1. CASE UNCHANGED vars
  BY <1>1, OthersConserve DEF vars
<1>2. CASE Terminated
  BY <1>1, <1>2 DEF Terminated
<1>3. CASE MainStep
  <2>1. CASE FlowProcessPacket
    BY <2>1, AggregateConserves
  <2>2. CASE SpawnFlushWorker
    BY <2>2, OthersConserve DEF SpawnFlushWorker
  <2>3. CASE StartCapture
    BY <2>3, OthersConserve DEF StartCapture
  <2>4. CASE CaptureLock
    BY <2>4, OthersConserve DEF CaptureLock
  <2>5. CASE LocateTable
    BY <2>5, OthersConserve DEF LocateTable
  <2>6. CASE CaptureUnlock
    BY <2>6, OthersConserve DEF CaptureUnlock
  <2>7. CASE PcapBreak
    BY <2>7, OthersConserve DEF PcapBreak
  <2>8. CASE StopFlush
    BY <2>8, OthersConserve DEF StopFlush
  <2>9. CASE JoinFlush
    BY <2>9, OthersConserve DEF JoinFlush
  <2>10. CASE CleanupServe
    BY <2>10, OthersConserve DEF CleanupServe
  <2>11. CASE CleanupDestroy
    BY <2>11, OthersConserve DEF CleanupDestroy
  <2> QED
    BY <1>3, <2>1, <2>2, <2>3, <2>4, <2>5, <2>6, <2>7, <2>8, <2>9, <2>10, <2>11 DEF MainStep
<1>4. CASE Environment
  <2>1. UNCHANGED <<memVars, netVars>>
    BY <1>4 DEF Environment, KafkaInitFails, SpawnFails, PcapSetupFails, FlowCreateFails,
                PcapError, SigintDefault, Sigint, SigintAfterClose, PktHandler
  <2>2. FreshInv'
    BY <1>4, <2>1 DEF Environment, KafkaInitFails, SpawnFails, PcapSetupFails,
                FlowCreateFails, PcapError, SigintDefault, Sigint, SigintAfterClose, PktHandler
  <2> QED
    BY <2>1, <2>2, OthersConserve
<1>5. CASE FlushStep
  <2>1. CASE \E k \in Keys : ProduceFlow(k)
    BY <2>1, ProduceConserves
  <2>2. CASE ~\E k \in Keys : ProduceFlow(k)
    <3>1. UNCHANGED <<mainVars, memVars, outq, wire, topic, lost>>
      BY <1>5, <2>2 DEF FlushStep, FlushCheck, FlushLock, TakeTable, FlipIndex, ResetTable,
           FlushUnlock, PollReports, FlushServe, FlushDrained, FlushTimeout, Wake
    <3> QED
      BY <3>1, OthersConserve
  <2> QED
    BY <2>1, <2>2
<1> QED
  BY <1>1, <1>2, <1>3, <1>4, <1>5, NetworkConserves DEF Next

LEMMA ConservationInit == Init => ConservationInv
BY DEF Init, ConservationInv, FlowInv, QueueInv, FreshInv, InTable, InMessage, Emitted, EmptyTable

LEMMA ConservationImplies == TypeOK /\ ConservationInv => PacketConservation
<1> SUFFICES ASSUME TypeOK, ConservationInv, NEW p \in Packets
             PROVE  /\ p \in counted <=> Places(p) # {}
                    /\ \A x, y \in Places(p) : x = y
  BY DEF PacketConservation
<1>1. \A x \in Places(p) :
        \/ \E t \in Tables, k \in Keys : x = <<"table", <<t, k>>>> /\ p \in heap[t][k]
        \/ \E m \in outq  : x = <<"outq", m>>  /\ p \in m.pkts
        \/ \E m \in wire  : x = <<"wire", m>>  /\ p \in m.pkts
        \/ \E m \in topic : x = <<"topic", m>> /\ p \in m.pkts
        \/ \E m \in lost  : x = <<"lost", m>>  /\ p \in m.pkts
  BY DEF Places
<1>2. InTable(p) \/ InMessage(p) <=> Places(p) # {}
  <2>1. ASSUME InTable(p) PROVE Places(p) # {}
    <3>1. PICK t \in Tables, k \in Keys : p \in heap[t][k]
      BY <2>1 DEF InTable
    <3>2. <<t, k>> \in {d \in Tables \X Keys : p \in heap[d[1]][d[2]]}
      BY <3>1
    <3>3. <<"table", <<t, k>>>> \in Places(p)
      BY <3>2 DEF Places
    <3> QED
      BY <3>3
  <2>2. ASSUME InMessage(p) PROVE Places(p) # {}
    BY <2>2 DEF InMessage, Emitted, Places
  <2>3. ASSUME Places(p) # {} PROVE InTable(p) \/ InMessage(p)
    BY <1>1, <2>3 DEF InTable, InMessage, Emitted
  <2> QED
    BY <2>1, <2>2, <2>3
<1>3. ASSUME NEW x \in Places(p), NEW y \in Places(p) PROVE x = y
  BY <1>1, <1>3 DEF ConservationInv, FlowInv, QueueInv, InTable, InMessage, Emitted
<1> QED
  BY <1>2, <1>3 DEF ConservationInv, FlowInv

(***************************************************************************)
(* The double buffer and the export neither drop nor duplicate a packet's  *)
(* contribution between flow_process_packet() and the topic: at any time   *)
(* it is in exactly one flow or in exactly one message.                    *)
(***************************************************************************)
THEOREM Conservation == Spec => []PacketConservation
<1>1. ControlInv => TypeOK
  BY DEF ControlInv, TypeInv
<1> QED
  BY <1>1, ControlInvInit, ControlInvInductive, ConservationInit, ConservationInductive,
     ConservationImplies, PTL DEF Spec

-----------------------------------------------------------------------------
(* Refinement of WindowExport.                                              *)

windowVars == <<CurrentFlows, ClosingFlows, Emitted>>

RefinementInv == ControlInv /\ TableOwnership /\ ConservationInv

(* A step that touches no flow, no pointer and no message is a stutter.     *)
LEMMA WindowStutter ==
    ASSUME UNCHANGED <<heap, tables, active_idx, table_to_export>>,
           Swapping' = Swapping, Emitted' = Emitted
    PROVE  UNCHANGED windowVars
BY DEF windowVars, CurrentFlows, ClosingFlows, ActiveTable

(* A table that holds no flow is the empty table. *)
LEMMA NotLive ==
    ASSUME heap \in Heap, NEW t \in Tables, ~Live(t)
    PROVE  heap[t] = EmptyTable
BY DEF Heap, Live, EmptyTable

LEMMA AggregateRefines ==
    ASSUME RefinementInv, FlowProcessPacket
    PROVE  Window!Aggregate(pkt.id, pkt.key) /\ pkt \in [id : Packets, key : Keys]
<1>1. /\ TypeOK /\ pkt \in [id : Packets, key : Keys] /\ slot = active_idx
      /\ ~Swapping /\ heap \in Heap /\ pkt.id \notin counted
  BY DEF FlowProcessPacket, MainGoto, RefinementInv, ControlInv, TypeInv, TypeOK,
         PacketInHand, MutexInv, PointerInv, Swapping, Heap, ConservationInv, FreshInv
<1>2. PICK t \in Tables :
        /\ ActiveTable = t \/ (ActiveTable = NULL /\ ~Live(t))
        /\ tables' = [tables EXCEPT ![active_idx] = t]
        /\ heap' = [heap EXCEPT ![t][pkt.key] = heap[t][pkt.key] \cup {pkt.id}]
  BY <1>1, FlowStored DEF ActiveTable
<1>3. /\ active_idx' = active_idx /\ table_to_export' = table_to_export
      /\ ~Swapping' /\ Emitted' = Emitted
  BY <1>1 DEF FlowProcessPacket, flushVars, Swapping, netVars, Emitted
<1>4. ActiveTable' = t
  BY <1>1, <1>2, <1>3 DEF ActiveTable, TypeOK
<1>5. t # NULL /\ table_to_export # t
  BY <1>1, <1>2, SnifferAssumptions DEF RefinementInv, TableOwnership, Owned
<1>6. CurrentFlows = heap[t]
  BY <1>1, <1>2, <1>5, NotLive DEF CurrentFlows
<1>7. CurrentFlows' = [CurrentFlows EXCEPT ![pkt.key] = CurrentFlows[pkt.key] \cup {pkt.id}]
  <2>1. heap'[t] = [heap[t] EXCEPT ![pkt.key] = heap[t][pkt.key] \cup {pkt.id}]
    BY <1>1, <1>2 DEF Heap
  <2>2. CurrentFlows' = heap'[t]
    BY <1>3, <1>4, <1>5 DEF CurrentFlows
  <2> QED
    BY <1>6, <2>1, <2>2
<1>8. ClosingFlows' = ClosingFlows
  BY <1>1, <1>2, <1>3, <1>5 DEF ClosingFlows, Heap, TypeOK
<1>9. ~InTable(pkt.id) /\ ~InMessage(pkt.id)
  BY <1>1 DEF RefinementInv, ConservationInv, FlowInv
<1>10. /\ \A k \in Keys : pkt.id \notin CurrentFlows[k] /\ pkt.id \notin ClosingFlows[k]
       /\ \A m \in Emitted : pkt.id \notin m.pkts
  BY <1>1, <1>6, <1>9 DEF ClosingFlows, EmptyTable, InTable, InMessage, TypeOK
<1> QED
  BY <1>1, <1>3, <1>7, <1>8, <1>10 DEF Window!Aggregate, Window!Fresh, Emitted

LEMMA TakeTableRefines ==
    ASSUME RefinementInv, TakeTable
    PROVE  Window!CloseWindow
<1>1. /\ table_to_export = NULL /\ table_to_export' = ActiveTable
      /\ ~Swapping /\ Swapping' /\ UNCHANGED heap /\ Emitted' = Emitted
  BY DEF TakeTable, FlushGoto, RefinementInv, ControlInv, PointerInv, ActiveTable, Swapping,
         memVars, netVars, Emitted
<1>2. ClosingFlows = EmptyTable
  BY <1>1 DEF ClosingFlows
<1>3. ClosingFlows' = CurrentFlows
  BY <1>1 DEF ClosingFlows, CurrentFlows, EmptyTable
<1>4. CurrentFlows' = EmptyTable
  BY <1>1 DEF CurrentFlows, EmptyTable
<1> QED
  BY <1>1, <1>2, <1>3, <1>4 DEF Window!CloseWindow, Window!NoFlows, EmptyTable, Emitted

LEMMA ProduceRefines ==
    ASSUME RefinementInv, NEW k \in Keys, ProduceFlow(k)
    PROVE  Window!Emit(k)
<1>1. TypeOK /\ heap \in Heap /\ NULL \notin Tables
  BY SnifferAssumptions DEF RefinementInv, ControlInv, TypeInv, TypeOK, Heap
<1>2. PICK t \in Tables :
        /\ t = table_to_export /\ heap[t][k] # {}
        /\ ~Swapping /\ ~Swapping' /\ ActiveTable' = ActiveTable
        /\ heap' = [heap EXCEPT ![t][k] = {}]
        /\ table_to_export' = IF \E j \in Keys \ {k} : heap[t][j] # {} THEN t ELSE NULL
  BY <1>1 DEF ProduceFlow, FreeFlow, Swapping, TypeOK, ActiveTable, ctxVars
<1>3. ClosingFlows = heap[t]
  BY <1>1, <1>2 DEF ClosingFlows
<1>4. Emitted' = Emitted \cup {[key |-> k, pkts |-> heap[t][k]]}
  BY <1>2 DEF ProduceFlow, Emitted
<1>5. heap'[t] = [heap[t] EXCEPT ![k] = {}]
  BY <1>1, <1>2 DEF Heap
<1>6. ClosingFlows' = [ClosingFlows EXCEPT ![k] = {}]
  <2>1. CASE \E j \in Keys \ {k} : heap[t][j] # {}
    BY <1>1, <1>2, <1>3, <1>5, <2>1 DEF ClosingFlows
  <2>2. CASE ~\E j \in Keys \ {k} : heap[t][j] # {}
    <3>1. ClosingFlows' = EmptyTable
      BY <1>2, <2>2 DEF ClosingFlows, EmptyTable
    <3>2. [heap[t] EXCEPT ![k] = {}] = EmptyTable
      BY <1>1, <2>2 DEF Heap, EmptyTable
    <3> QED
      BY <1>3, <3>1, <3>2
  <2> QED
    BY <2>1, <2>2
<1>7. ActiveTable # t
  BY <1>1, <1>2 DEF RefinementInv, TableOwnership
<1>8. CurrentFlows' = CurrentFlows
  <2>1. ActiveTable \in Tables \cup {NULL}
    BY <1>1 DEF TypeOK, ActiveTable
  <2>2. ActiveTable # NULL => heap'[ActiveTable] = heap[ActiveTable]
    BY <1>1, <1>2, <1>7, <2>1 DEF Heap
  <2> QED
    BY <1>2, <2>2 DEF CurrentFlows, EmptyTable
<1> QED
  BY <1>2, <1>3, <1>4, <1>6, <1>8 DEF Window!Emit, Emitted

LEMMA StepRefines ==
    RefinementInv /\ [Next]_vars =>
        Window!Next \/ UNCHANGED windowVars
<1> SUFFICES ASSUME RefinementInv, [Next]_vars
             PROVE  Window!Next \/ UNCHANGED windowVars
  OBVIOUS
<1> USE DEF mainVars, flushVars, ctxVars, memVars, netVars
<1>1. CASE UNCHANGED vars
  BY <1>1, WindowStutter DEF vars, Swapping, Emitted
<1>2. CASE Terminated
  BY <1>1, <1>2 DEF Terminated
<1>3. CASE MainStep
  <2>1. CASE FlowProcessPacket
    <3>1. pkt.id \in Packets /\ pkt.key \in Keys
      BY <2>1, AggregateRefines
    <3> QED
      BY <2>1, <3>1, AggregateRefines DEF Window!Next
  <2>2. CASE SpawnFlushWorker
    <3>1. Swapping' = Swapping
      BY <2>2 DEF SpawnFlushWorker, MainGoto, RefinementInv, ControlInv, ThreadInv, Swapping
    <3> QED
      BY <2>2, <3>1, WindowStutter DEF SpawnFlushWorker, Emitted
  <2>3. CASE CleanupDestroy
    BY <2>3, WindowStutter DEF CleanupDestroy, Swapping, Emitted
  <2>4. CASE \/ StartCapture \/ CaptureLock \/ LocateTable \/ CaptureUnlock \/ PcapBreak
             \/ StopFlush \/ JoinFlush \/ CleanupServe
    <3>1. UNCHANGED <<heap, tables, active_idx, flushVars, outq, wire, topic, lost>>
      BY <2>4 DEF StartCapture, CaptureLock, LocateTable, CaptureUnlock, PcapBreak, StopFlush,
                  JoinFlush, CleanupServe
    <3> QED
      BY <3>1, WindowStutter DEF Swapping, Emitted
  <2> QED
    BY <1>3, <2>1, <2>2, <2>3, <2>4 DEF MainStep
<1>4. CASE Environment
  <2>1. UNCHANGED <<heap, tables, active_idx, flushVars, netVars>>
    BY <1>4 DEF Environment, KafkaInitFails, SpawnFails, PcapSetupFails, FlowCreateFails,
                PcapError, SigintDefault, Sigint, SigintAfterClose, PktHandler
  <2> QED
    BY <2>1, WindowStutter DEF Swapping, Emitted
<1>5. CASE FlushStep
  <2>1. CASE TakeTable
    BY <2>1, TakeTableRefines DEF Window!Next
  <2>2. CASE \E k \in Keys : ProduceFlow(k)
    BY <2>2, ProduceRefines DEF Window!Next
  <2>3. CASE FlipIndex
    BY <2>3 DEF FlipIndex, FlushGoto, windowVars, CurrentFlows, ClosingFlows, Swapping,
                Emitted, EmptyTable
  <2>4. CASE ResetTable
    <3>1. Swapping /\ ~Swapping' /\ ActiveTable' = NULL
      BY <2>4 DEF ResetTable, FlushGoto, Swapping, ActiveTable, RefinementInv, ControlInv,
                  TypeInv, TypeOK
    <3>2. UNCHANGED <<heap, table_to_export>> /\ Emitted' = Emitted
      BY <2>4 DEF ResetTable, Emitted
    <3> QED
      BY <3>1, <3>2 DEF windowVars, CurrentFlows, ClosingFlows, EmptyTable
  <2>5. CASE FlushCheck
    <3>1. UNCHANGED <<heap, tables, active_idx, table_to_export>> /\ Swapping' = Swapping
      BY <2>5 DEF FlushCheck, FlushGoto, RefinementInv, ControlInv, PointerInv, Swapping
    <3> QED
      BY <2>5, <3>1, WindowStutter DEF FlushCheck, Emitted
  <2>6. CASE \/ FlushLock \/ FlushUnlock \/ PollReports \/ FlushServe
             \/ FlushDrained \/ FlushTimeout \/ Wake
    <3>1. /\ UNCHANGED <<heap, tables, active_idx, table_to_export, outq, wire, topic, lost>>
          /\ Swapping' = Swapping
      BY <2>6 DEF FlushLock, FlushUnlock, PollReports, FlushServe, FlushDrained, FlushTimeout,
                  Wake, FlushGoto, Swapping
    <3> QED
      BY <3>1, WindowStutter DEF Emitted
  <2> QED
    BY <1>5, <2>1, <2>2, <2>3, <2>4, <2>5, <2>6 DEF FlushStep
<1>6. CASE NetworkStep
  <2>1. UNCHANGED <<heap, tables, active_idx, flushVars>> /\ Emitted' = Emitted
    BY <1>6 DEF NetworkStep, Transmit, Expire, BrokerAppend, ConnectionLoses, Emitted
  <2> QED
    BY <2>1, WindowStutter DEF Swapping
<1> QED
  BY <1>1, <1>2, <1>3, <1>4, <1>5, <1>6 DEF Next

LEMMA InitRefines == Init => Window!Init
BY DEF Init, Window!Init, Window!NoFlows, CurrentFlows, ClosingFlows, ActiveTable, Swapping,
       EmptyTable

(***************************************************************************)
(* The capture thread, the flush thread, the mutex and the double buffer   *)
(* together implement WindowExport: windows are closed atomically and      *)
(* every flow of a window is exported whole and once.                      *)
(***************************************************************************)
THEOREM Refinement == Spec => ImplementsWindowExport
<1>1. Init => RefinementInv
  BY ControlInvInit, OwnershipInit, ConservationInit DEF RefinementInv
<1>2. RefinementInv /\ [Next]_vars => RefinementInv'
  BY ControlInvInductive, OwnershipInductive, ConservationInductive DEF RefinementInv
<1>3. RefinementInv /\ [Next]_vars =>
        [Window!Next]_<<CurrentFlows, ClosingFlows, outq \cup wire \cup topic \cup lost>>
  BY StepRefines DEF windowVars, Emitted
<1> QED
  BY <1>1, <1>2, <1>3, InitRefines, PTL DEF Spec, ImplementsWindowExport, Window!Spec
=============================================================================
