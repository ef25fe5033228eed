----------------------------- MODULE AlertViewer -----------------------------
(***************************************************************************)
(* kafkatch-alert-viewer: App polls network-warnings and shows every       *)
(* warning as a notification on the desktop.  The consumer commits         *)
(* automatically, at a poll and when it is closed, up to the position      *)
(* behind the records it has returned; without a committed offset it       *)
(* starts at the end of the topic.                                         *)
(*                                                                         *)
(* The topic is one partition.  Text and severity of a warning are left    *)
(* out.                                                                    *)
(***************************************************************************)
EXTENDS Integers, Sequences, FiniteSets

CONSTANTS
    MaxRecords,  \* bound on the records of the topic
    MaxEnds      \* bound on the times the process ends

ASSUME AlertViewerAssumptions == MaxRecords \in Nat /\ MaxEnds \in Nat

VARIABLES
    topic,      \* network-warnings
    running,    \* the process is in its loop
    position,   \* the consumer's position: records returned by poll()
    cursor,     \* records of them the loop has been through
    committed,  \* committed offset, or None
    toasts,     \* offsets of the warnings shown, in order
    handled,    \* history: offsets the body of the loop has finished with
    origin,     \* history: end of the topic at the latest start without a committed offset
    cuts,       \* history: [at, end]: the warning at which an Error ended the process,
                \* and the position that was committed all the same
    ends        \* how often the process has ended

vars == <<topic, running, position, cursor, committed, toasts, handled, origin, cuts, ends>>

\* A null value, one that WarningDeserializer rejects, and a warning.
Values == {"null", "malformed", "warning"}

None == -1

Init ==
    /\ topic = <<>> /\ running = FALSE
    /\ position = 0 /\ cursor = 0 /\ committed = None
    /\ toasts = <<>> /\ handled = {} /\ origin = 0 /\ cuts = {} /\ ends = 0

\* The watcher, or anyone else, produces a record (external).
Arrive(v) ==
    /\ Len(topic) < MaxRecords
    /\ topic' = Append(topic, v)
    /\ UNCHANGED <<running, position, cursor, committed, toasts, handled, origin, cuts, ends>>

\* Goes through the records where the last run of the process was.
StartKeepingCursor ==
    /\ ~running
    /\ running' = TRUE
    /\ position' = IF committed = None THEN Len(topic) ELSE committed
    /\ origin' = IF committed = None THEN Len(topic) ELSE origin
    /\ UNCHANGED <<topic, cursor, committed, toasts, handled, cuts, ends>>

\* The process starts, subscribes and finds its position: the committed one,
\* or the end of the topic (auto.offset.reset is latest).
Start ==
    /\ ~running
    /\ running' = TRUE
    /\ position' = IF committed = None THEN Len(topic) ELSE committed
    /\ cursor' = position'
    /\ origin' = IF committed = None THEN Len(topic) ELSE origin
    /\ UNCHANGED <<topic, committed, toasts, handled, cuts, ends>>

\* The loop is at poll(): the batch is finished.
Polling == running /\ cursor = position

\* The automatic commit at the beginning of poll(), every five seconds.
AutoCommit == committed' \in {committed, position}

\* Commits what it is about to return.
PollCommittingAhead(n) ==
    /\ Polling
    /\ \A i \in position + 1 .. position + n : topic[i] # "malformed"
    /\ position' = position + n
    /\ committed' \in {committed, position'}
    /\ UNCHANGED <<topic, running, cursor, toasts, handled, origin, cuts, ends>>

\* Reads from the committed offset again.
PollFromCommitted(n) ==
    /\ Polling
    /\ \A i \in position + 1 .. position + n : topic[i] # "malformed"
    /\ AutoCommit
    /\ position' = position + n
    /\ cursor' = IF committed = None THEN cursor ELSE committed
    /\ UNCHANGED <<topic, running, toasts, handled, origin, cuts, ends>>

\* poll() returns the next n records, none of them malformed.
Poll(n) ==
    /\ Polling
    /\ \A i \in position + 1 .. position + n : topic[i] # "malformed"
    /\ AutoCommit
    /\ position' = position + n
    /\ UNCHANGED <<topic, running, cursor, toasts, handled, origin, cuts, ends>>

\* The next record is malformed: the deserializer's exception comes out of
\* poll(), the position stays, and the loop goes on with the next poll().
PollThrows ==
    /\ Polling /\ position < Len(topic) /\ topic[position + 1] = "malformed"
    /\ AutoCommit
    /\ UNCHANGED <<topic, running, position, cursor, toasts, handled, origin, cuts, ends>>

\* The body of the loop is at the record after cursor.
AtRecord(v) == running /\ cursor < position /\ topic[cursor + 1] = v

\* The loop goes to the next record.
Finished ==
    /\ cursor' = cursor + 1
    /\ handled' = handled \cup {cursor + 1}
    /\ UNCHANGED <<topic, running, position, committed, origin, cuts, ends>>

\* Leaves the loop over the batch without the record.
RetryNull ==
    /\ AtRecord("null")
    /\ UNCHANGED vars

SkipNull ==
    /\ AtRecord("null")
    /\ Finished
    /\ UNCHANGED toasts

\* Notifier.notify() shows the warning, or throws what the loop catches.
Notify ==
    /\ AtRecord("warning")
    /\ Finished
    /\ toasts' \in {toasts, Append(toasts, cursor + 1)}

\* An Error of the notification library passes both catch clauses: the consumer
\* is closed, which commits its position if the broker can be reached, and the
\* process ends.
NotifyError ==
    /\ AtRecord("warning") /\ ends < MaxEnds
    /\ running' = FALSE /\ ends' = ends + 1
    /\ committed' \in {committed, position}
    /\ cuts' = IF committed' = position
               THEN cuts \cup {[at |-> cursor + 1, end |-> position]} ELSE cuts
    /\ UNCHANGED <<topic, position, cursor, toasts, handled, origin>>

\* The process is killed, also by Ctrl+C: there is no shutdown hook.
Kill ==
    /\ running /\ ends < MaxEnds
    /\ running' = FALSE /\ ends' = ends + 1
    /\ UNCHANGED <<topic, position, cursor, committed, toasts, handled, origin, cuts>>

Next ==
    \/ \E v \in Values : Arrive(v)
    \/ Start
    \/ \E n \in 0 .. Len(topic) - position : Poll(n)
    \/ PollThrows
    \/ SkipNull \/ Notify \/ NotifyError
    \/ Kill

Spec == Init /\ [][Next]_vars

\* The loop goes on while the process runs; nobody has to start it again.
FairSpec ==
    /\ Spec
    /\ WF_vars(\E n \in 1 .. Len(topic) - position : Poll(n))
    /\ WF_vars(PollThrows)
    /\ WF_vars(SkipNull \/ Notify)

-----------------------------------------------------------------------------

TypeOK ==
    /\ topic \in Seq(Values) /\ Len(topic) <= MaxRecords
    /\ running \in BOOLEAN /\ ends \in 0 .. MaxEnds
    /\ position \in 0 .. Len(topic) /\ cursor \in 0 .. position
    /\ committed \in None .. Len(topic)
    /\ handled \subseteq DOMAIN topic /\ origin \in 0 .. Len(topic)
    /\ \A c \in cuts : c.end \in 1 .. Len(topic) /\ c.at \in 1 .. c.end

\* What the viewer never looks at: records older than a start that found no
\* committed offset, and the rest of a batch that an Error ended while closing
\* the consumer committed it.
GivenUp(o) == o <= origin \/ \E c \in cuts : o \in c.at .. c.end

(***************************************************************************)
(* A committed offset stands for records the loop has been through, except *)
(* for what is given up: the automatic commit never runs ahead of the      *)
(* loop.  A batch is only ever given up at a warning, whose notification   *)
(* raised the Error, and never past a malformed record, so that null       *)
(* values and exceptions drop nothing and an Error no more than one batch  *)
(* (App.java 50-76).                                                       *)
(***************************************************************************)
CommittedWereHandled ==
    /\ \A o \in 1 .. committed : o \in handled \/ GivenUp(o)
    /\ \A c \in cuts : /\ topic[c.at] = "warning"
                       /\ \A o \in c.at .. c.end : topic[o] # "malformed"

\* A warning is shown again only after the process has ended without a commit.
RepeatsBounded ==
    \A o \in DOMAIN topic : Cardinality({i \in DOMAIN toasts : toasts[i] = o}) <= ends + 1

\* Nothing before offset o, from where the loop is, is malformed.
Unobstructed(o) == \A i \in cursor + 1 .. o : topic[i] # "malformed"

\* A record that no malformed one is ahead of is dealt with, null values and
\* notifications that fail in between included, unless the process ends or has
\* given the record up before.
RecordsAreHandled ==
    \A o \in 1 .. MaxRecords :
        running /\ o \in DOMAIN topic /\ Unobstructed(o) ~> o \in handled \/ GivenUp(o) \/ ~running

\* App.java lines 46-49: the exception for a malformed record comes out of poll()
\* and the catch around it is what the loop needs to get over it, so that a
\* warning behind it is still shown.
WarningsBehindMalformed ==
    \A o \in 1 .. MaxRecords :
        running /\ o \in DOMAIN topic /\ topic[o] = "warning" ~> o \in handled \/ GivenUp(o) \/ ~running
=============================================================================
