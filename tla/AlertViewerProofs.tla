-------------------------- MODULE AlertViewerProofs --------------------------
(* Proofs about the alert viewer, for every number of records and of ends  *)
(* of the process.                                                         *)
EXTENDS AlertViewer, DataLemmas

\* TypeOK without its Boolean, and the type of the history of notifications.
OffsetsInv ==
    /\ topic \in Seq(Values) /\ Len(topic) <= MaxRecords
    /\ ends \in 0 .. MaxEnds
    /\ position \in 0 .. Len(topic) /\ cursor \in 0 .. position
    /\ committed \in None .. Len(topic)
    /\ handled \subseteq DOMAIN topic /\ origin \in 0 .. Len(topic)
    /\ \A c \in cuts : c.end \in 1 .. Len(topic) /\ c.at \in 1 .. c.end
    /\ toasts \in Seq(Nat)

TypeInv == running \in BOOLEAN /\ OffsetsInv

\* What is in front of the loop has been handled or given up, and the rest of
\* the batch can be read.
ProgressInv ==
    /\ \A o \in 1 .. cursor : o \in handled \/ GivenUp(o)
    /\ \A o \in cursor + 1 .. position : topic[o] # "malformed"
    /\ CommittedWereHandled

Shown(o) == {i \in DOMAIN toasts : toasts[i] = o}

\* A run of the process shows a warning once, when the loop gets past it; a run
\* that has ended has been counted in ends.
ShownInv ==
    \A o \in Nat :
        Cardinality(Shown(o)) <= ends + (IF running /\ o <= cursor THEN 1 ELSE 0)

LEMMA TypeInvInit == Init => TypeInv
<1>1. Init => running \in BOOLEAN
  BY Zenon DEF Init
<1>2. Init => OffsetsInv
  BY AlertViewerAssumptions DEF Init, OffsetsInv, Values, None
<1> QED
  BY <1>1, <1>2 DEF TypeInv

LEMMA RunningStep == running \in BOOLEAN /\ [Next]_vars => running' \in BOOLEAN
<1> SUFFICES ASSUME running \in BOOLEAN, [Next]_vars PROVE running' \in BOOLEAN
  OBVIOUS
<1>1. running' = running \/ running' = TRUE \/ running' = FALSE
  BY DEF Next, vars, Arrive, Start, Poll, PollThrows, SkipNull, Notify, Finished,
         NotifyError, Kill
<1> QED
  BY <1>1, Zenon

(* Every step keeps the types; the offsets stay in their order. *)
LEMMA OffsetsStep == OffsetsInv /\ [Next]_vars => OffsetsInv'
<1> SUFFICES ASSUME OffsetsInv, [Next]_vars PROVE OffsetsInv'
  OBVIOUS
<1> USE AlertViewerAssumptions DEF OffsetsInv, None
<1>1. ASSUME NEW v \in Values, Arrive(v) PROVE OffsetsInv'
  BY <1>1 DEF Arrive
<1>2. CASE Start
  BY <1>2 DEF Start
<1>3. ASSUME NEW n \in 0 .. Len(topic) - position, Poll(n) PROVE OffsetsInv'
  BY <1>3 DEF Poll, Polling, AutoCommit
<1>4. CASE PollThrows
  BY <1>4 DEF PollThrows, AutoCommit
<1>5. CASE SkipNull
  BY <1>5 DEF SkipNull, AtRecord, Finished
<1>6. CASE Notify
  <2>1. cursor + 1 \in Nat
    OBVIOUS
  <2>2. toasts' = toasts \/ toasts' = Append(toasts, cursor + 1)
    BY <1>6 DEF Notify
  <2>3. toasts' \in Seq(Nat)
    BY <2>1, <2>2, SMTT(30)
  <2>4. /\ cursor' = cursor + 1 /\ cursor < position /\ handled' = handled \cup {cursor + 1}
        /\ UNCHANGED <<topic, position, committed, origin, cuts, ends>>
    BY <1>6 DEF Notify, AtRecord, Finished
  <2> QED
    BY <2>3, <2>4
<1>7. CASE NotifyError
  BY <1>7 DEF NotifyError, AtRecord
<1>8. CASE Kill
  BY <1>8 DEF Kill
<1>9. CASE UNCHANGED vars
  BY <1>9 DEF vars
<1> QED
  BY <1>1, <1>2, <1>3, <1>4, <1>5, <1>6, <1>7, <1>8, <1>9 DEF Next

LEMMA TypeInvStep == TypeInv /\ [Next]_vars => TypeInv'
BY RunningStep, OffsetsStep DEF TypeInv

(***************************************************************************)
(* Positions, cursor and committed offset stay within the topic and in     *)
(* their order through every poll, failure, end and restart (App.java      *)
(* 38-72).                                                                 *)
(***************************************************************************)
THEOREM ViewerTypes == Spec => []TypeOK
<1>1. TypeInv => TypeOK
  BY DEF TypeInv, OffsetsInv, TypeOK
<1> QED
  BY <1>1, TypeInvInit, TypeInvStep, PTL DEF Spec

LEMMA ProgressInvInit == Init => ProgressInv
BY DEF Init, ProgressInv, CommittedWereHandled, None

(* Nothing that was given up is taken back. *)
LEMMA GivenUpStays ==
    ASSUME origin <= origin', origin \in Nat, origin' \in Nat, cuts \subseteq cuts'
    PROVE  \A o \in Nat : GivenUp(o) => GivenUp(o)'
BY DEF GivenUp

LEMMA ProgressInvStep == TypeInv /\ ProgressInv /\ [Next]_vars => ProgressInv'
<1> SUFFICES ASSUME TypeInv, ProgressInv, [Next]_vars PROVE ProgressInv'
  OBVIOUS
<1>0. /\ Len(topic) \in Nat /\ position \in 0 .. Len(topic) /\ cursor \in 0 .. position
      /\ committed \in -1 .. Len(topic) /\ origin \in 0 .. Len(topic) /\ topic \in Seq(Values)
      /\ \A c \in cuts : c.end \in 1 .. Len(topic) /\ c.at \in 1 .. c.end
  BY DEF TypeInv, OffsetsInv, None
<1>1. ASSUME NEW v \in Values, Arrive(v) PROVE ProgressInv'
  <2>1. \A o \in 1 .. Len(topic) : topic'[o] = topic[o]
    BY <1>0, <1>1 DEF Arrive
  <2>2. UNCHANGED <<position, cursor, committed, handled, origin, cuts>>
    BY <1>1 DEF Arrive
  <2>3. \A c \in cuts : c.at \in 1 .. Len(topic) /\ \A o \in c.at .. c.end : o \in 1 .. Len(topic)
    BY <1>0
  <2>4. \A o \in cursor + 1 .. position : o \in 1 .. Len(topic)
    BY <1>0
  <2> QED
    BY <2>1, <2>2, <2>3, <2>4 DEF ProgressInv, CommittedWereHandled, GivenUp
<1>2. CASE Start
  <2>1. /\ UNCHANGED <<topic, committed, handled, cuts>>
        /\ cursor' = position' /\ position' = (IF committed = -1 THEN Len(topic) ELSE committed)
        /\ origin' = IF committed = -1 THEN Len(topic) ELSE origin
    BY <1>2 DEF Start, None
  <2>2. \A o \in Nat : GivenUp(o) => GivenUp(o)'
    BY <1>0, <2>1, GivenUpStays
  <2>3. \A o \in 1 .. cursor' : o \in handled \/ GivenUp(o)'
    <3>1. CASE committed = -1
      BY <1>0, <2>1, <3>1 DEF GivenUp
    <3>2. CASE committed # -1
      BY <1>0, <2>1, <2>2, <3>2 DEF ProgressInv, CommittedWereHandled
    <3> QED
      BY <3>1, <3>2
  <2>4. CommittedWereHandled'
    BY <1>0, <2>1, <2>2 DEF ProgressInv, CommittedWereHandled
  <2>5. \A o \in cursor' + 1 .. position' : topic'[o] # "malformed"
    BY <1>0, <2>1
  <2> QED
    BY <2>1, <2>3, <2>4, <2>5 DEF ProgressInv
<1>3. ASSUME NEW n \in 0 .. Len(topic) - position, Poll(n) PROVE ProgressInv'
  <2>1. /\ UNCHANGED <<topic, cursor, handled, origin, cuts>> /\ cursor = position
        /\ committed' \in {committed, cursor} /\ position' = position + n
        /\ \A i \in position + 1 .. position + n : topic[i] # "malformed"
    BY <1>3 DEF Poll, Polling, AutoCommit
  <2> QED
    BY <1>0, <2>1 DEF ProgressInv, CommittedWereHandled, GivenUp
<1>4. CASE PollThrows
  <2>1. /\ UNCHANGED <<topic, cursor, position, handled, origin, cuts>>
        /\ committed' \in {committed, cursor}
    BY <1>4 DEF PollThrows, Polling, AutoCommit
  <2> QED
    BY <2>1 DEF ProgressInv, CommittedWereHandled, GivenUp
<1>5. CASE SkipNull \/ Notify
  <2>1. /\ cursor' = cursor + 1 /\ handled' = handled \cup {cursor + 1}
        /\ UNCHANGED <<topic, position, committed, origin, cuts>>
    BY <1>5 DEF SkipNull, Notify, Finished
  <2> QED
    BY <1>0, <2>1 DEF ProgressInv, CommittedWereHandled, GivenUp
<1>6. CASE NotifyError
  <2>1. /\ UNCHANGED <<topic, cursor, position, handled, origin>>
        /\ topic[cursor + 1] = "warning" /\ cursor < position
        /\ \/ committed' = committed /\ cuts' \in {cuts, cuts \cup {[at |-> cursor + 1, end |-> position]}}
           \/ committed' = position /\ cuts' = cuts \cup {[at |-> cursor + 1, end |-> position]}
    BY <1>6 DEF NotifyError, AtRecord
  <2>2. \A o \in Nat : GivenUp(o) => GivenUp(o)'
    BY <1>0, <2>1, GivenUpStays
  <2>3. \A o \in 1 .. cursor : o \in handled \/ GivenUp(o)'
    BY <1>0, <2>2 DEF ProgressInv
  <2>4. \A o \in 1 .. committed' : o \in handled \/ GivenUp(o)'
    <3>1. CASE committed' = committed
      BY <1>0, <2>2, <3>1 DEF ProgressInv, CommittedWereHandled
    <3>2. CASE committed' = position /\ cuts' = cuts \cup {[at |-> cursor + 1, end |-> position]}
      <4>1. \A o \in cursor + 1 .. position : GivenUp(o)'
        <5>1. PICK c : c = [at |-> cursor + 1, end |-> position]
          OBVIOUS
        <5>2. c \in cuts' /\ c.at = cursor + 1 /\ c.end = position
          BY <3>2, <5>1
        <5> QED
          BY <5>2 DEF GivenUp
      <4>2. \A o \in 1 .. position : o \in 1 .. cursor \/ o \in cursor + 1 .. position
        BY <1>0
      <4> QED
        BY <2>3, <3>2, <4>1, <4>2
    <3> QED
      BY <2>1, <3>1, <3>2
  <2>5. \A c \in cuts' : /\ topic[c.at] = "warning"
                         /\ \A o \in c.at .. c.end : topic[o] # "malformed"
    BY <2>1 DEF ProgressInv, CommittedWereHandled
  <2> QED
    BY <2>1, <2>3, <2>4, <2>5 DEF ProgressInv, CommittedWereHandled
<1>7. CASE Kill \/ UNCHANGED vars
  <2>1. UNCHANGED <<topic, position, cursor, committed, handled, origin, cuts>>
    BY <1>7 DEF Kill, vars
  <2> QED
    BY <2>1 DEF ProgressInv, CommittedWereHandled, GivenUp
<1> QED
  BY <1>1, <1>2, <1>3, <1>4, <1>5, <1>6, <1>7 DEF Next

(***************************************************************************)
(* A committed offset never runs ahead of the loop: what is in front of it *)
(* has been handled, unless it is older than a start without a committed   *)
(* offset or is the rest of a batch that an Error ended at a warning       *)
(* (App.java 50-76).                                                       *)
(***************************************************************************)
THEOREM CommitsFollowHandling == Spec => []CommittedWereHandled
<1>1. ProgressInv => CommittedWereHandled
  BY DEF ProgressInv
<1> QED
  BY <1>1, TypeInvInit, TypeInvStep, ProgressInvInit, ProgressInvStep, PTL DEF Spec

LEMMA ShownFinite ==
    ASSUME TypeInv, NEW o
    PROVE  IsFiniteSet(Shown(o)) /\ Cardinality(Shown(o)) \in Nat
<1>1. Shown(o) \in SUBSET (1 .. Len(toasts)) /\ Len(toasts) \in Nat
  BY DEF TypeInv, OffsetsInv, Shown
<1> QED
  BY <1>1, PositionsFinite

(* A notification is shown once more. *)
LEMMA ShownOnceMore ==
    ASSUME TypeInv, NEW n \in Nat, toasts' = Append(toasts, n), NEW o
    PROVE  /\ o # n => Shown(o)' = Shown(o)
           /\ Cardinality(Shown(o)) \in Nat /\ Cardinality(Shown(o)') \in Nat
           /\ Cardinality(Shown(o)') <= Cardinality(Shown(o)) + 1
<1>1. /\ o # n => Shown(o)' = Shown(o)
      /\ Shown(o)' \subseteq Shown(o) \cup {Len(toasts) + 1}
  BY DEF TypeInv, OffsetsInv, Shown
<1>2. IsFiniteSet(Shown(o))
  BY ShownFinite
<1> QED
  BY <1>1, <1>2, OneMorePosition

LEMMA ShownInvInit == Init => ShownInv
<1> SUFFICES ASSUME Init, NEW o \in Nat
             PROVE  Cardinality(Shown(o)) <= ends + (IF running /\ o <= cursor THEN 1 ELSE 0)
  BY DEF ShownInv
<1>1. Shown(o) = {}
  BY DEF Init, Shown
<1>2. ends = 0 /\ cursor = 0
  BY DEF Init
<1> QED
  BY <1>1, <1>2, FS_EmptySet

(* Steps that show nothing and leave the loop in its place, or behind. *)
LEMMA ShownUnchanged ==
    ASSUME TypeInv, ShownInv, toasts' = toasts, ends' \in Nat, ends' >= ends,
           ends' > ends \/ ~running \/ (running' = running /\ cursor' \in Nat /\ cursor' >= cursor)
    PROVE  ShownInv'
<1> SUFFICES ASSUME NEW o \in Nat
             PROVE  Cardinality(Shown(o)) <= ends' + (IF running' /\ o <= cursor' THEN 1 ELSE 0)
  BY DEF ShownInv, Shown
<1>1. Cardinality(Shown(o)) \in Nat
  BY ShownFinite
<1>2. Cardinality(Shown(o)) <= ends + (IF running /\ o <= cursor THEN 1 ELSE 0)
  BY DEF ShownInv
<1>3. cursor \in Nat /\ ends \in Nat
  BY DEF TypeInv, OffsetsInv
<1> QED
  BY <1>1, <1>2, <1>3

LEMMA ShownInvStep == TypeInv /\ ShownInv /\ [Next]_vars => ShownInv'
<1> SUFFICES ASSUME TypeInv, ShownInv, [Next]_vars PROVE ShownInv'
  OBVIOUS
<1>0. cursor \in Nat /\ ends \in Nat
  BY DEF TypeInv, OffsetsInv
<1>1. ASSUME NEW v \in Values, Arrive(v) PROVE ShownInv'
  BY <1>0, <1>1, ShownUnchanged DEF Arrive
<1>2. CASE Start
  BY <1>0, <1>2, ShownUnchanged DEF Start
<1>3. ASSUME NEW n \in 0 .. Len(topic) - position, Poll(n) PROVE ShownInv'
  BY <1>0, <1>3, ShownUnchanged DEF Poll
<1>4. CASE PollThrows
  BY <1>0, <1>4, ShownUnchanged DEF PollThrows
<1>5. CASE SkipNull
  BY <1>0, <1>5, ShownUnchanged DEF SkipNull, Finished
<1>6. CASE Notify
  <2>1. /\ running' = running /\ running /\ ends' = ends /\ cursor' = cursor + 1
        /\ toasts' = toasts \/ toasts' = Append(toasts, cursor + 1)
    BY <1>6 DEF Notify, AtRecord, Finished
  <2>2. CASE toasts' = toasts
    BY <1>0, <2>1, <2>2, ShownUnchanged
  <2>3. CASE toasts' = Append(toasts, cursor + 1)
    <3> SUFFICES ASSUME NEW o \in Nat
                 PROVE  Cardinality(Shown(o)') <= ends + (IF o <= cursor + 1 THEN 1 ELSE 0)
      BY <2>1 DEF ShownInv
    <3>1. /\ o # cursor + 1 => Shown(o)' = Shown(o)
          /\ Cardinality(Shown(o)) \in Nat
          /\ Cardinality(Shown(o)') <= Cardinality(Shown(o)) + 1
          /\ Cardinality(Shown(o)') \in Nat
      BY <1>0, <2>3, ShownOnceMore
    <3>2. Cardinality(Shown(o)) <= ends + (IF o <= cursor THEN 1 ELSE 0)
      BY <2>1 DEF ShownInv
    <3> QED
      BY <1>0, <3>1, <3>2
  <2> QED
    BY <2>1, <2>2, <2>3
<1>7. CASE NotifyError \/ Kill
  BY <1>0, <1>7, ShownUnchanged DEF NotifyError, Kill
<1>8. CASE UNCHANGED vars
  BY <1>0, <1>8, ShownUnchanged DEF vars
<1> QED
  BY <1>1, <1>2, <1>3, <1>4, <1>5, <1>6, <1>7, <1>8 DEF Next

(***************************************************************************)
(* However the process ends and starts again, and whatever is committed in *)
(* between, a warning is shown at most once more than the process has      *)
(* ended (App.java 56-70).                                                 *)
(***************************************************************************)
THEOREM RepeatsOnlyAfterEnds == Spec => []RepeatsBounded
<1>1. TypeInv /\ ShownInv => RepeatsBounded
  <2> SUFFICES ASSUME TypeInv, ShownInv, NEW o \in DOMAIN topic
               PROVE  Cardinality(Shown(o)) <= ends + 1
    BY DEF RepeatsBounded, Shown
  <2>1. o \in Nat /\ ends \in Nat
    BY DEF TypeInv, OffsetsInv
  <2>2. Cardinality(Shown(o)) \in Nat
    BY ShownFinite
  <2> QED
    BY <2>1, <2>2 DEF ShownInv
<1> QED
  BY <1>1, TypeInvInit, TypeInvStep, ShownInvInit, ShownInvStep, PTL DEF Spec
=============================================================================
