-------------------------- MODULE QueryStreamProofs --------------------------
(* Proofs about QueryStream, for any queue size, stream length and faults.  *)
EXTENDS QueryStream, SequenceTheorems, TLAPS

Flags ==
    /\ known \in BOOLEAN /\ row \in BOOLEAN /\ isError \in BOOLEAN
    /\ raising \in BOOLEAN /\ failed \in BOOLEAN
    /\ scoped \in BOOLEAN /\ gone \in BOOLEAN /\ marked \in BOOLEAN

Places ==
    /\ prod \in ProducerSteps /\ cons \in ConsumerSteps
    /\ held \in Kinds \cup {Done}
    /\ pulled \in Nat /\ late \in Nat
    /\ status \in {"unset", "completed", "error", "failed"}
    /\ prod \in {"create", "createError", "check", "put", "leave"} => held \in Kinds

Buffers ==
    /\ queue \in Seq(Events \cup {Done}) /\ Len(queue) <= QueueSize
    /\ log \in Seq(Events) /\ delivered \in Seq(Events)
    /\ hand \in Seq(Events)

LEMMA FlagsStep ==
    ASSUME Flags, [Next]_vars
    PROVE  Flags'
<1> USE DEF Flags, producerVars, consumerVars

<1>1. CASE Begin
  BY <1>1, Zenon DEF Begin
<1>2. ASSUME NEW k \in Kinds, Pull(k) PROVE Flags'
  BY <1>2, Zenon DEF Pull, Tracked
<1>3. CASE AgentEnds
  BY <1>3, Zenon DEF AgentEnds
<1>4. CASE AgentRaises
  BY <1>4, Zenon DEF AgentRaises
<1>5. CASE CreateSession
  BY <1>5, Zenon DEF CreateSession
<1>6. CASE CreateSessionFails
  BY <1>6, Zenon DEF CreateSessionFails
<1>7. CASE CheckConnection
  BY <1>7, Zenon DEF CheckConnection
<1>8. CASE PutEvent
  BY <1>8, Zenon DEF PutEvent, Room
<1>9. CASE PutSentinel
  BY <1>9, Zenon DEF PutSentinel, Room
<1>10. CASE Interrupt
  BY <1>10, Zenon DEF Interrupt
<1>11. CASE InterruptFails
  BY <1>11, Zenon DEF InterruptFails
<1>12. CASE Get
  BY <1>12, Zenon DEF Get
<1>13. CASE Sent
  BY <1>13, Zenon DEF Sent
<1>14. CASE InterruptOnCancel
  BY <1>14, Zenon DEF InterruptOnCancel
<1>15. CASE Cleanup
  BY <1>15, Zenon DEF Cleanup, CancelProducer, ProducerOver
<1>16. CASE CancelAgain
  BY <1>16, Zenon DEF CancelAgain, CancelProducer, ProducerOver
<1>17. CASE Join
  BY <1>17, Zenon DEF Join
<1>18. CASE UpdateStatus
  BY <1>18, Zenon DEF UpdateStatus
<1>19. CASE UpdateFails
  BY <1>19, Zenon DEF UpdateFails
<1>20. CASE Leave
  BY <1>20, Zenon DEF Leave
<1>21. CASE Cancelled
  BY <1>21, Zenon DEF Cancelled
<1>22. CASE UNCHANGED vars
  BY <1>22, Zenon DEF vars
<1> QED
  BY <1>1, <1>2, <1>3, <1>4, <1>5, <1>6, <1>7, <1>8, <1>9, <1>10, <1>11,
     <1>12, <1>13, <1>14, <1>15, <1>16, <1>17, <1>18, <1>19, <1>20, <1>21,
     <1>22
     DEF Next, Producer, Generator, Stopped

LEMMA PlacesStep ==
    ASSUME Places, [Next]_vars
    PROVE  Places'
<1> USE DEF Places, ProducerSteps, ConsumerSteps, producerVars, consumerVars

<1>1. CASE Begin
  BY <1>1 DEF Begin
<1>2. ASSUME NEW k \in Kinds, Pull(k) PROVE Places'
  BY <1>2 DEF Pull, Tracked
<1>3. CASE AgentEnds
  BY <1>3 DEF AgentEnds
<1>4. CASE AgentRaises
  BY <1>4 DEF AgentRaises
<1>5. CASE CreateSession
  BY <1>5 DEF CreateSession
<1>6. CASE CreateSessionFails
  BY <1>6 DEF CreateSessionFails
<1>7. CASE CheckConnection
  BY <1>7 DEF CheckConnection
<1>8. CASE PutEvent
  BY <1>8 DEF PutEvent, Room
<1>9. CASE PutSentinel
  BY <1>9 DEF PutSentinel, Room
<1>10. CASE Interrupt
  BY <1>10 DEF Interrupt
<1>11. CASE InterruptFails
  BY <1>11 DEF InterruptFails
<1>12. CASE Get
  BY <1>12 DEF Get
<1>13. CASE Sent
  BY <1>13 DEF Sent
<1>14. CASE InterruptOnCancel
  BY <1>14 DEF InterruptOnCancel
<1>15. CASE Cleanup
  BY <1>15 DEF Cleanup, CancelProducer, ProducerOver, AfterCancel
<1>16. CASE CancelAgain
  BY <1>16 DEF CancelAgain, CancelProducer, ProducerOver, AfterCancel
<1>17. CASE Join
  BY <1>17 DEF Join
<1>18. CASE UpdateStatus
  BY <1>18 DEF UpdateStatus
<1>19. CASE UpdateFails
  BY <1>19 DEF UpdateFails
<1>20. CASE Leave
  BY <1>20 DEF Leave
<1>21. CASE Cancelled
  BY <1>21 DEF Cancelled
<1>22. CASE UNCHANGED vars
  BY <1>22 DEF vars
<1> QED
  BY <1>1, <1>2, <1>3, <1>4, <1>5, <1>6, <1>7, <1>8, <1>9, <1>10, <1>11,
     <1>12, <1>13, <1>14, <1>15, <1>16, <1>17, <1>18, <1>19, <1>20, <1>21,
     <1>22
     DEF Next, Producer, Generator, Stopped

\* A queue with room takes one more.
LEMMA PutOne ==
    ASSUME Buffers, Room, NEW e \in Events \cup {Done}
    PROVE  /\ Append(queue, e) \in Seq(Events \cup {Done})
           /\ Len(Append(queue, e)) <= QueueSize
  BY AppendProperties, LenProperties, QueueAssumption DEF Buffers, Room

LEMMA BuffersStep ==
    ASSUME Places, Buffers, [Next]_vars
    PROVE  Buffers'
<1> USE DEF Buffers, Places, producerVars, consumerVars

<1>1. CASE Begin
  BY <1>1 DEF Begin
<1>2. ASSUME NEW k \in Kinds, Pull(k) PROVE Buffers'
  BY <1>2 DEF Pull, Tracked
<1>3. CASE AgentEnds
  BY <1>3 DEF AgentEnds
<1>4. CASE AgentRaises
  BY <1>4 DEF AgentRaises
<1>5. CASE CreateSession
  BY <1>5 DEF CreateSession
<1>6. CASE CreateSessionFails
  BY <1>6 DEF CreateSessionFails
<1>7. CASE CheckConnection
  BY <1>7 DEF CheckConnection
<1>8. CASE PutEvent
  <2>1. PICK e \in Events : queue' = Append(queue, e) /\ log' = Append(log, e)
    BY <1>8 DEF PutEvent, Events
  <2>2. Append(log, e) \in Seq(Events)
    BY AppendProperties
  <2> QED
    BY <1>8, <2>1, <2>2, PutOne DEF PutEvent
<1>9. CASE PutSentinel
  BY <1>9, PutOne DEF PutSentinel
<1>10. CASE Interrupt
  BY <1>10 DEF Interrupt
<1>11. CASE InterruptFails
  BY <1>11 DEF InterruptFails
<1>12. CASE Get
  <2>1. /\ Tail(queue) \in Seq(Events \cup {Done}) /\ Len(Tail(queue)) <= QueueSize
        /\ Head(queue) \in Events \cup {Done}
    BY <1>12, HeadTailProperties, LenProperties, QueueAssumption DEF Get
  <2>2. Head(queue) # Done => <<Head(queue)>> \in Seq(Events)
    BY <2>1
  <2>3. <<>> \in Seq(Events)
    OBVIOUS
  <2> QED
    BY <1>12, <2>1, <2>2, <2>3 DEF Get
<1>13. CASE Sent
  BY <1>13 DEF Sent
<1>14. CASE InterruptOnCancel
  BY <1>14 DEF InterruptOnCancel
<1>15. CASE Cleanup
  BY <1>15 DEF Cleanup, CancelProducer, ProducerOver
<1>16. CASE CancelAgain
  BY <1>16 DEF CancelAgain, CancelProducer, ProducerOver
<1>17. CASE Join
  BY <1>17 DEF Join
<1>18. CASE UpdateStatus
  BY <1>18 DEF UpdateStatus
<1>19. CASE UpdateFails
  BY <1>19 DEF UpdateFails
<1>20. CASE Leave
  BY <1>20 DEF Leave
<1>21. CASE Cancelled
  BY <1>21 DEF Cancelled
<1>22. CASE UNCHANGED vars
  BY <1>22 DEF vars
<1> QED
  BY <1>1, <1>2, <1>3, <1>4, <1>5, <1>6, <1>7, <1>8, <1>9, <1>10, <1>11,
     <1>12, <1>13, <1>14, <1>15, <1>16, <1>17, <1>18, <1>19, <1>20, <1>21,
     <1>22
     DEF Next, Producer, Generator, Stopped

LEMMA InitTyped == ASSUME Init PROVE Flags /\ Places /\ Buffers
<1>1. Flags
  BY Zenon DEF Init, Flags
<1>2. Places
  BY DEF Init, Places, ProducerSteps, ConsumerSteps
<1>3. Buffers
  BY QueueAssumption DEF Init, Buffers
<1> QED
  BY <1>1, <1>2, <1>3

\* The type invariant holds.
THEOREM TypeCorrect == StreamSafe => []TypeOK
<1>1. Init => Flags /\ Places /\ Buffers
  BY InitTyped
<1>2. Flags /\ Places /\ Buffers => TypeOK
  BY Zenon DEF Flags, Places, Buffers, TypeOK
<1> QED
  BY <1>1, <1>2, FlagsStep, PlacesStep, BuffersStep, PTL DEF StreamSafe

----------------------------------------------------------------------------
(* An abandoned agent *)

\* The one late event has brought the producer to the check or past it.
LateInv ==
    late # 0 =>
        /\ late = 1 /\ gone = TRUE
        /\ prod \in {"create", "createError", "check", "leave", "streamError",
                     "interrupt", "sentinel", "over"}

LEMMA LateStep ==
    ASSUME Places, Flags, LateInv, [Next]_vars
    PROVE  LateInv'
<1> USE DEF Places, Flags, LateInv, ProducerSteps, producerVars, consumerVars

<1>1. CASE Begin
  BY <1>1 DEF Begin
<1>2. ASSUME NEW k \in Kinds, Pull(k) PROVE LateInv'
  BY <1>2 DEF Pull, Tracked
<1>3. CASE AgentEnds
  BY <1>3 DEF AgentEnds
<1>4. CASE AgentRaises
  BY <1>4 DEF AgentRaises
<1>5. CASE CreateSession
  BY <1>5 DEF CreateSession
<1>6. CASE CreateSessionFails
  BY <1>6 DEF CreateSessionFails
<1>7. CASE CheckConnection
  BY <1>7 DEF CheckConnection
<1>8. CASE PutEvent
  BY <1>8 DEF PutEvent, Room
<1>9. CASE PutSentinel
  BY <1>9 DEF PutSentinel, Room
<1>10. CASE Interrupt
  BY <1>10 DEF Interrupt
<1>11. CASE InterruptFails
  BY <1>11 DEF InterruptFails
<1>12. CASE Get
  BY <1>12 DEF Get
<1>13. CASE Sent
  BY <1>13 DEF Sent
<1>14. CASE InterruptOnCancel
  BY <1>14 DEF InterruptOnCancel
<1>15. CASE Cleanup
  BY <1>15 DEF Cleanup, CancelProducer, ProducerOver, AfterCancel
<1>16. CASE CancelAgain
  BY <1>16 DEF CancelAgain, CancelProducer, ProducerOver, AfterCancel
<1>17. CASE Join
  BY <1>17 DEF Join
<1>18. CASE UpdateStatus
  BY <1>18 DEF UpdateStatus
<1>19. CASE UpdateFails
  BY <1>19 DEF UpdateFails
<1>20. CASE Leave
  BY <1>20 DEF Leave
<1>21. CASE Cancelled
  BY <1>21 DEF Cancelled
<1>22. CASE UNCHANGED vars
  BY <1>22 DEF vars
<1> QED
  BY <1>1, <1>2, <1>3, <1>4, <1>5, <1>6, <1>7, <1>8, <1>9, <1>10, <1>11,
     <1>12, <1>13, <1>14, <1>15, <1>16, <1>17, <1>18, <1>19, <1>20, <1>21,
     <1>22
     DEF Next, Producer, Generator, Stopped

\* For any queue, stream and faults: once the client has left, the agent is
\* asked for at most one more event.
THEOREM PullsStop == StreamSafe => []StopsPulling
<1>1. Init => LateInv /\ Places /\ Flags
  BY InitTyped DEF Init, LateInv
<1>2. LateInv => StopsPulling
  <2> SUFFICES ASSUME LateInv PROVE late <= 1
    BY DEF StopsPulling
  <2>1. late = 0 \/ late = 1
    BY DEF LateInv
  <2> QED
    BY <2>1
<1> QED
  BY <1>1, <1>2, LateStep, PlacesStep, FlagsStep, PTL DEF StreamSafe

----------------------------------------------------------------------------
(* A client that stays *)

\* The stream without disconnect: the generator is never cancelled, and ends
\* only after the sentinel, the last thing in the queue.
InOrder ==
    \E w \in Seq(Events) :
        /\ queue = w \/ (queue = Append(w, Done) /\ prod = "over")
        /\ log = (delivered \o hand) \o w

Undisturbed ==
    gone = FALSE =>
        /\ cons \in {"get", "yield", "cleanup", "update", "over"}
        /\ cons # "yield" => hand = <<>>
        /\ cons \in {"cleanup", "update", "over"} => prod = "over" /\ queue = <<>>
        /\ InOrder

\* What is appended at the end of both sides keeps them equal.
LEMMA AppendLast ==
    ASSUME NEW d \in Seq(Events), NEW w \in Seq(Events), NEW e \in Events
    PROVE  Append(d \o w, e) = d \o Append(w, e)
<1>1. d \o w \in Seq(Events) /\ <<e>> \in Seq(Events)
  BY ConcatProperties
<1>2. Append(d \o w, e) = (d \o w) \o <<e>> /\ Append(w, e) = w \o <<e>>
  BY <1>1, AppendIsConcat
<1> QED
  BY <1>1, <1>2, ConcatAssociative

\* A sequence is its head followed by its tail.
LEMMA HeadFirst ==
    ASSUME NEW w \in Seq(Events), w # <<>>
    PROVE  w = <<Head(w)>> \o Tail(w)
<1>1. Len(w) \in Nat \ {0} /\ Head(w) = w[1]
  BY EmptySeq, LenProperties
<1>2. SubSeq(w, 1, Len(w)) = <<w[1]>> \o SubSeq(w, 2, Len(w))
  BY <1>1, SubSeqRecursiveFirst
<1> QED
  BY <1>1, <1>2, SubSeqFull, TailIsSubSeq

\* Steps that leave the queue, the log and what was sent alone.
LEMMA StaysInOrder ==
    ASSUME InOrder, UNCHANGED <<queue, log, delivered, hand>>, prod = "over" => prod' = "over"
    PROVE  InOrder'
  BY DEF InOrder

LEMMA UndisturbedStep ==
    ASSUME Places, Buffers, Flags, Undisturbed, [Next]_vars
    PROVE  Undisturbed'
<1> USE DEF Places, ProducerSteps, producerVars, consumerVars

<1>1. CASE Begin
  BY <1>1, StaysInOrder DEF Begin, Undisturbed
<1>2. ASSUME NEW k \in Kinds, Pull(k) PROVE Undisturbed'
  BY <1>2, StaysInOrder DEF Pull, Undisturbed
<1>3. CASE AgentEnds
  BY <1>3, StaysInOrder DEF AgentEnds, Undisturbed
<1>4. CASE AgentRaises
  BY <1>4, StaysInOrder DEF AgentRaises, Undisturbed
<1>5. CASE CreateSession
  BY <1>5, StaysInOrder DEF CreateSession, Undisturbed
<1>6. CASE CreateSessionFails
  BY <1>6, StaysInOrder DEF CreateSessionFails, Undisturbed
<1>7. CASE CheckConnection
  BY <1>7, StaysInOrder DEF CheckConnection, Undisturbed
<1>8. CASE PutEvent
  <2> SUFFICES ASSUME gone' = FALSE PROVE Undisturbed'
    BY DEF Undisturbed
  <2>1. gone = FALSE /\ prod # "over"
    BY <1>8 DEF PutEvent
  <2>2. PICK w \in Seq(Events) : queue = w /\ log = (delivered \o hand) \o w
    BY <2>1 DEF Undisturbed, InOrder
  <2>3. PICK e \in Events : queue' = Append(queue, e) /\ log' = Append(log, e)
    BY <1>8 DEF PutEvent, Events, Places
  <2>4. Append(w, e) \in Seq(Events)
    BY AppendProperties
  <2>5. log' = (delivered \o hand) \o Append(w, e)
    BY <2>2, <2>3, AppendLast, ConcatProperties DEF Buffers
  <2>6. InOrder'
    BY <1>8, <2>2, <2>3, <2>4, <2>5 DEF InOrder, PutEvent
  <2> QED
    BY <1>8, <2>1, <2>6 DEF PutEvent, Undisturbed
<1>9. CASE PutSentinel
  <2> SUFFICES ASSUME gone' = FALSE PROVE Undisturbed'
    BY DEF Undisturbed
  <2>1. gone = FALSE /\ prod # "over"
    BY <1>9 DEF PutSentinel
  <2>2. InOrder'
    BY <1>9, <2>1 DEF Undisturbed, InOrder, PutSentinel
  <2> QED
    BY <1>9, <2>1, <2>2 DEF PutSentinel, Undisturbed
<1>10. CASE Interrupt
  BY <1>10, StaysInOrder DEF Interrupt, Undisturbed
<1>11. CASE InterruptFails
  BY <1>11, StaysInOrder DEF InterruptFails, Undisturbed
<1>12. CASE Get
  <2> SUFFICES ASSUME gone' = FALSE PROVE Undisturbed'
    BY DEF Undisturbed
  <2>1. gone = FALSE /\ cons = "get" /\ hand = <<>> /\ prod' = prod
        /\ log' = log /\ delivered' = delivered /\ queue' = Tail(queue) /\ queue # <<>>
    BY <1>12 DEF Get, Undisturbed
  <2>2. PICK w \in Seq(Events) :
           /\ queue = w \/ (queue = Append(w, Done) /\ prod = "over")
           /\ log = (delivered \o hand) \o w
    BY <2>1 DEF Undisturbed, InOrder
  <2>3. Done \notin Events
    BY DEF Events, Kinds, Done
  <2>4. log = delivered \o w
    BY <2>1, <2>2, ConcatEmptySeq DEF Buffers
  <2>5. CASE w = <<>>
    <3>1. queue = Append(w, Done) /\ prod = "over"
      BY <2>1, <2>2, <2>5
    <3>2. Head(queue) = Done /\ Tail(queue) = <<>>
      BY <2>5, <3>1, HeadTailAppend
    <3>3. cons' = "cleanup" /\ hand' = <<>>
      BY <1>12, <3>2 DEF Get
    <3>4. log' = (delivered' \o hand') \o w
      BY <2>1, <2>2, <3>3
    <3>5. InOrder'
      BY <2>1, <2>5, <3>2, <3>4 DEF InOrder
    <3> QED
      BY <2>1, <3>1, <3>2, <3>3, <3>5 DEF Undisturbed
  <2>6. CASE w # <<>>
    <3>1. Head(w) \in Events /\ Tail(w) \in Seq(Events)
      BY <2>6, HeadTailProperties
    <3>2. /\ Head(queue) = Head(w)
          /\ queue' = Tail(w) \/ (queue' = Append(Tail(w), Done) /\ prod' = "over")
      BY <2>1, <2>2, <2>6, HeadTailAppend
    <3>3. cons' = "yield" /\ hand' = <<Head(w)>>
      BY <1>12, <2>3, <3>1, <3>2 DEF Get
    <3>4. w = <<Head(w)>> \o Tail(w)
      BY <2>6, HeadFirst
    <3>5. <<Head(w)>> \in Seq(Events)
      BY <3>1
    <3>6. (delivered \o <<Head(w)>>) \o Tail(w) = delivered \o (<<Head(w)>> \o Tail(w))
      BY <3>1, <3>5, ConcatAssociative DEF Buffers
    <3>7. delivered \o (<<Head(w)>> \o Tail(w)) = delivered \o w
      BY <3>4
    <3>8. log' = (delivered' \o hand') \o Tail(w)
      BY <2>1, <2>4, <3>3, <3>6, <3>7
    <3>9. InOrder'
      BY <3>1, <3>2, <3>8 DEF InOrder
    <3> QED
      BY <2>1, <3>3, <3>9 DEF Undisturbed
  <2> QED
    BY <2>5, <2>6
<1>13. CASE Sent
  <2> SUFFICES ASSUME gone' = FALSE PROVE Undisturbed'
    BY DEF Undisturbed
  <2>1. gone = FALSE /\ cons = "yield" /\ cons' = "get" /\ hand' = <<>> /\ prod' = prod
        /\ log' = log /\ queue' = queue /\ delivered' = delivered \o hand
    BY <1>13 DEF Sent
  <2>2. PICK w \in Seq(Events) :
           /\ queue = w \/ (queue = Append(w, Done) /\ prod = "over")
           /\ log = (delivered \o hand) \o w
    BY <2>1 DEF Undisturbed, InOrder
  <2>3. (delivered \o hand) \o <<>> = delivered \o hand
    BY ConcatProperties, ConcatEmptySeq DEF Buffers
  <2>4. InOrder'
    BY <2>1, <2>2, <2>3 DEF InOrder
  <2> QED
    BY <2>1, <2>4 DEF Undisturbed
<1>14. CASE InterruptOnCancel
  BY <1>14 DEF InterruptOnCancel, Undisturbed
<1>15. CASE Cleanup
  BY <1>15, StaysInOrder DEF Cleanup, Undisturbed, ProducerOver
<1>16. CASE CancelAgain
  BY <1>16 DEF CancelAgain, Undisturbed
<1>17. CASE Join
  BY <1>17 DEF Join, Undisturbed
<1>18. CASE UpdateStatus
  BY <1>18, StaysInOrder DEF UpdateStatus, Undisturbed
<1>19. CASE UpdateFails
  BY <1>19, StaysInOrder DEF UpdateFails, Undisturbed
<1>20. CASE Leave
  BY <1>20 DEF Leave, Undisturbed
<1>21. CASE Cancelled
  BY <1>21, Zenon DEF Cancelled, Undisturbed, Flags
<1>22. CASE UNCHANGED vars
  BY <1>22, StaysInOrder DEF vars, Undisturbed
<1> QED
  BY <1>1, <1>2, <1>3, <1>4, <1>5, <1>6, <1>7, <1>8, <1>9, <1>10, <1>11,
     <1>12, <1>13, <1>14, <1>15, <1>16, <1>17, <1>18, <1>19, <1>20, <1>21,
     <1>22
     DEF Next, Producer, Generator, Stopped

LEMMA InitUndisturbed == ASSUME Init PROVE Undisturbed
<1>1. <<>> \in Seq(Events) /\ (<<>> \o <<>>) \o <<>> = <<>>
  BY ConcatEmptySeq
<1> QED
  BY <1>1 DEF Init, Undisturbed, InOrder

\* For any queue size, any stream and any faults: a client that stays gets
\* every event that was put, once and in order.
THEOREM NothingIsLost == StreamSafe => []NothingLost
<1>1. Init => Undisturbed
  BY InitUndisturbed
<1>2. Flags /\ Buffers /\ Undisturbed => NothingLost
  <2> SUFFICES ASSUME Flags, Buffers, Undisturbed, ~gone
               PROVE  log = delivered \o hand \o Waiting
    BY DEF NothingLost
  <2>1. gone = FALSE
    BY Zenon DEF Flags
  <2>2. PICK w \in Seq(Events) :
           /\ queue = w \/ queue = Append(w, Done)
           /\ log = (delivered \o hand) \o w
    BY <2>1 DEF Undisturbed, InOrder
  <2>3. Waiting = w
    <3>0. w \in Seq(Events \cup {Done}) /\ Done \notin Events
      BY SeqMonotonic DEF Events, Kinds, Done
    <3>1. CASE queue = w
      <4>1. queue # <<>> => queue[Len(queue)] # Done
        BY <3>0, <3>1, EmptySeq, ElementOfSeq
      <4> QED
        BY <3>1, <4>1 DEF Waiting
    <3>2. CASE queue = Append(w, Done)
      <4>1. /\ queue # <<>> /\ queue \in Seq(Events \cup {Done})
            /\ Len(queue) = Len(w) + 1 /\ queue[Len(queue)] = Done
            /\ \A i \in 1 .. Len(w) : queue[i] = w[i]
        BY <3>0, <3>2, AppendProperties
      <4>2. Len(w) \in Nat /\ \A i \in 1 .. Len(w) : w[i] \in Events
        BY LenProperties, ElementOfSeq
      <4>3. /\ SubSeq(queue, 1, Len(w)) \in Seq(Events)
            /\ Len(SubSeq(queue, 1, Len(w))) = Len(w)
            /\ \A i \in 1 .. Len(w) : SubSeq(queue, 1, Len(w))[i] = w[i]
        BY <4>1, <4>2, SubSeqProperties
      <4>4. SubSeq(queue, 1, Len(w)) = w
        BY <4>3, SeqEqual
      <4> QED
        BY <4>1, <4>2, <4>4 DEF Waiting
    <3> QED
      BY <2>2, <3>1, <3>2
  <2> QED
    BY <2>2, <2>3
<1>3. Init => Flags /\ Places /\ Buffers
  BY InitTyped
<1> QED
  BY <1>1, <1>2, <1>3, UndisturbedStep, FlagsStep, PlacesStep, BuffersStep, PTL
     DEF StreamSafe
----------------------------------------------------------------------------
(* What a client that stays is told *)

\* Without a disconnect the generator is in no step of a cancellation.
Calm ==
    /\ gone = FALSE /\ gone' = FALSE
    /\ cons \in {"get", "yield", "cleanup", "update", "over"}
    /\ cons \in {"cleanup", "update", "over"} => prod = "over"

\* What the agent's last events leave in the log: its failure as the last of them.
Told ==
    gone = FALSE /\ failed = TRUE =>
        \/ prod = "streamError"
        \/ /\ prod \in {"sentinel", "over"}
           /\ log # <<>> /\ log[Len(log)] = "streamError"

\* The event the producer put last is that of the agent's failure.
Raised(i) == failed = TRUE /\ prod \in {"sentinel", "over"} /\ i = Len(log)

\* is_error is set by an error in the log other than that of the agent's failure, or by one
\* on its way there.
Seen ==
    gone = FALSE =>
        /\ prod \notin {"leave", "interrupt"}
        /\ prod = "streamError" => failed = TRUE
        /\ isError = FALSE => \A i \in DOMAIN log : log[i] \in Errors => Raised(i)
        /\ held = "error" => isError = TRUE
        /\ isError = TRUE =>
              \/ \E i \in DOMAIN log : log[i] \in Errors /\ ~Raised(i)
              \/ held = "error" /\ prod \in {"check", "put"}

\* The status is written last, and says what is_error was.
Recorded ==
    /\ row = TRUE \/ prod = "create" => known = TRUE
    /\ gone = FALSE =>
        /\ scoped = FALSE
        /\ cons # "over" => status = "unset"
        /\ cons = "over" /\ row = TRUE => status # "unset"
        /\ status = "completed" => isError = FALSE
        /\ status = "error" => isError = TRUE

LEMMA StaysCalm ==
    ASSUME Flags, Undisturbed, [Next]_vars, gone' = FALSE
    PROVE  Calm
<1>1. gone = FALSE \/ gone = TRUE
  BY Zenon DEF Flags
<1>2. gone = FALSE
  BY <1>1 DEF Next, Producer, Generator, Stopped, Begin, Pull, AgentEnds, AgentRaises,
     CreateSession,
     CreateSessionFails, CheckConnection, PutEvent, PutSentinel, Interrupt, InterruptFails,
     Get, Sent, InterruptOnCancel, Cleanup, CancelAgain, Join, UpdateStatus, UpdateFails,
     Leave, Cancelled, vars
<1> QED
  BY <1>2 DEF Calm, Undisturbed

LEMMA ToldStep ==
    ASSUME Places, Buffers, Flags, Undisturbed, Told, [Next]_vars
    PROVE  Told'
<1> SUFFICES ASSUME gone' = FALSE, failed' = TRUE PROVE Told'
  BY DEF Told
<1>0. Calm
  BY StaysCalm
<1>1. CASE AgentRaises
  BY <1>1 DEF AgentRaises, Told
<1>2. CASE PutEvent
  <2>1. failed = TRUE /\ prod = "streamError" /\ prod' = "sentinel"
    BY <1>0, <1>2 DEF PutEvent, Told, Calm
  <2>2. log' = Append(log, "streamError")
    BY <1>2, <2>1 DEF PutEvent
  <2>3. log' # <<>> /\ log'[Len(log')] = "streamError"
    <3>1. "streamError" \in Events
      BY DEF Events
    <3> QED
      BY <2>2, <3>1, AppendProperties DEF Buffers
  <2> QED
    BY <2>1, <2>3 DEF Told
<1>3. CASE /\ UNCHANGED <<failed, log>>
           /\ \/ prod' = prod \/ prod \notin {"streamError", "sentinel", "over"}
              \/ prod = "sentinel" /\ prod' = "over"
  <2>1. failed = TRUE
    BY <1>3
  <2> QED
    BY <1>0, <1>3, <2>1 DEF Told, Calm
<1>4. \/ AgentRaises \/ PutEvent
      \/ /\ UNCHANGED <<failed, log>>
         /\ \/ prod' = prod \/ prod \notin {"streamError", "sentinel", "over"}
            \/ prod = "sentinel" /\ prod' = "over"
  BY <1>0 DEF Calm, Next, Producer, Generator, Stopped, Begin, Pull, AgentEnds,
     CreateSession,
     CreateSessionFails, CheckConnection, PutSentinel, Interrupt, InterruptFails,
     Get, Sent, InterruptOnCancel, Cleanup, ProducerOver, CancelAgain, Join, UpdateStatus,
     UpdateFails,
     Leave, Cancelled, vars, producerVars, consumerVars
<1> QED
  BY <1>1, <1>2, <1>3, <1>4

LEMMA SeenStep ==
    ASSUME Places, Buffers, Flags, Undisturbed, Told, Seen, [Next]_vars
    PROVE  Seen'
<1> SUFFICES ASSUME gone' = FALSE PROVE Seen'
  BY DEF Seen
<1>0. Calm
  BY StaysCalm
<1>1. ASSUME NEW k \in Kinds, Pull(k) PROVE Seen'
  <2>1. held' = k /\ log' = log /\ prod = "pull" /\ failed' = failed
    BY <1>1 DEF Pull
  <2>2. failed # TRUE /\ prod' \in {"create", "check"}
    BY <1>0, <1>1, <2>1 DEF Told, Calm, Pull
  <2>3. k = "error" => isError' = TRUE /\ prod' = "check"
    <3>1. k = "error" => isError' = TRUE
      BY <1>1, Zenon DEF Pull, Tracked
    <3> QED
      BY <1>1, <3>1 DEF Pull
  <2>4. k # "error" => isError' = isError
    BY <1>1, Zenon DEF Pull, Tracked, Flags
  <2>5. isError' = FALSE => isError = FALSE
    BY <1>1, Zenon DEF Pull, Tracked, Flags
  <2> QED
    BY <1>0, <2>1, <2>2, <2>3, <2>4, <2>5 DEF Seen, Calm, Raised
<1>2. CASE PutEvent
  <2>1. PICK e \in Events :
           /\ log' = Append(log, e)
           /\ prod = "put" => e = held
           /\ prod # "put" => e = "streamError"
    BY <1>2 DEF PutEvent, Places, Events
  <2>2. /\ Len(log') = Len(log) + 1 /\ Len(log) \in Nat
        /\ \A i \in DOMAIN log : log'[i] = log[i] /\ i # Len(log')
        /\ log'[Len(log')] = e
        /\ DOMAIN log = 1..Len(log) /\ DOMAIN log' = 1..Len(log')
    BY <2>1, AppendProperties DEF Buffers
  <2>3. /\ held' = held /\ failed' = failed
        /\ prod = "put" => prod' = "pull"
        /\ prod = "createError" => prod' = "check"
        /\ prod = "streamError" => prod' = "sentinel"
        /\ prod \in {"put", "createError", "streamError"}
    BY <1>2 DEF PutEvent
  <2>4. isError' = FALSE => isError = FALSE /\ prod # "createError"
    BY <1>2, Zenon DEF PutEvent, Flags
  <2>5. isError = TRUE => isError' = TRUE
    BY <1>2, Zenon DEF PutEvent, Flags
  <2>6. isError' = TRUE => isError = TRUE \/ prod = "createError"
    BY <1>2, Zenon DEF PutEvent, Flags
  <2>7. failed = TRUE <=> prod = "streamError"
    BY <1>0, <2>3 DEF Told, Seen, Calm
  <2>8. \A i \in DOMAIN log : ~Raised(i) /\ ~Raised(i)'
    BY <2>2, <2>3, <2>7 DEF Raised
  <2>9. \A i : i = Len(log') => (Raised(i)' <=> prod = "streamError")
    BY <2>3, <2>7 DEF Raised
  <2>10. e = "error" => isError = TRUE
    BY <1>0, <2>1 DEF Seen, Calm
  <2>11. isError' = FALSE => \A i \in DOMAIN log' : log'[i] \in Errors => Raised(i)'
    <3> SUFFICES ASSUME isError' = FALSE, NEW i \in DOMAIN log', log'[i] \in Errors
                 PROVE  Raised(i)'
      OBVIOUS
    <3>1. i \notin DOMAIN log
      BY <1>0, <2>2, <2>4, <2>8 DEF Seen, Calm
    <3>2. i = Len(log') /\ e \in Errors
      BY <2>2, <3>1
    <3>3. prod = "streamError"
      BY <2>1, <2>3, <2>4, <2>10, <3>2 DEF Errors, Places, Kinds, Done
    <3> QED
      BY <2>9, <3>2, <3>3
  <2>12. isError' = TRUE => \/ \E i \in DOMAIN log' : log'[i] \in Errors /\ ~Raised(i)'
                            \/ held' = "error" /\ prod' \in {"check", "put"}
    <3> SUFFICES ASSUME isError' = TRUE
                 PROVE  \E i \in DOMAIN log' : log'[i] \in Errors /\ ~Raised(i)'
      OBVIOUS
    <3>1. CASE \E i \in DOMAIN log : log[i] \in Errors
      BY <2>2, <2>8, <3>1
    <3>2. CASE ~\E i \in DOMAIN log : log[i] \in Errors
      <4>1. prod = "createError" \/ (prod = "put" /\ held = "error")
        BY <1>0, <2>3, <2>6, <3>2 DEF Seen, Calm
      <4>2. e \in Errors /\ prod # "streamError"
        BY <2>1, <4>1 DEF Errors
      <4>3. Len(log') \in DOMAIN log'
        BY <2>2
      <4> QED
        BY <2>2, <2>9, <4>2, <4>3
    <3> QED
      BY <3>1, <3>2
  <2>13. held' = "error" => isError' = TRUE
    BY <1>0, <2>3, <2>5 DEF Seen, Calm
  <2>14. prod' \notin {"leave", "interrupt"} /\ (prod' = "streamError" => failed' = TRUE)
    BY <2>3
  <2> QED
    BY <2>11, <2>12, <2>13, <2>14 DEF Seen
<1>3. CASE AgentRaises
  <2>1. /\ prod = "pull" /\ prod' = "streamError" /\ failed' = TRUE
        /\ UNCHANGED <<isError, held, log>>
    BY <1>3 DEF AgentRaises, consumerVars
  <2> QED
    BY <1>0, <2>1 DEF Seen, Calm, Raised, Told
<1>4. CASE /\ UNCHANGED <<isError, held, log, failed>>
           /\ \/ prod' = prod
              \/ prod = "check" /\ prod' = "put"
              \/ prod = "create" /\ prod' \in {"check", "createError"}
              \/ prod = "new" /\ prod' \in {"pull", "over"}
              \/ prod = "pull" /\ prod' = "sentinel"
              \/ prod = "sentinel" /\ prod' = "over"
  <2>1. prod \in {"new", "pull", "create", "check"} => failed # TRUE
    BY <1>0 DEF Told, Calm
  <2> QED
    BY <1>0, <1>4, <2>1 DEF Seen, Calm, Raised
<1>5. \/ \E k \in Kinds : Pull(k)
      \/ PutEvent \/ AgentRaises
      \/ /\ UNCHANGED <<isError, held, log, failed>>
         /\ \/ prod' = prod
            \/ prod = "check" /\ prod' = "put"
            \/ prod = "create" /\ prod' \in {"check", "createError"}
            \/ prod = "new" /\ prod' \in {"pull", "over"}
            \/ prod = "pull" /\ prod' = "sentinel"
            \/ prod = "sentinel" /\ prod' = "over"
  BY <1>0 DEF Calm, Seen, Next, Producer, Generator, Stopped, Begin, AgentEnds,
     CreateSession,
     CreateSessionFails, CheckConnection, PutSentinel, Interrupt, InterruptFails,
     Get, Sent, InterruptOnCancel, Cleanup, ProducerOver, CancelAgain, Join, UpdateStatus,
     UpdateFails, Undisturbed,
     Leave, Cancelled, vars, producerVars, consumerVars
<1> QED
  BY <1>1, <1>2, <1>3, <1>4, <1>5

LEMMA RecordedStep ==
    ASSUME Places, Buffers, Flags, Undisturbed, Recorded, [Next]_vars
    PROVE  Recorded'
<1>1. row' = TRUE \/ prod' = "create" => known' = TRUE
  <2>1. ASSUME NEW k \in Kinds, Pull(k) PROVE row' = TRUE \/ prod' = "create" => known' = TRUE
    <3>1. row' = row /\ (known = TRUE => known' = TRUE) /\ (k = "init" => known' = TRUE)
      BY <2>1, Zenon DEF Pull
    <3>2. prod' = "create" => k = "init"
      BY <2>1 DEF Pull
    <3> QED
      BY <3>1, <3>2 DEF Recorded
  <2>2. CASE CreateSession
    BY <2>2 DEF CreateSession, Recorded
  <2>3. CASE UNCHANGED <<row, known>> /\ (prod' = "create" => prod = "create")
    BY <2>3 DEF Recorded
  <2>4. Cleanup \/ CancelAgain => UNCHANGED <<row, known>> /\ prod' # "create"
    BY DEF Places, ProducerSteps, Cleanup, CancelAgain, CancelProducer, AfterCancel,
       ProducerOver, producerVars, consumerVars
  <2>5. CASE Cleanup \/ CancelAgain
    BY <2>3, <2>4, <2>5
  <2>6. \/ \E k \in Kinds : Pull(k)
        \/ CreateSession \/ Cleanup \/ CancelAgain
        \/ UNCHANGED <<row, known>> /\ (prod' = "create" => prod = "create")
    BY DEF Next, Producer, Generator, Stopped, Begin, AgentEnds, AgentRaises,
       CreateSessionFails, CheckConnection, PutEvent, PutSentinel, Interrupt,
       InterruptFails,
       Get, Sent, InterruptOnCancel, Join, UpdateStatus, UpdateFails, Leave, Cancelled,
       vars, producerVars, consumerVars
  <2> QED
    BY <2>1, <2>2, <2>3, <2>5, <2>6
<1> SUFFICES ASSUME gone' = FALSE PROVE Recorded'
  BY <1>1 DEF Recorded
<1>0. Calm
  BY StaysCalm
<1>2. CASE UpdateStatus
  BY <1>0, <1>1, <1>2 DEF UpdateStatus, Recorded, Calm, Flags, producerVars
<1>3. CASE UpdateFails
  BY <1>0, <1>1, <1>3 DEF UpdateFails, Recorded, Calm, producerVars
<1>4. CASE /\ UNCHANGED <<status, scoped>>
           /\ cons' = "over" <=> cons = "over"
           /\ cons = "over" => UNCHANGED <<isError, row>>
  BY <1>0, <1>1, <1>4 DEF Recorded, Calm
<1>5. \/ UpdateStatus \/ UpdateFails
      \/ /\ UNCHANGED <<status, scoped>>
         /\ cons' = "over" <=> cons = "over"
         /\ cons = "over" => UNCHANGED <<isError, row>>
  BY <1>0 DEF Calm, Next, Producer, Generator, Stopped, Begin, Pull, AgentEnds, AgentRaises,
     CreateSession,
     CreateSessionFails, CheckConnection, PutEvent, PutSentinel, Interrupt, InterruptFails,
     Get, Sent, InterruptOnCancel, Cleanup, ProducerOver, CancelAgain, Join,
     Leave, Cancelled, vars, producerVars, consumerVars
<1> QED
  BY <1>2, <1>3, <1>4, <1>5

\* At the end the client that stayed has been sent the whole log.
LEMMA AllSent ==
    ASSUME Buffers, Undisturbed, gone = FALSE, cons = "over"
    PROVE  delivered = log
<1>1. queue = <<>> /\ hand = <<>>
  BY DEF Undisturbed
<1>2. PICK w \in Seq(Events) :
         /\ queue = w \/ queue = Append(w, Done)
         /\ log = (delivered \o hand) \o w
  BY DEF Undisturbed, InOrder
<1>3. w = <<>>
  BY <1>1, <1>2, AppendProperties
<1> QED
  BY <1>1, <1>2, <1>3, ConcatEmptySeq DEF Buffers

\* For any queue, stream and faults: a client that stays is told of the failure of the
\* agent's stream, last of all.
THEOREM FailuresAreTold == StreamSafe => []FailureReported
<1>1. Init => Told
  BY DEF Init, Told
<1>2. Flags /\ Buffers /\ Undisturbed /\ Told => FailureReported
  <2> SUFFICES ASSUME Flags, Buffers, Undisturbed, Told, cons = "over", ~gone, failed
               PROVE  delivered # <<>> /\ delivered[Len(delivered)] = "streamError"
    BY DEF FailureReported
  <2>1. gone = FALSE /\ failed = TRUE
    BY Zenon DEF Flags
  <2> QED
    BY <2>1, AllSent DEF Told, Undisturbed
<1>3. Init => Undisturbed /\ Flags /\ Places /\ Buffers
  BY InitTyped, InitUndisturbed
<1> QED
  BY <1>1, <1>2, <1>3, ToldStep, UndisturbedStep, FlagsStep, PlacesStep, BuffersStep, PTL
     DEF StreamSafe

\* For any queue, stream and faults: no session that exists goes without a status, and the
\* status is "error" exactly if a client that stays was sent an error that sets is_error.
THEOREM StatusIsTrue == StreamSafe => []StatusMatchesEvents
<1>1. Init => Told /\ Seen /\ Recorded
  <2> SUFFICES ASSUME Init PROVE Told /\ Seen /\ Recorded
    OBVIOUS
  <2>1. row = TRUE => known = TRUE
    BY Zenon DEF Init
  <2> QED
    BY <2>1 DEF Init, Told, Seen, Recorded, Done
<1>2. Flags /\ Places /\ Buffers /\ Undisturbed /\ Seen /\ Recorded => StatusMatchesEvents
  <2> SUFFICES ASSUME Flags, Places, Buffers, Undisturbed, Seen, Recorded, ~gone
               PROVE  /\ cons = "over" /\ row => status # "unset"
                      /\ status = "completed" => FlaggedErrors = {}
                      /\ status = "error" => FlaggedErrors # {}
    BY DEF StatusMatchesEvents
  <2>1. gone = FALSE /\ (row => row = TRUE) /\ (failed <=> failed = TRUE)
    BY Zenon DEF Flags
  <2>2. status \in {"completed", "error"} => cons = "over" /\ prod = "over" /\ delivered = log
    BY <2>1, AllSent DEF Recorded, Undisturbed
  <2>3. prod = "over" /\ delivered = log =>
            FlaggedErrors = {i \in DOMAIN log : log[i] \in Errors /\ ~Raised(i)}
    BY <2>1 DEF FlaggedErrors, Raised
  <2> QED
    BY <2>1, <2>2, <2>3 DEF Seen, Recorded
<1>3. Init => Undisturbed /\ Flags /\ Places /\ Buffers
  BY InitTyped, InitUndisturbed
<1> QED
  BY <1>1, <1>2, <1>3, ToldStep, SeenStep, RecordedStep, UndisturbedStep, FlagsStep,
     PlacesStep, BuffersStep, PTL
     DEF StreamSafe
----------------------------------------------------------------------------
(* Nobody waits alone *)

\* Who waits at the queue is not left alone: at an empty one the producer will still put
\* something, the sentinel at least; at a full one the generator will take something or
\* cancel the producer - save that it may wait, in turn, for a producer that waits to put
\* the sentinel (query_stream.py 191, 223, 253, 265-269).
WaitsAreServed ==
    /\ cons = "get" /\ queue = <<>> => ~ProducerOver
    /\ prod \in {"put", "createError", "streamError", "sentinel"} /\ ~Room =>
          \/ cons \in {"get", "yield", "interrupt", "cleanup"}
          \/ cons = "join" /\ prod = "sentinel"

\* Nothing follows the sentinel, and only a producer that is over has put it; one that ended
\* without it has a generator that takes nothing more.
Sealed ==
    \E w \in Seq(Events) :
        \/ queue = w /\ (prod = "over" => cons \notin {"get", "yield"})
        \/ queue = Append(w, Done) /\ prod = "over"

\* A generator past its finally has waited for the producer, one in it has cancelled it.
Joined ==
    /\ cons = "join" => prod \in {"interrupt", "sentinel", "over"}
    /\ cons \in {"update", "over"} => prod = "over"

LEMMA JoinedStep ==
    ASSUME Places, Joined, [Next]_vars
    PROVE  Joined'
<1> USE DEF Places, Joined, ProducerSteps, ConsumerSteps, producerVars, consumerVars

<1>1. CASE Begin
  BY <1>1 DEF Begin
<1>2. ASSUME NEW k \in Kinds, Pull(k) PROVE Joined'
  BY <1>2 DEF Pull, Tracked
<1>3. CASE AgentEnds
  BY <1>3 DEF AgentEnds
<1>4. CASE AgentRaises
  BY <1>4 DEF AgentRaises
<1>5. CASE CreateSession
  BY <1>5 DEF CreateSession
<1>6. CASE CreateSessionFails
  BY <1>6 DEF CreateSessionFails
<1>7. CASE CheckConnection
  BY <1>7 DEF CheckConnection
<1>8. CASE PutEvent
  BY <1>8 DEF PutEvent, Room
<1>9. CASE PutSentinel
  BY <1>9 DEF PutSentinel, Room
<1>10. CASE Interrupt
  BY <1>10 DEF Interrupt
<1>11. CASE InterruptFails
  BY <1>11 DEF InterruptFails
<1>12. CASE Get
  BY <1>12 DEF Get
<1>13. CASE Sent
  BY <1>13 DEF Sent
<1>14. CASE InterruptOnCancel
  BY <1>14 DEF InterruptOnCancel
<1>15. CASE Cleanup
  BY <1>15 DEF Cleanup, CancelProducer, ProducerOver, AfterCancel
<1>16. CASE CancelAgain
  BY <1>16 DEF CancelAgain, CancelProducer, ProducerOver, AfterCancel
<1>17. CASE Join
  BY <1>17 DEF Join, ProducerOver
<1>18. CASE UpdateStatus
  BY <1>18 DEF UpdateStatus
<1>19. CASE UpdateFails
  BY <1>19 DEF UpdateFails
<1>20. CASE Leave
  BY <1>20 DEF Leave
<1>21. CASE Cancelled
  BY <1>21 DEF Cancelled
<1>22. CASE UNCHANGED vars
  BY <1>22 DEF vars
<1> QED
  BY <1>1, <1>2, <1>3, <1>4, <1>5, <1>6, <1>7, <1>8, <1>9, <1>10, <1>11,
     <1>12, <1>13, <1>14, <1>15, <1>16, <1>17, <1>18, <1>19, <1>20, <1>21,
     <1>22
     DEF Next, Producer, Generator, Stopped

\* Steps that leave the queue alone.
LEMMA StaysSealed ==
    ASSUME Sealed, queue' = queue,
           prod = "over" => prod' = "over",
           prod' = "over" => prod = "over" \/ cons' \notin {"get", "yield"},
           cons' \in {"get", "yield"} => cons \in {"get", "yield"}
    PROVE  Sealed'
  BY DEF Sealed

LEMMA SealedStep ==
    ASSUME Places, Buffers, Sealed, [Next]_vars
    PROVE  Sealed'
<1> USE DEF Places, ProducerSteps, ConsumerSteps, producerVars, consumerVars

<1>1. CASE Begin
  BY <1>1, StaysSealed DEF Begin
<1>2. ASSUME NEW k \in Kinds, Pull(k) PROVE Sealed'
  BY <1>2, StaysSealed DEF Pull, Tracked
<1>3. CASE AgentEnds
  BY <1>3, StaysSealed DEF AgentEnds
<1>4. CASE AgentRaises
  BY <1>4, StaysSealed DEF AgentRaises
<1>5. CASE CreateSession
  BY <1>5, StaysSealed DEF CreateSession
<1>6. CASE CreateSessionFails
  BY <1>6, StaysSealed DEF CreateSessionFails
<1>7. CASE CheckConnection
  BY <1>7, StaysSealed DEF CheckConnection
<1>8. CASE PutEvent
  <2>1. PICK w \in Seq(Events) : queue = w
    BY <1>8 DEF Sealed, PutEvent
  <2>2. PICK e \in Events : queue' = Append(queue, e)
    BY <1>8 DEF PutEvent, Events
  <2>3. Append(w, e) \in Seq(Events)
    BY AppendProperties
  <2>4. prod' # "over"
    BY <1>8 DEF PutEvent
  <2> QED
    BY <2>1, <2>2, <2>3, <2>4 DEF Sealed
<1>9. CASE PutSentinel
  <2>1. PICK w \in Seq(Events) : queue = w
    BY <1>9 DEF Sealed, PutSentinel
  <2> QED
    BY <1>9, <2>1 DEF Sealed, PutSentinel
<1>10. CASE Interrupt
  BY <1>10, StaysSealed DEF Interrupt
<1>11. CASE InterruptFails
  BY <1>11, StaysSealed DEF InterruptFails
<1>12. CASE Get
  <2>1. /\ cons = "get" /\ queue # <<>> /\ queue' = Tail(queue) /\ prod' = prod
        /\ cons' = IF Head(queue) = Done THEN "cleanup" ELSE "yield"
    BY <1>12 DEF Get
  <2>2. PICK w \in Seq(Events) :
           \/ queue = w /\ prod # "over"
           \/ queue = Append(w, Done) /\ prod = "over"
    BY <2>1 DEF Sealed
  <2>3. CASE w = <<>>
    <3>1. queue = Append(w, Done) /\ prod = "over"
      BY <2>1, <2>2, <2>3
    <3>2. Head(queue) = Done /\ Tail(queue) = w
      BY <2>3, <3>1, HeadTailAppend
    <3> QED
      BY <2>1, <3>2 DEF Sealed
  <2>4. CASE w # <<>>
    <3>1. Tail(w) \in Seq(Events)
      BY <2>4, HeadTailProperties
    <3>2. \/ queue' = Tail(w) /\ prod' # "over"
          \/ queue' = Append(Tail(w), Done) /\ prod' = "over"
      BY <2>1, <2>2, <2>4, HeadTailAppend
    <3> QED
      BY <3>1, <3>2 DEF Sealed
  <2> QED
    BY <2>3, <2>4
<1>13. CASE Sent
  BY <1>13, StaysSealed DEF Sent
<1>14. CASE InterruptOnCancel
  BY <1>14, StaysSealed DEF InterruptOnCancel
<1>15. CASE Cleanup
  BY <1>15, StaysSealed DEF Cleanup, CancelProducer, ProducerOver, AfterCancel
<1>16. CASE CancelAgain
  BY <1>16, StaysSealed DEF CancelAgain, CancelProducer, ProducerOver, AfterCancel
<1>17. CASE Join
  BY <1>17, StaysSealed DEF Join, ProducerOver
<1>18. CASE UpdateStatus
  BY <1>18, StaysSealed DEF UpdateStatus
<1>19. CASE UpdateFails
  BY <1>19, StaysSealed DEF UpdateFails
<1>20. CASE Leave
  BY <1>20, StaysSealed DEF Leave
<1>21. CASE Cancelled
  BY <1>21, StaysSealed DEF Cancelled
<1>22. CASE UNCHANGED vars
  BY <1>22, StaysSealed DEF vars
<1> QED
  BY <1>1, <1>2, <1>3, <1>4, <1>5, <1>6, <1>7, <1>8, <1>9, <1>10, <1>11,
     <1>12, <1>13, <1>14, <1>15, <1>16, <1>17, <1>18, <1>19, <1>20, <1>21,
     <1>22
     DEF Next, Producer, Generator, Stopped

\* For any queue size, stream and faults: a generator at an empty queue has a producer that
\* will put something; a producer at a full one has a generator that will take or cancel,
\* or one that waits for it to put the sentinel.
THEOREM NobodyWaitsInVain == StreamSafe => []WaitsAreServed
<1>1. Init => Flags /\ Places /\ Buffers
  BY InitTyped
<1>2. Init => Sealed /\ Joined
  <2>1. <<>> \in Seq(Events)
    OBVIOUS
  <2> QED
    BY <2>1 DEF Init, Sealed, Joined
<1>3. Places /\ Sealed /\ Joined => WaitsAreServed
  <2> SUFFICES ASSUME Places, Sealed, Joined PROVE WaitsAreServed
    OBVIOUS
  <2>1. ASSUME cons = "get", prod = "over" PROVE queue # <<>>
    <3>1. PICK w \in Seq(Events) : queue = Append(w, Done)
      BY <2>1 DEF Sealed
    <3> QED
      BY <3>1, AppendProperties
  <2>2. ASSUME prod \in {"put", "createError", "streamError", "sentinel"}
        PROVE  \/ cons \in {"get", "yield", "interrupt", "cleanup"}
               \/ cons = "join" /\ prod = "sentinel"
    BY <2>2 DEF Places, ConsumerSteps, Joined
  <2> QED
    BY <2>1, <2>2 DEF WaitsAreServed, ProducerOver
<1> QED
  BY <1>1, <1>2, <1>3, FlagsStep, PlacesStep, BuffersStep, SealedStep, JoinedStep, PTL
     DEF StreamSafe
=============================================================================
