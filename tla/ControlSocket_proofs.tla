------------------------- MODULE ControlSocket_proofs -------------------------
(***************************************************************************)
(* Theorems about ControlSocket, for any clients, requests, queue and      *)
(* outbox sizes.                                                           *)
(***************************************************************************)
EXTENDS ControlSocket, SequenceTheorems, TLAPS

(* The scheduler is busy exactly while it has a job, and each connection   *)
(* has an outbox.                                                          *)
TypeInv ==
  /\ TypeOK
  /\ at = "busy" <=> job # None
  /\ outbox \in [Conns -> Seq(Requests \cup {Event})]

(* An answer on its way was put there by a verb that ran.                  *)
AnswersRan ==
  \A r \in Requests :
    /\ reply[r] = 1 => r \in ran
    /\ outcome[r] = "ok" => r \in ran
    /\ call[r] = "ok" => r \in ran

IInv == TypeInv /\ AnswersRan

(* What the outboxes and the queue hold.                                   *)
LEMMA SeqFacts ==
  ASSUME NEW S, NEW s \in Seq(S)
  PROVE  /\ Len(s) \in Nat
         /\ \A e \in S : Append(s, e) \in Seq(S) /\ Len(Append(s, e)) = Len(s) + 1
         /\ s # <<>> => /\ Head(s) \in S /\ Tail(s) \in Seq(S)
                        /\ Len(Tail(s)) = Len(s) - 1
BY LenProperties, AppendProperties, HeadTailProperties, EmptySeq

(* A frame never overfills an outbox.                                      *)
LEMMA SentFacts ==
  ASSUME TypeInv, NEW c \in Conns, NEW f \in Requests \cup {Event}
  PROVE  Sent(c, f) \in Seq(Requests \cup {Event}) /\ Len(Sent(c, f)) <= OutboxSize
<1>1. /\ outbox[c] \in Seq(Requests \cup {Event}) /\ Len(outbox[c]) <= OutboxSize
  BY DEF TypeInv, TypeOK
<1>2. Len(outbox[c]) \in Nat
  BY <1>1, SeqFacts
<1>3. /\ Append(outbox[c], f) \in Seq(Requests \cup {Event})
      /\ Len(Append(outbox[c], f)) = Len(outbox[c]) + 1
  BY <1>1, SeqFacts
<1>4. QED
  BY <1>1, <1>2, <1>3, ControlSocketAssumption DEF Sent

LEMMA InitIInv == Init => IInv
<1> SUFFICES ASSUME Init PROVE IInv
  OBVIOUS
<1>1. /\ <<>> \in Seq(Requests) /\ <<>> \in Seq(Requests \cup {Event}) /\ Len(<<>>) = 0
  BY EmptySeq
<1>2. TypeOK
  <2>1. \A c \in Conns : outbox[c] \in Seq(Requests \cup {Event}) /\ Len(outbox[c]) <= OutboxSize
    <3> SUFFICES ASSUME NEW c \in Conns
                 PROVE  outbox[c] \in Seq(Requests \cup {Event}) /\ Len(outbox[c]) <= OutboxSize
      OBVIOUS
    <3>1. outbox[c] = <<>>
      BY DEF Init
    <3>2. 0 <= OutboxSize
      BY ControlSocketAssumption
    <3>3. QED
      BY <1>1, <3>1, <3>2
  <2>2. /\ reply \in [Requests -> 0..1]
        /\ outcome \in [Requests -> {"none", "ok", "error"}]
        /\ call \in [Requests -> {"none", "sent", "ok", "error", "closed", "gaveup"}]
        /\ handler \in [Requests -> {"none", "submit", "await", "send", "done"}]
    BY DEF Init
  <2>3. /\ client \in [Conns -> BOOLEAN] /\ writer \in [Conns -> BOOLEAN]
        /\ server \in [Conns -> {"open", "closed", "gone"}] /\ cancelled \in BOOLEAN
    BY DEF Init
  <2>4. /\ jobs \in Seq(Requests) /\ Len(jobs) <= QueueSize /\ job \in Requests \cup {None}
        /\ ran \subseteq Requests /\ dropped \subseteq Requests /\ events \in 0..MaxEvents
    BY <1>1, ControlSocketAssumption DEF Init
  <2>5. QED
    BY <2>1, <2>2, <2>3, <2>4 DEF Init, TypeOK
<1>3. TypeInv
  BY <1>1, <1>2 DEF Init, TypeInv
<1>4. AnswersRan
  BY DEF Init, AnswersRan
<1>5. QED
  BY <1>3, <1>4 DEF IInv

(* The client's steps.                                                     *)
LEMMA ClientKeeps ==
  ASSUME IInv, \/ \E r \in Requests : Call(r) \/ GiveUp(r)
               \/ \E c \in Conns : ReadLoop(c) \/ ClientDisconnects(c)
  PROVE  IInv'
<1>1. ASSUME NEW r \in Requests, Call(r) \/ GiveUp(r)
      PROVE  IInv'
  BY <1>1 DEF IInv, TypeInv, TypeOK, AnswersRan, Call, GiveUp, queue, conns, record
<1>2. ASSUME NEW c \in Conns, ClientCloses(c)
      PROVE  IInv'
  BY <1>2 DEF IInv, TypeInv, TypeOK, AnswersRan, ClientCloses, FailedCalls, queue, record
<1>3. ASSUME NEW c \in Conns, Deliver(c)
      PROVE  IInv'
  <2>1. /\ outbox' = [outbox EXCEPT ![c] = Tail(outbox[c])]
        /\ outbox[c] \in Seq(Requests \cup {Event}) /\ outbox[c] # <<>>
        /\ Len(outbox[c]) <= OutboxSize
        /\ UNCHANGED <<at, handler, reply, outcome, queue, client, server, writer,
                       cancelled, record>>
    BY <1>3 DEF Deliver, IInv, TypeInv, TypeOK
  <2>2. /\ Tail(outbox[c]) \in Seq(Requests \cup {Event})
        /\ Len(Tail(outbox[c])) = Len(outbox[c]) - 1 /\ Len(outbox[c]) \in Nat
    BY <2>1, SeqFacts
  <2>3. /\ outbox' \in [Conns -> Seq(Requests \cup {Event})]
        /\ \A d \in Conns : Len(outbox'[d]) <= OutboxSize
    BY <2>1, <2>2, ControlSocketAssumption DEF IInv, TypeInv, TypeOK
  <2>4. /\ call' \in [Requests -> {"none", "sent", "ok", "error", "closed", "gaveup"}]
        /\ \A r \in Requests : call'[r] = call[r] \/ call'[r] = outcome[r]
    BY <1>3 DEF Deliver, IInv, TypeInv, TypeOK
  <2>5. QED
    BY <2>1, <2>3, <2>4 DEF IInv, TypeInv, TypeOK, AnswersRan, queue, record
<1>4. QED
  BY <1>1, <1>2, <1>3 DEF ReadLoop, ReadLoopEnds, ClientDisconnects

(* The handlers'.                                                          *)
LEMMA HandlerKeeps ==
  ASSUME IInv, NEW r \in Requests, Handler(r)
  PROVE  IInv'
<1>1. CASE Receive(r) \/ Refuse(r)
  BY <1>1 DEF Receive, Refuse, Report, IInv, TypeInv, TypeOK, AnswersRan, queue, conns, record
<1>2. CASE Enqueue(r)
  <2>1. jobs' \in Seq(Requests) /\ Len(jobs') <= QueueSize
    BY <1>2, SeqFacts, ControlSocketAssumption DEF Enqueue, QueueHasRoom, IInv, TypeInv, TypeOK
  <2>2. QED
    BY <1>2, <2>1 DEF Enqueue, IInv, TypeInv, TypeOK, AnswersRan, conns, record
<1>3. CASE TakeReply(r)
  <2>1. r \in ran
    BY <1>3 DEF TakeReply, Replied, IInv, AnswersRan
  <2>2. QED
    BY <1>3, <2>1 DEF TakeReply, Report, IInv, TypeInv, TypeOK, AnswersRan, queue, conns, record
<1>4. CASE SubmitCancelled(r)
  BY <1>4 DEF SubmitCancelled, Report, IInv, TypeInv, TypeOK, AnswersRan, queue, conns, record
<1>5. CASE SendReply(r)
  <2>1. ConnOf[r] \in Conns
    BY ControlSocketAssumption
  <2>2. /\ outbox' \in [Conns -> Seq(Requests \cup {Event})]
        /\ \A d \in Conns : Len(outbox'[d]) <= OutboxSize
    BY <1>5, <2>1, SentFacts DEF SendReply, IInv, TypeInv, TypeOK
  <2>3. QED
    BY <1>5, <2>2 DEF SendReply, IInv, TypeInv, TypeOK, AnswersRan, queue
<1>6. QED
  BY <1>1, <1>2, <1>3, <1>4, <1>5 DEF Handler

(* The connections' and the server's.                                      *)
LEMMA ServerKeeps ==
  ASSUME IInv, (\E c \in Conns : Connection(c)) \/ Broadcast \/ Cancel \/ ServerCloses
  PROVE  IInv'
<1>1. ASSUME NEW c \in Conns, ReaderEnds(c) \/ WriterEnds(c) \/ Release(c)
      PROVE  IInv'
  BY <1>1 DEF ReaderEnds, WriterEnds, Release, Closed, IInv, TypeInv, TypeOK, AnswersRan,
              requests, queue, record
<1>2. CASE Broadcast
  <2>1. /\ outbox' \in [Conns -> Seq(Requests \cup {Event})]
        /\ \A d \in Conns : Len(outbox'[d]) <= OutboxSize
    BY <1>2, SentFacts DEF Broadcast, IInv, TypeInv, TypeOK
  <2>2. events' \in 0..MaxEvents
    BY <1>2, ControlSocketAssumption DEF Broadcast, IInv, TypeInv, TypeOK
  <2>3. QED
    BY <1>2, <2>1, <2>2 DEF Broadcast, IInv, TypeInv, TypeOK, AnswersRan, requests, queue
<1>3. CASE Cancel \/ ServerCloses
  BY <1>3 DEF Cancel, ServerCloses, IInv, TypeInv, TypeOK, AnswersRan, requests, queue, conns,
              record
<1>4. QED
  BY <1>1, <1>2, <1>3 DEF Connection

(* The scheduler's.                                                        *)
LEMMA SchedulerKeeps ==
  ASSUME IInv, CycleStarts \/ CycleEnds \/ TakeJob \/ JobEnds \/ RunStops
  PROVE  IInv'
<1>1. CASE CycleStarts \/ CycleEnds \/ RunStops
  BY <1>1 DEF CycleStarts, CycleEnds, RunStops, IInv, TypeInv, TypeOK, AnswersRan, others,
              requests, queue, conns
<1>2. CASE TakeJob
  <2>1. /\ jobs' \in Seq(Requests) /\ Len(jobs') <= QueueSize
        /\ job' \in Requests /\ at' = "busy"
    BY <1>2, SeqFacts, ControlSocketAssumption DEF TakeJob, IInv, TypeInv, TypeOK
  <2>2. job' # None
    BY <2>1, ControlSocketAssumption
  <2>3. QED
    BY <1>2, <2>1, <2>2 DEF TakeJob, IInv, TypeInv, TypeOK, AnswersRan, others, requests, conns
<1>3. CASE JobEnds
  <2>1. job \in Requests
    BY <1>3 DEF JobEnds, IInv, TypeInv, TypeOK
  <2>2. QED
    BY <1>3, <2>1 DEF JobEnds, IInv, TypeInv, TypeOK, AnswersRan, conns
<1>4. QED
  BY <1>1, <1>2, <1>3

LEMMA IInvHolds == Spec => []IInv
<1>1. IInv /\ UNCHANGED vars => IInv'
  BY DEF vars, IInv, TypeInv, TypeOK, AnswersRan
<1>2. IInv /\ [Next]_vars => IInv'
  BY <1>1, ClientKeeps, HandlerKeeps, ServerKeeps, SchedulerKeeps DEF Next
<1>3. QED
  BY <1>2, InitIInv, PTL DEF Spec

-----------------------------------------------------------------------------
(* The socket's state is well typed: the dispatch queue and the outboxes   *)
(* stay within their sizes (dispatch.go:10-17, server.go:15-20, 204-213).  *)
THEOREM TypeCorrect == Spec => []TypeOK
<1>1. IInv => TypeOK
  BY DEF IInv, TypeInv
<1>2. QED
  BY <1>1, IInvHolds, PTL

(* A client that is told its verb was done can rely on it: the answer was  *)
(* put in the channel by a verb that ran to its end (protocol.go:32-38).   *)
THEOREM OkIsTrue == Spec => []OkMeansRan
<1>1. IInv => OkMeansRan
  BY DEF IInv, AnswersRan, OkMeansRan
<1>2. QED
  BY <1>1, IInvHolds, PTL
=============================================================================
