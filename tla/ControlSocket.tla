--------------------------- MODULE ControlSocket ---------------------------
(* The daemon's control socket: clients attach, get the progress events,   *)
(* and have verbs run by the scheduler's own goroutine between two cycles  *)
(* (Schedule says which cycle is next). Each connection has a reader and a *)
(* writer, each request a handler; the operator may stop the daemon at any *)
(* time.                                                                   *)
EXTENDS Integers, Sequences

CONSTANTS
  Conns,        (* connections of clients                                  *)
  Requests,     (* requests of their Dispatch calls                        *)
  ConnOf,       (* the connection of each request                          *)
  None,         (* no request                                              *)
  Event,        (* a frame that carries an event or a status               *)
  QueueSize,    (* dispatchQueueSize                                       *)
  OutboxSize,   (* clientOutboxSize                                        *)
  MaxEvents     (* bound: broadcast frames                                 *)

ASSUME ControlSocketAssumption ==
  /\ ConnOf \in [Requests -> Conns]
  /\ None \notin Requests /\ Event \notin Requests
  /\ QueueSize \in Nat \ {0} /\ OutboxSize \in Nat \ {0} /\ MaxEvents \in Nat

VARIABLES
  at,           (* where the scheduler's goroutine is                      *)
  call,         (* the client's Dispatch call                              *)
  handler,      (* the server's goroutine for the request                  *)
  reply,        (* job.reply, a channel of capacity 1                      *)
  outcome,      (* what the handler will report                            *)
  jobs,         (* dispatchCh                                              *)
  job,          (* the job the scheduler runs                              *)
  client,       (* is the client's end of the connection open?             *)
  server,       (* the server's end: open, closed, or its goroutine gone   *)
  writer,       (* is the writer goroutine alive?                          *)
  outbox,       (* clientConn.out                                          *)
  cancelled,    (* the daemon's context                                    *)
  ran,          (* history: requests whose verb has run to completion      *)
  dropped,      (* history: requests whose reply found the outbox full     *)
  events        (* frames broadcast so far                                 *)

requests == <<call, handler, reply, outcome>>
queue    == <<jobs, job>>
conns    == <<client, server, writer, outbox>>
record   == <<ran, dropped, events>>
vars     == <<at, call, handler, reply, outcome, jobs, job, client, server,
              writer, outbox, cancelled, ran, dropped, events>>

TypeOK ==
  /\ at \in {"select", "cycle", "busy", "stopped"}
  /\ call \in [Requests -> {"none", "sent", "ok", "error", "closed", "gaveup"}]
  /\ handler \in [Requests -> {"none", "submit", "await", "send", "done"}]
  /\ reply \in [Requests -> 0..1]
  /\ outcome \in [Requests -> {"none", "ok", "error"}]
  /\ jobs \in Seq(Requests) /\ Len(jobs) <= QueueSize
  /\ job \in Requests \cup {None}
  /\ client \in [Conns -> BOOLEAN]
  /\ server \in [Conns -> {"open", "closed", "gone"}]
  /\ writer \in [Conns -> BOOLEAN]
  /\ \A c \in Conns : outbox[c] \in Seq(Requests \cup {Event}) /\ Len(outbox[c]) <= OutboxSize
  /\ cancelled \in BOOLEAN
  /\ ran \subseteq Requests /\ dropped \subseteq Requests /\ events \in 0..MaxEvents

Init ==
  /\ at = "select"
  /\ call = [r \in Requests |-> "none"] /\ handler = [r \in Requests |-> "none"]
  /\ reply = [r \in Requests |-> 0] /\ outcome = [r \in Requests |-> "none"]
  /\ jobs = <<>> /\ job = None
  /\ client = [c \in Conns |-> TRUE] /\ server = [c \in Conns |-> "open"]
  /\ writer = [c \in Conns |-> TRUE] /\ outbox = [c \in Conns |-> <<>>]
  /\ cancelled = FALSE
  /\ ran = {} /\ dropped = {} /\ events = 0

Of(c) == {r \in Requests : ConnOf[r] = c}

-----------------------------------------------------------------------------
(* The client.                                                             *)

(* Dispatch registers the call and writes the request.                     *)
Call(r) ==
  /\ call[r] = "none" /\ client[ConnOf[r]]
  /\ call' = [call EXCEPT ![r] = "sent"]
  /\ UNCHANGED <<at, handler, reply, outcome, queue, conns, cancelled, record>>

(* Its context is cancelled: the call leaves the pending map.              *)
GiveUp(r) ==
  /\ call[r] = "sent"
  /\ call' = [call EXCEPT ![r] = "gaveup"]
  /\ UNCHANGED <<at, handler, reply, outcome, queue, conns, cancelled, record>>

(* closeConn, by the caller or because the server's end is closed: every   *)
(* call that still waits fails.                                            *)
ForgetsCalls(c) == call                                         \* mutant
FailedCalls(c) ==
  [r \in Requests |-> IF ConnOf[r] = c /\ call[r] = "sent" THEN "closed" ELSE call[r]]

ClientCloses(c) ==
  /\ client[c]
  /\ client' = [client EXCEPT ![c] = FALSE]
  /\ call' = FailedCalls(c)
  /\ UNCHANGED <<at, handler, reply, outcome, queue, server, writer, outbox,
                 cancelled, record>>

ClientDisconnects(c) == server[c] = "open" /\ ClientCloses(c)
ReadLoopEnds(c) == server[c] # "open" /\ ClientCloses(c)

-----------------------------------------------------------------------------
(* The server's goroutines.                                                *)

Report(r, result) ==
  /\ handler' = [handler EXCEPT ![r] = "send"]
  /\ outcome' = [outcome EXCEPT ![r] = result]

(* The reader decodes a request and starts its handler.                    *)
Arrives(r) ==
  call[r] # "none" /\ handler[r] = "none" /\ server[ConnOf[r]] = "open"

Receive(r) ==
  /\ Arrives(r) /\ handler' = [handler EXCEPT ![r] = "submit"]
  /\ UNCHANGED <<at, call, reply, outcome, queue, conns, cancelled, record>>

(* A request of another protocol version (server.go:236-243), a verb that  *)
(* is not known, or any on a daemon that takes none: it is answered with an*)
(* error and never submitted.                                              *)
Refuse(r) ==
  /\ Arrives(r) /\ Report(r, "error")
  /\ UNCHANGED <<at, call, reply, queue, conns, cancelled, record>>

(* SubmitDispatch: either of its selects may take the cancelled context.   *)
Unbounded == TRUE                                               \* mutant
QueueHasRoom == Len(jobs) < QueueSize

Enqueue(r) ==
  /\ handler[r] = "submit" /\ QueueHasRoom
  /\ jobs' = Append(jobs, r)
  /\ handler' = [handler EXCEPT ![r] = "await"]
  /\ UNCHANGED <<at, call, reply, outcome, job, conns, cancelled, record>>

OnAccept(r) == handler[r] = "await"                             \* mutant
Replied(r)  == handler[r] = "await" /\ reply[r] = 1

TakeReply(r) ==
  /\ Replied(r)
  /\ reply' = [reply EXCEPT ![r] = 0]
  /\ \E result \in {"ok", "error"} : Report(r, result)
  /\ UNCHANGED <<at, call, queue, conns, cancelled, record>>

SubmitCancelled(r) ==
  /\ handler[r] \in {"submit", "await"} /\ cancelled
  /\ Report(r, "error")
  /\ UNCHANGED <<at, call, reply, queue, conns, cancelled, record>>

(* send: a frame that finds the outbox full is dropped.                    *)
Sent(c, frame) ==
  IF Len(outbox[c]) < OutboxSize THEN Append(outbox[c], frame) ELSE outbox[c]

SendReply(r) ==
  LET c == ConnOf[r] IN
  /\ handler[r] = "send"
  /\ handler' = [handler EXCEPT ![r] = "done"]
  /\ outbox' = [outbox EXCEPT ![c] = Sent(c, r)]
  /\ dropped' = IF Len(outbox[c]) = OutboxSize THEN dropped \cup {r} ELSE dropped
  /\ UNCHANGED <<at, call, reply, outcome, queue, client, server, writer,
                 cancelled, ran, events>>

(* Handle: an event for every client, whoever emits it; what goes to a     *)
(* closed connection reaches nobody.                                       *)
Broadcast ==
  /\ events < MaxEvents /\ events' = events + 1
  /\ outbox' = [c \in Conns |-> IF server[c] = "open" THEN Sent(c, Event) ELSE outbox[c]]
  /\ UNCHANGED <<at, requests, queue, client, server, writer, cancelled,
                 ran, dropped>>

(* The writer hands a frame to the client, whose readLoop completes the    *)
(* call that is still in its pending map; events go to the feed.           *)
Deliver(c) ==
  /\ writer[c] /\ client[c] /\ server[c] = "open" /\ outbox[c] # <<>>
  /\ outbox' = [outbox EXCEPT ![c] = Tail(@)]
  /\ LET f == Head(outbox[c]) IN
     call' = IF f \in Requests /\ call[f] = "sent"
             THEN [call EXCEPT ![f] = outcome[f]] ELSE call
  /\ UNCHANGED <<at, handler, reply, outcome, queue, client, server, writer,
                 cancelled, record>>

(* The reader's Decode fails, because the client is gone or the server has *)
(* closed the connection: it closes its end.                               *)
ClosesLate(c) == server                                         \* mutant
Closed(c) == [server EXCEPT ![c] = "closed"]

ReaderEnds(c) ==
  /\ server[c] = "open" /\ ~client[c]
  /\ server' = Closed(c)
  /\ UNCHANGED <<at, requests, queue, client, writer, outbox, cancelled, record>>

(* writeLoop ends when the connection is closed, or when it writes to a    *)
(* client that is gone.                                                    *)
WriterEnds(c) ==
  /\ writer[c]
  /\ \/ server[c] = "closed"
     \/ ~client[c] /\ outbox[c] # <<>>
  /\ writer' = [writer EXCEPT ![c] = FALSE]
  /\ UNCHANGED <<at, requests, queue, client, server, outbox, cancelled, record>>

(* run waits for the writer and every handler, then leaves the registry.   *)
Release(c) ==
  /\ server[c] = "closed" /\ ~writer[c]
  /\ \A r \in Of(c) : handler[r] \in {"none", "done"}
  /\ server' = [server EXCEPT ![c] = "gone"]
  /\ UNCHANGED <<at, requests, queue, client, writer, outbox, cancelled, record>>

Cancel ==
  /\ ~cancelled /\ cancelled' = TRUE
  /\ UNCHANGED <<at, requests, queue, conns, record>>

(* Serve's goroutine closes every connection once the context is done.     *)
ServerCloses ==
  /\ cancelled /\ \E c \in Conns : server[c] = "open"
  /\ server' = [c \in Conns |-> IF server[c] = "open" THEN "closed" ELSE server[c]]
  /\ UNCHANGED <<at, requests, queue, client, writer, outbox, cancelled, record>>

-----------------------------------------------------------------------------
(* The scheduler's goroutine.                                              *)

others == <<requests, conns, cancelled, dropped, events>>

(* A timer fires; the context is looked at again before the cycle starts.  *)
CycleStarts ==
  /\ at = "select" /\ ~cancelled /\ at' = "cycle"
  /\ UNCHANGED <<others, queue, ran>>
CycleEnds ==
  /\ at = "cycle" /\ at' = "select"
  /\ UNCHANGED <<others, queue, ran>>

TakeJob ==
  /\ at = "select" /\ jobs # <<>> /\ at' = "busy"
  /\ job' = Head(jobs) /\ jobs' = Tail(jobs)
  /\ UNCHANGED <<others, ran>>

(* execDispatch: the verb runs to its end, on the daemon's context, and    *)
(* its result is put in the channel, with no one there or someone.         *)
NeedsReader(r) == handler[r] = "await"                          \* mutant
HasRoom(r)     == reply[r] = 0

JobEnds ==
  /\ at = "busy" /\ HasRoom(job) /\ at' = "select"
  /\ reply' = [reply EXCEPT ![job] = 1]
  /\ ran' = ran \cup {job} /\ job' = None
  /\ UNCHANGED <<call, handler, outcome, jobs, conns, cancelled, dropped, events>>

RunStops ==
  /\ at = "select" /\ cancelled /\ at' = "stopped"
  /\ UNCHANGED <<others, queue, ran>>

-----------------------------------------------------------------------------
Handler(r) ==
  Receive(r) \/ Refuse(r) \/ Enqueue(r) \/ TakeReply(r) \/ SubmitCancelled(r)
  \/ SendReply(r)
Connection(c) == ReaderEnds(c) \/ WriterEnds(c) \/ Release(c)
ReadLoop(c)   == ReadLoopEnds(c) \/ Deliver(c)

Next ==
  \/ \E r \in Requests : Handler(r) \/ Call(r) \/ GiveUp(r)
  \/ \E c \in Conns : Connection(c) \/ ReadLoop(c) \/ ClientDisconnects(c)
  \/ CycleStarts \/ CycleEnds \/ TakeJob \/ JobEnds \/ RunStops
  \/ Broadcast \/ Cancel \/ ServerCloses

Spec == Init /\ [][Next]_vars

(* Every goroutine goes on while it can, cycles and verbs end, clients     *)
(* read, and the scheduler's select takes a case that is ready over and    *)
(* over again some time (Go chooses at random). Nobody need call, give up, *)
(* leave or stop the daemon.                                               *)
FairSpec ==
  /\ Spec
  /\ WF_vars(CycleEnds \/ JobEnds) /\ SF_vars(TakeJob) /\ SF_vars(RunStops)
  /\ WF_vars(ServerCloses)
  /\ \A r \in Requests : WF_vars(Handler(r))
  /\ \A c \in Conns : WF_vars(Connection(c)) /\ WF_vars(ReadLoop(c))

-----------------------------------------------------------------------------
(* Properties.                                                             *)

(* What a client is told was done has been done to its end: the reply does *)
(* not come with the acceptance of the request, nor from a job that the    *)
(* shutdown left in the queue (protocol.go:32-38).                         *)
OkMeansRan == \A r \in Requests : call[r] = "ok" => r \in ran

(* Every Dispatch call returns, even when the daemon dies under it, unless *)
(* its reply was dropped because the outbox was full (client.go:120-127,   *)
(* protocol.go:42-52).                                                     *)
CallsReturn ==
  \A r \in Requests : call[r] = "sent" ~> (call[r] # "sent" \/ r \in dropped)

(* A client that leaves is forgotten, with its goroutines, once its        *)
(* requests have run (server.go:250-258).                                  *)
ClientsForgotten == \A c \in Conns : ~client[c] ~> server[c] = "gone"

(* A daemon that is told to stop does: no reply, client or full queue      *)
(* keeps Run, a handler or a connection for ever (dispatch.go:34-41).      *)
ShutdownCompletes ==
  cancelled ~> /\ at = "stopped"
               /\ \A c \in Conns : server[c] = "gone"
               /\ \A r \in Requests : handler[r] \in {"none", "done"}

=============================================================================
