--------------------------- MODULE SingleInstance ---------------------------
(***************************************************************************)
(* The command channel of platform/single_instance.py.  Every start of the *)
(* launcher is a process with one request: it becomes the owner of the     *)
(* kernel lock and puts the request into its own queue, or it delivers the *)
(* request to the owner over a local socket, again and again until it is   *)
(* accepted or its deadline has passed.  A request is named by the process *)
(* that made it (request_id is drawn once per start, so each repetition    *)
(* carries the same one); attempts number the connections.                 *)
(***************************************************************************)
EXTENDS Integers, Sequences, FiniteSets, SequencesExt

CONSTANTS Starter,      \* processes started by the user or by a shortcut
          QueueSize,    \* Queue(maxsize=64)
          SeenSize,     \* deque(maxlen=256)
          MaxAttempts,  \* connections a starter tries before its deadline
          NoStarter

ASSUME ChannelAssumption ==
    /\ IsFiniteSet(Starter) /\ NoStarter \notin Starter
    /\ {QueueSize, SeenSize, MaxAttempts} \subseteq Nat \ {0}

VARIABLES owner,      \* holder of the kernel lock "owner", or NoStarter
          endpoint,   \* whose port and token endpoint.json names
          route,      \* step of each process
          attempt,    \* connections the process has made
          backlog,    \* connections the listener has not yet served
          requests,   \* _requests of the owner
          batch,      \* pending_requests() the UI is working on
          seen,       \* _seen of the owner
          handled     \* requests the owner's UI has handled, with repetition

channelVars == <<owner, endpoint, route, attempt, backlog, requests, batch,
                 seen, handled>>

Connections == [from: Starter, number: 1..MaxAttempts]

Routes == {"created", "routing", "connected", "forwarded", "refused",
           "starting", "serving", "closing", "gone"}

ChannelTypeOK ==
    /\ owner \in Starter \union {NoStarter}
    /\ endpoint \in Starter \union {NoStarter}
    /\ route \in [Starter -> Routes]
    /\ attempt \in [Starter -> 0..MaxAttempts]
    /\ backlog \in Seq(Connections)
    /\ requests \in Seq(Starter) /\ Len(requests) <= QueueSize
    /\ batch \in Seq(Starter)
    /\ seen \in Seq(Starter) /\ Len(seen) <= SeenSize
    /\ handled \in Seq(Starter)

ChannelInit ==
    /\ owner = NoStarter
    /\ endpoint = NoStarter
    /\ route = [p \in Starter |-> "created"]
    /\ attempt = [p \in Starter |-> 0]
    /\ backlog = <<>>
    /\ requests = <<>>
    /\ batch = <<>>
    /\ seen = <<>>
    /\ handled = <<>>

-----------------------------------------------------------------------------
Rerouted(p, step) == route' = [route EXCEPT ![p] = step]

\* What dies with the memory and the socket of the owner.  `handled` is the
\* history of one ownership.
ForgetQueues ==
    /\ backlog' = <<>>
    /\ requests' = <<>>
    /\ batch' = <<>>
    /\ seen' = <<>>
    /\ handled' = <<>>

\* A starter whose attempt has failed sleeps and tries again, or raises
\* TimeoutError once its deadline has passed.
RetryOrRefuse(made) ==
    IF made < MaxAttempts THEN "routing" ELSE "refused"

\* The user, or a shortcut, starts the program.
StartLauncher(p) ==
    /\ route[p] = "created"
    /\ Rerouted(p, "routing")
    /\ UNCHANGED <<owner, endpoint, attempt, backlog, requests, batch, seen, handled>>

\* OSFileLock.try_acquire succeeds; the own request is the first in the queue.
BecomeOwner(p) ==
    /\ route[p] = "routing"
    /\ owner = NoStarter
    /\ owner' = p
    /\ requests' = <<p>>
    /\ Rerouted(p, "starting")
    /\ UNCHANGED <<endpoint, attempt, backlog, batch, seen, handled>>

\* The socket listens, then the endpoint is published.
StartServer(p) ==
    /\ route[p] = "starting"
    /\ endpoint' = p
    /\ Rerouted(p, "serving")
    /\ UNCHANGED <<owner, attempt, backlog, requests, batch, seen, handled>>

\* close(): the endpoint goes away before the lock does.
ReleaseOwnership ==
    /\ owner' = NoStarter
    /\ endpoint' = NoStarter
    /\ ForgetQueues

StartServerFails(p) ==
    /\ route[p] = "starting"
    /\ ReleaseOwnership
    /\ Rerouted(p, "gone")
    /\ UNCHANGED attempt

\* _forward reaches a listening owner: the endpoint may be a stale one.
Connect(p) ==
    /\ route[p] = "routing"
    /\ owner # NoStarter
    /\ endpoint = owner
    /\ route[owner] = "serving"
    /\ attempt[p] < MaxAttempts
    /\ attempt' = [attempt EXCEPT ![p] = @ + 1]
    /\ backlog' = Append(backlog, [from |-> p, number |-> attempt[p] + 1])
    /\ Rerouted(p, "connected")
    /\ UNCHANGED <<owner, endpoint, requests, batch, seen, handled>>

\* No endpoint, the endpoint of a dead owner, or a closed listener.
ConnectFails(p) ==
    /\ route[p] = "routing"
    /\ owner # NoStarter
    /\ endpoint = owner => route[owner] # "serving"
    /\ attempt[p] < MaxAttempts
    /\ attempt' = [attempt EXCEPT ![p] = @ + 1]
    /\ Rerouted(p, RetryOrRefuse(attempt[p] + 1))
    /\ UNCHANGED <<owner, endpoint, backlog, requests, batch, seen, handled>>

\* No answer within _IO_TIMEOUT, or a connection the owner closed unanswered.
\* The connection may still be in the backlog.
AnswerMissed(p) ==
    /\ route[p] = "connected"
    /\ Rerouted(p, RetryOrRefuse(attempt[p]))
    /\ UNCHANGED <<owner, endpoint, attempt, backlog, requests, batch, seen, handled>>

Repeated_Never(p) == FALSE
Repeated(p) == p \in ToSet(seen)

HasRoom == Len(requests) < QueueSize

\* deque.append with maxlen drops the oldest identity.
Remember(p) ==
    seen' = IF Len(seen) < SeenSize THEN Append(seen, p) ELSE Append(Tail(seen), p)

\* The answer reaches the sender only while it waits on this connection.
Answer(connection) ==
    LET p == connection.from
    IN  \/ /\ route[p] = "connected" /\ attempt[p] = connection.number
           /\ Rerouted(p, "forwarded")
        \/ UNCHANGED route

\* _serve, for one connection: under _accept_guard a new request is queued
\* and remembered, a repeated one is only acknowledged.
AcceptRequest ==
    /\ owner # NoStarter /\ route[owner] = "serving"
    /\ backlog # <<>>
    /\ LET connection == Head(backlog)
           p == connection.from
       IN  /\ \/ /\ Repeated(p)
                 /\ UNCHANGED <<requests, seen>>
              \/ /\ ~Repeated(p)
                 /\ HasRoom
                 /\ requests' = Append(requests, p)
                 /\ Remember(p)
           /\ Answer(connection)
    /\ backlog' = Tail(backlog)
    /\ UNCHANGED <<owner, endpoint, attempt, batch, handled>>

RejectFull_Remembered ==
    /\ owner # NoStarter /\ route[owner] = "serving"
    /\ backlog # <<>>
    /\ ~Repeated(Head(backlog).from) /\ ~HasRoom
    /\ backlog' = Tail(backlog)
    /\ Remember(Head(backlog).from)
    /\ UNCHANGED <<owner, endpoint, route, attempt, requests, batch, handled>>

\* Queue.Full: nothing is remembered and nothing is answered.
RejectFull ==
    /\ owner # NoStarter /\ route[owner] = "serving"
    /\ backlog # <<>>
    /\ ~Repeated(Head(backlog).from) /\ ~HasRoom
    /\ backlog' = Tail(backlog)
    /\ UNCHANGED <<owner, endpoint, route, attempt, requests, batch, seen, handled>>

\* handle_instance_requests: the UI takes all that is queued, then handles
\* them one after the other unless the application terminates meanwhile.
DrainRequests ==
    /\ owner # NoStarter /\ route[owner] = "serving"
    /\ batch = <<>>
    /\ requests # <<>>
    /\ batch' = requests
    /\ requests' = <<>>
    /\ UNCHANGED <<owner, endpoint, route, attempt, backlog, seen, handled>>

\* handle_external_launch, asked of the owner's UI by p.
HandleExternalLaunch(p) == handled' = Append(handled, p)

HandleRequest ==
    /\ owner # NoStarter /\ route[owner] = "serving"
    /\ batch # <<>>
    /\ HandleExternalLaunch(Head(batch))
    /\ batch' = Tail(batch)
    /\ UNCHANGED <<owner, endpoint, route, attempt, backlog, requests, seen>>

\* Shutdown: _terminating, and no request is accepted any more.
StopAccepting ==
    /\ owner # NoStarter /\ route[owner] = "serving"
    /\ Rerouted(owner, "closing")
    /\ UNCHANGED <<owner, endpoint, attempt, backlog, requests, batch, seen, handled>>

\* The runtime has ended (or handed over to another program before any UI).
CloseInstance ==
    /\ owner # NoStarter /\ route[owner] \in {"serving", "closing"}
    /\ ReleaseOwnership
    /\ Rerouted(owner, "gone")
    /\ UNCHANGED attempt

\* The owner dies: the kernel frees the lock, the endpoint file stays.
OwnerDies ==
    /\ owner # NoStarter
    /\ owner' = NoStarter
    /\ ForgetQueues
    /\ Rerouted(owner, "gone")
    /\ UNCHANGED <<endpoint, attempt>>

ChannelFinished ==
    /\ \A p \in Starter : route[p] \in {"forwarded", "refused", "gone"}
    /\ UNCHANGED channelVars

\* What a running process does by itself.
ChannelProgress ==
    \/ \E p \in Starter : \/ BecomeOwner(p) \/ StartServer(p)
                          \/ Connect(p) \/ ConnectFails(p) \/ AnswerMissed(p)
    \/ AcceptRequest \/ RejectFull \/ DrainRequests \/ HandleRequest

ChannelNext ==
    \/ ChannelProgress
    \/ \E p \in Starter : StartLauncher(p) \/ StartServerFails(p)
    \/ StopAccepting \/ CloseInstance \/ OwnerDies
    \/ ChannelFinished

ChannelSpec == ChannelInit /\ [][ChannelNext]_channelVars

\* Each thread of a live process runs on.
ChannelFairness ==
    /\ \A p \in Starter : WF_channelVars(BecomeOwner(p) \/ StartServer(p) \/ Connect(p)
                                         \/ ConnectFails(p) \/ AnswerMissed(p))
    /\ WF_channelVars(AcceptRequest \/ RejectFull)
    /\ WF_channelVars(DrainRequests)
    /\ WF_channelVars(HandleRequest)

-----------------------------------------------------------------------------
\* How often the present owner has taken the request of p.
Taken(p) ==
    Cardinality({i \in DOMAIN requests : requests[i] = p})
    + Cardinality({i \in DOMAIN batch : batch[i] = p})
    + Cardinality({i \in DOMAIN handled : handled[i] = p})

\* A request that is sent again, because its answer came too late or not at
\* all, runs once in an owner (_serve, _seen).
RequestRunsOnce == \A p \in Starter : Taken(p) <= 1

\* A process that works as the launcher has the lock, so a second desktop
\* process never exists, not even while the first one shuts down (close).
OneDesktopProcess ==
    \A p \in Starter : route[p] \in {"starting", "serving", "closing"} => owner = p

\* A starter exits believing its request delivered only if the owner that
\* runs at that moment has taken it and still accepts requests (_serve).
AcknowledgedIsTaken ==
    [][\A p \in Starter : route[p] # "forwarded" /\ route'[p] = "forwarded" =>
            /\ owner' # NoStarter /\ route'[owner'] = "serving"
            /\ Taken(p)' = 1]_channelVars

\* The channel and its owner are one: a request runs once, in the one desktop process (_serve, close).
ChannelIsSafe == RequestRunsOnce /\ OneDesktopProcess

\* Unless the owner ends, a request it has taken is handled: the queue is
\* drained and a busy UI comes back to it (handle_instance_requests).
TakenIsHandled ==
    \A p \in Starter :
        p \in ToSet(requests) \union ToSet(batch)
            ~> p \in ToSet(handled) \/ owner = NoStarter \/ route[owner] = "closing"

\* Every start ends in a window, a delivered request or an error message.
EveryStartEnds ==
    \A p \in Starter :
        route[p] = "routing" ~> route[p] \in {"serving", "forwarded", "refused", "gone"}
\* Who is told that a request was delivered is told the truth, and nobody waits
\* for ever, neither the user who starts the launcher nor a request that was
\* taken (start_or_forward, handle_instance_requests).
ChannelAnswers == AcknowledgedIsTaken /\ TakenIsHandled /\ EveryStartEnds
=============================================================================
