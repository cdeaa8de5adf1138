---------------------------- MODULE BrokerClient ----------------------------
(***************************************************************************)
(* The connection to one Kafka broker: _KafkaBrokerClient of               *)
(* afkak/brokerclient.py, with the reactor events its KafkaProtocol        *)
(* forwards to it (afkak/_protocol.py).                                    *)
(*                                                                         *)
(* Requests are numbered in the order makeRequest() receives them, so the  *)
(* OrderedDict self.requests is the set `requests` and its insertion order *)
(* is the order of the numbers.  A request object outlives its entry of    *)
(* the dict: `sent` and `cancelled` hold the objects whose attribute is    *)
(* not None.                                                               *)
(*                                                                         *)
(* A Deferred runs its callbacks inside the call that fires it.  Two       *)
(* handlers fire Deferreds and then go on: the loop of _sendQueued (over a *)
(* copy of the dict) and the loop of close().  Each takes one step per     *)
(* iteration, `cb` says that the last iteration has fired a Deferred, and  *)
(* only then may the caller's code run in between.  Every other handler    *)
(* fires as its last act and is one step.                                  *)
(***************************************************************************)
EXTENDS Naturals, Sequences, FiniteSets

CONSTANTS
    MaxRequests, \* bound: calls of makeRequest()
    Kinds,       \* the kinds of request callers make, see KindsKnown
    Conn,        \* names for the connections that are open at once
    Loop,        \* names for the connect loops (calls of _connect()) alive at once
    Addr,        \* addresses (host, port) the metadata may give the broker
    Live,        \* those of them at which the broker accepts connections
    None         \* Python's None

Ids == 1 .. MaxRequests

\* "reply": expectResponse; "noreply": not expectResponse;
\* "unsendable": a request whose sendString() raises.
ASSUME KindsKnown == Kinds \subseteq {"reply", "noreply", "unsendable"}
ASSUME MaxRequestsNat == MaxRequests \in Nat
ASSUME NoneIsNothing == None \notin Conn /\ None \notin Loop
ASSUME LiveIsAddr == Live \subseteq Addr /\ Addr # {}

VARIABLES
    made,      \* number of requests made
    kind,      \* their kinds
    requests,  \* keys of self.requests
    sent,      \* request objects with sent # None
    cancelled, \* request objects with cancelled # None
    result,    \* state of each request's Deferred
    addr,      \* self.host, self.port
    connector, \* self.connector: the connect loop that set it, or None
    loop,      \* where each connect loop is
    dialed,    \* the address of its latest attempt
    proto,     \* self.proto
    open,      \* connections that are up
    losing,    \* those on which transport.loseConnection() was called
    wire,      \* what was written to each, in order
    base,      \* number of requests made before it came up
    todo,      \* what _sendQueued has yet to look at
    closing,   \* the loop of close() is running
    cb,        \* a caller's callback runs inside a handler's loop
    down,      \* self._dDown
    escaped    \* history: a KeyError has escaped from _sendQueued

reqVars  == <<made, kind, requests, sent, cancelled, result>>
dialVars == <<connector, loop, dialed>>
connVars == <<proto, open, losing, wire, base>>
ctlVars  == <<todo, closing, cb>>
vars == <<reqVars, addr, dialVars, connVars, ctlVars, down, escaped>>

Outcomes == {"response", "none", "error", "cancelled", "closed"}

Init ==
    /\ made = 0
    /\ kind = [id \in Ids |-> "unmade"]
    /\ requests = {} /\ sent = {} /\ cancelled = {}
    /\ result = [id \in Ids |-> "unmade"]
    /\ addr \in Addr
    /\ connector = None
    /\ loop = [l \in Loop |-> "off"]
    /\ dialed = [l \in Loop |-> addr]
    /\ proto = None
    /\ open = {} /\ losing = {}
    /\ wire = [c \in Conn |-> <<>>]
    /\ base = [c \in Conn |-> 0]
    /\ todo = {} /\ closing = FALSE /\ cb = FALSE
    /\ down = "none"
    /\ escaped = FALSE

\* No handler is on the stack: the reactor may deliver its next event.
Idle == todo = {} /\ ~closing

\* The caller's code runs: from the reactor, or inside a fired Deferred.
CallerRuns == Idle \/ cb

OnWire(c, id) == \E i \in 1 .. Len(wire[c]) : wire[c][i] = id

-----------------------------------------------------------------------------
(* Connecting *)

\* Mutant: the address is read once per connect loop, not once per attempt.
TryConnectFixedAddress(l) ==
    /\ loop' = [loop EXCEPT ![l] = "connecting"]
    /\ dialed' = IF loop[l] = "delay" THEN dialed ELSE [dialed EXCEPT ![l] = addr]
    /\ connector' = l

\* tryConnect(): connect() reads self.host and self.port anew every time.
TryConnect(l) ==
    /\ loop' = [loop EXCEPT ![l] = "connecting"]
    /\ dialed' = [dialed EXCEPT ![l] = addr]
    /\ connector' = l

Connect == \E l \in Loop : loop[l] = "off" /\ TryConnect(l)

\* ebConnect() outside close(): wait, then dial again.
RetryLater(l) ==
    /\ loop' = [loop EXCEPT ![l] = "delay"]
    /\ connector' = l
    /\ UNCHANGED dialed

\* The endpoint's connection attempt has succeeded.
CbConnect(l, c) ==
    /\ Idle
    /\ loop[l] = "connecting" /\ dialed[l] \in Live
    /\ c \notin open
    /\ open' = open \cup {c}
    /\ base' = [base EXCEPT ![c] = made]
    /\ proto' = c
    /\ connector' = None
    /\ IF down = "none"
       THEN /\ todo' = requests
            /\ loop' = [loop EXCEPT ![l] = IF requests = {} THEN "off" ELSE "sending"]
            /\ UNCHANGED losing
       ELSE /\ losing' = losing \cup {c}
            /\ loop' = [loop EXCEPT ![l] = "off"]
            /\ UNCHANGED todo
    /\ UNCHANGED <<reqVars, addr, dialed, wire, closing, cb, down, escaped>>

\* The endpoint's connection attempt has failed.
EbConnect(l) ==
    /\ Idle
    /\ loop[l] = "connecting"
    /\ IF down = "none"
       THEN RetryLater(l)
       ELSE /\ loop' = [loop EXCEPT ![l] = "off"]
            /\ UNCHANGED <<connector, dialed>>
    /\ UNCHANGED <<reqVars, addr, connVars, ctlVars, down, escaped>>

\* The retry policy's delay is over.
CbDelayed(l) ==
    /\ Idle
    /\ loop[l] = "delay"
    /\ TryConnect(l)
    /\ UNCHANGED <<reqVars, addr, connVars, ctlVars, down, escaped>>

UpdateMetadata(a) ==
    /\ CallerRuns
    /\ a # addr
    /\ addr' = a
    /\ UNCHANGED <<reqVars, dialVars, connVars, ctlVars, down, escaped>>

-----------------------------------------------------------------------------
(* Sending *)

\* The try block of _sendRequest(): sent is set even if sendString() raises.
Write(id, k) ==
    /\ sent' = sent \cup {id}
    /\ wire' = IF k = "unsendable" THEN wire ELSE [wire EXCEPT ![proto] = Append(@, id)]

\* What _sendRequest() fires the Deferred with; "pending": it does not.
SendOutcome(k) ==
    IF k = "reply" THEN "pending" ELSE IF k = "noreply" THEN "none" ELSE "error"

\* Mutant: makeRequest() does not look at _dDown.
AcceptsWhenClosed == TRUE

\* makeRequest() queues a request only if close() was not called.
Accepts == down = "none"

MakeRequest(k) ==
    /\ CallerRuns
    /\ made < MaxRequests
    /\ LET id == made + 1 IN
       /\ made' = id
       /\ kind' = [kind EXCEPT ![id] = k]
       /\ \/ /\ ~Accepts
             /\ result' = [result EXCEPT ![id] = "closed"]
             /\ UNCHANGED <<requests, sent, wire, dialVars>>
          \/ /\ Accepts /\ proto # None
             /\ Write(id, k)
             /\ requests' = IF k = "reply" THEN requests \cup {id} ELSE requests
             /\ result' = [result EXCEPT ![id] = SendOutcome(k)]
             /\ UNCHANGED dialVars
          \/ /\ Accepts /\ proto = None
             /\ requests' = requests \cup {id}
             /\ result' = [result EXCEPT ![id] = "pending"]
             /\ IF connector = None THEN Connect ELSE UNCHANGED dialVars
             /\ UNCHANGED <<sent, wire>>
    /\ UNCHANGED <<cancelled, addr, proto, open, losing, base, ctlVars, down, escaped>>

\* Mutant: the queue is worked off from its newest end.
NewestQueued(id) == id \in todo /\ \A other \in todo : other <= id

\* The request of the copied list that the loop of _sendQueued looks at next.
NextQueued(id) == id \in todo /\ \A other \in todo : id <= other

\* The loop ends with its last request: cbConnect() returns.
Sending(rest) ==
    /\ todo' = rest
    /\ loop' = [l \in Loop |->
                  IF loop[l] = "sending" /\ rest = {} THEN "off" ELSE loop[l]]
    /\ UNCHANGED <<connector, dialed, down, escaped>>

\* An iteration that skips a request or sends it.
SendQueued ==
    \E id \in Ids :
        /\ NextQueued(id) /\ ~closing
        /\ id \in sent \/ kind[id] = "reply" \/ id \in requests
        /\ IF id \in sent
           THEN cb' = FALSE /\ UNCHANGED <<requests, sent, wire, result>>
           ELSE /\ Write(id, kind[id])
                /\ IF kind[id] = "reply"
                   THEN cb' = FALSE /\ UNCHANGED <<requests, result>>
                   ELSE /\ requests' = requests \ {id}
                        /\ result' = [result EXCEPT ![id] = SendOutcome(kind[id])]
                        /\ cb' = (todo # {id})
        /\ Sending(todo \ {id})
        /\ UNCHANGED <<made, kind, cancelled, addr, proto, open, losing, base, closing>>

\* A callback has removed the request from self.requests since the list was
\* copied: the KeyError of _sendRequest()'s del leaves cbConnect() and lands in
\* ebConnect(), which only a closed client stops from dialing again.
SendQueuedKeyError ==
    \E id \in Ids :
        /\ NextQueued(id) /\ ~closing
        /\ id \notin sent /\ kind[id] # "reply" /\ id \notin requests
        /\ Write(id, kind[id])
        /\ todo' = {} /\ cb' = FALSE
        /\ \E l \in Loop :
             /\ loop[l] = "sending"
             /\ IF down = "none"
                THEN RetryLater(l) /\ escaped' = TRUE
                ELSE /\ loop' = [loop EXCEPT ![l] = "off"]
                     /\ UNCHANGED <<connector, dialed, escaped>>
        /\ UNCHANGED <<made, kind, requests, cancelled, result, addr, proto, open,
                       losing, base, closing, down>>

-----------------------------------------------------------------------------
(* Responses, cancellation, loss of the connection *)

\* Mutant: a late response fires the Deferred of a cancelled request.
AwaitedEvenIfCancelled(id) == id \in requests

\* handleResponse() fires the Deferred of a tracked request unless cancelled.
Awaited(id) == id \in requests /\ id \notin cancelled

HandleResponse(c, id) ==
    /\ Idle
    /\ c \in open /\ OnWire(c, id) /\ kind[id] = "reply"
    /\ requests' = requests \ {id}
    /\ result' = IF Awaited(id) THEN [result EXCEPT ![id] = "response"] ELSE result
    /\ UNCHANGED <<made, kind, sent, cancelled, addr, dialVars, connVars, ctlVars,
                   down, escaped>>

\* cancel() of a request's Deferred: _cancelRequest(), then CancelledError.
CancelRequest(id) ==
    /\ CallerRuns
    /\ result[id] = "pending"
    /\ IF id \in sent
       THEN cancelled' = cancelled \cup {id} /\ UNCHANGED requests
       ELSE requests' = requests \ {id} /\ UNCHANGED cancelled
    /\ result' = [result EXCEPT ![id] = "cancelled"]
    /\ closing' = (closing /\ requests' # {})
    /\ cb' = (cb /\ (todo # {} \/ closing'))
    /\ UNCHANGED <<made, kind, sent, addr, dialVars, proto, open, wire, base, todo,
                   down, escaped>>

Cancel(id) == CancelRequest(id) /\ UNCHANGED losing

\* disconnect(), which KafkaClient calls when a request times out.
Disconnect ==
    /\ CallerRuns
    /\ proto # None
    /\ losing' = losing \cup {proto}
    /\ UNCHANGED <<reqVars, addr, dialVars, proto, open, wire, base, ctlVars, down, escaped>>

\* Mutants: self.proto is not reset; requests in flight are discarded, not just
\* the cancelled ones; the marks of sent requests are kept; _dDown is not fired;
\* the client waits for the next makeRequest() to connect again.
ProtoKept == proto
OnlyUnsent == requests \ sent
MarksKept == sent
DownIgnored == down
NoReconnect == UNCHANGED dialVars

\* What _connectionLost() makes of self.proto, self.requests, the marks of the
\* requests it keeps, and _dDown; and whether it connects again.
ProtoAfterLoss == None
KeptAfterLoss == requests \ cancelled
SentAfterLoss == sent \ KeptAfterLoss
DownAfterLoss == IF down = "none" THEN "none" ELSE "fired"
Reconnect ==
    IF down = "none" /\ KeptAfterLoss # {} THEN Connect ELSE UNCHANGED dialVars

ConnectionLost(c) ==
    /\ Idle
    /\ c \in open
    /\ open' = open \ {c}
    /\ losing' = losing \ {c}
    /\ wire' = [wire EXCEPT ![c] = <<>>]
    /\ base' = [base EXCEPT ![c] = 0]
    /\ proto' = ProtoAfterLoss
    /\ requests' = KeptAfterLoss
    /\ sent' = SentAfterLoss
    /\ down' = DownAfterLoss
    /\ Reconnect
    /\ UNCHANGED <<made, kind, cancelled, result, addr, ctlVars, escaped>>

-----------------------------------------------------------------------------
(* close() *)

\* Mutant: close() leaves the connect loop alone.
ConnectorLeftRunning ==
    /\ down' = "fired"
    /\ UNCHANGED <<dialVars, proto, open, losing, base>>

\* connector.cancel() fails the pending attempt or delay, and connectingFailed()
\* fires _dDown.
CancelConnector ==
    /\ down' = "fired"
    /\ loop' = [loop EXCEPT ![connector] = "off"]
    /\ UNCHANGED <<connector, dialed, proto, open, losing, base>>

\* The attempt succeeds although it was cancelled: cbConnect() drops it.
ConnectDespiteCancel(c) ==
    /\ loop[connector] = "connecting" /\ dialed[connector] \in Live
    /\ c \notin open
    /\ down' = "pending"
    /\ loop' = [loop EXCEPT ![connector] = "off"]
    /\ connector' = None
    /\ proto' = c
    /\ open' = open \cup {c} /\ losing' = losing \cup {c}
    /\ base' = [base EXCEPT ![c] = made]
    /\ UNCHANGED dialed

Close ==
    /\ CallerRuns
    /\ down = "none"
    /\ \/ /\ proto # None
          /\ down' = "pending"
          /\ losing' = losing \cup {proto}
          /\ UNCHANGED <<dialVars, proto, open, base>>
       \/ /\ proto = None /\ connector # None
          /\ CancelConnector \/ \E c \in Conn : ConnectDespiteCancel(c)
       \/ /\ proto = None /\ connector = None
          /\ down' = "fired"
          /\ UNCHANGED <<dialVars, proto, open, losing, base>>
    /\ closing' = (requests # {})
    /\ cb' = (requests = {} /\ todo # {})
    /\ UNCHANGED <<reqVars, addr, wire, todo, escaped>>

\* An iteration of close()'s loop: popitem(True) takes the newest request.
CloseRequest ==
    /\ closing
    /\ \E id \in requests :
         /\ \A other \in requests : other <= id
         /\ requests' = requests \ {id}
         /\ result' = IF id \in cancelled THEN result ELSE [result EXCEPT ![id] = "closed"]
         /\ closing' = (requests' # {})
         /\ cb' = IF closing' THEN id \notin cancelled ELSE todo # {}
    /\ UNCHANGED <<made, kind, sent, cancelled, addr, dialVars, connVars, todo, down, escaped>>

-----------------------------------------------------------------------------

Next ==
    \/ \E k \in Kinds : MakeRequest(k)
    \/ \E id \in Ids : Cancel(id)
    \/ \E a \in Addr : UpdateMetadata(a)
    \/ Disconnect
    \/ Close
    \/ CloseRequest
    \/ SendQueued
    \/ SendQueuedKeyError
    \/ \E l \in Loop : EbConnect(l) \/ CbDelayed(l)
    \/ \E l \in Loop, c \in Conn : CbConnect(l, c)
    \/ \E c \in Conn : ConnectionLost(c)
    \/ \E c \in Conn, id \in Ids : HandleResponse(c, id)

Spec == Init /\ [][Next]_vars

(***************************************************************************)
(* Fairness.  The two loops are ordinary code and run to their end.  The   *)
(* reactor calls delayed calls, and reports the end of every attempt and   *)
(* of every connection it was told to lose (weak fairness).  Of the broker *)
(* we ask what a request needs to be answered at all: attempts to reach it *)
(* where it listens do not fail for ever, and a request that is sent again *)
(* and again is answered in the end (strong fairness).                     *)
(***************************************************************************)
Fairness ==
    /\ WF_vars(SendQueued) /\ WF_vars(SendQueuedKeyError) /\ WF_vars(CloseRequest)
    /\ \A l \in Loop : WF_vars(CbDelayed(l)) /\ WF_vars(EbConnect(l))
    /\ \A c \in Conn : WF_vars(c \in losing /\ ConnectionLost(c))
    /\ \A l \in Loop : SF_vars(\E c \in Conn : CbConnect(l, c))
    /\ \A id \in Ids : SF_vars(\E c \in Conn : HandleResponse(c, id))

FairSpec == Spec /\ Fairness

-----------------------------------------------------------------------------
(* Properties *)

TypeOK ==
    /\ made \in 0 .. MaxRequests
    /\ kind \in [Ids -> Kinds \cup {"unmade"}]
    /\ requests \subseteq Ids /\ sent \subseteq Ids /\ cancelled \subseteq Ids
    /\ result \in [Ids -> Outcomes \cup {"unmade", "pending"}]
    /\ addr \in Addr
    /\ connector \in Loop \cup {None}
    /\ loop \in [Loop -> {"off", "connecting", "delay", "sending"}]
    /\ dialed \in [Loop -> Addr]
    /\ proto \in Conn \cup {None}
    /\ open \subseteq Conn /\ losing \subseteq open
    /\ wire \in [Conn -> Seq(Ids)]
    /\ base \in [Conn -> 0 .. MaxRequests]
    /\ todo \subseteq Ids
    /\ closing \in BOOLEAN /\ cb \in BOOLEAN
    /\ down \in {"none", "pending", "fired"}
    /\ escaped \in BOOLEAN

\* A Deferred that makeRequest() returned is unfired exactly as long as its
\* request is in self.requests and not cancelled.  So no handler fires a
\* Deferred twice (AlreadyCalledError), cancel() always finds its request
\* (_cancelRequest() indexes the dict), and nothing is dropped unanswered.
PendingIffTracked ==
    \A id \in Ids : result[id] = "pending" <=> id \in requests \ cancelled

\* When no handler runs and the client is open, a request that is still to be
\* written has a connect loop working for it, which self.connector holds: no
\* path through makeRequest(), _connectionLost(), ebConnect() or the loop of
\* _sendQueued() leaves a request behind that nothing will send.
NeverForgotten ==
    Idle /\ down = "none" /\ requests \ sent # {} =>
        connector # None /\ loop[connector] \in {"connecting", "delay"}

\* A request marked as sent was written to a connection that is still up, so
\* either its response or the loss of that connection is yet to come: the mark
\* never outlives the connection it is about.
SentIsOutstanding ==
    \A id \in requests \cap sent : \E c \in open : OnWire(c, id)

\* makeRequest(): "Each request is sent at most once per broker connection",
\* and "requests are resent upon reconnection in the order originally issued".
\* On every connection requests are written oldest first and never twice; only
\* one that a callback makes while the loop of _sendQueued() runs may overtake
\* those that waited for the connection.
WrittenInOrder ==
    \A c \in Conn : \A i, j \in 1 .. Len(wire[c]) : i < j =>
        \/ wire[c][i] < wire[c][j]
        \/ wire[c][j] <= base[c] /\ base[c] < wire[c][i]

\* Once close() has emptied self.requests nothing enters it again, so no caller
\* waits for a closed client.
ClosedIsEmpty ==
    down # "none" /\ ~closing => requests = {}

\* Unless a KeyError has escaped from _sendQueued(), the client never has two
\* connections, nor dials while it has one, and when close()'s Deferred fires
\* no connection and no connect loop is left behind.
OneConnection ==
    ~escaped =>
        /\ \A c \in open : c = proto
        /\ open # {} => \A l \in Loop : loop[l] \in {"off", "sending"}
        /\ down = "fired" => open = {} /\ \A l \in Loop : loop[l] = "off"

\* Every request is answered, or fails, provided the metadata settles on an
\* address where the broker listens: whatever connections are lost, whatever
\* is cancelled, closed or called from callbacks in between.
EveryRequestResolved ==
    <>[](addr \in Live) =>
        \A id \in Ids : result[id] = "pending" ~> result[id] # "pending"

\* What a caller sees of this client is what RequestLedger allows: one Deferred
\* per request that fires once and keeps its outcome, and ClientError only
\* because of close().
Ledger == INSTANCE RequestLedger WITH closed <- down # "none"
ImplementsLedger == Ledger!Spec

\* The Deferred that close() returns fires.
CloseCompletes == down = "pending" ~> down = "fired"

\* _RequestState: "A request that hasn't been written will be discarded
\* immediately (never sent) when cancelled."
CancelledIsNeverSent ==
    [][\A id \in Ids : result[id] = "cancelled" /\ id \notin sent => id \notin sent']_vars

\* _connect(): "This routine will repeatedly try to connect to the broker [...]
\* until it succeeds": once connected, no loop dials or waits to dial.
ConnectsUntilItSucceeds ==
    proto # None => \A l \in Loop : loop[l] \in {"off", "sending"}
=============================================================================
