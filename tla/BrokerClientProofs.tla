------------------------- MODULE BrokerClientProofs -------------------------
(***************************************************************************)
(* Proofs about BrokerClient, for any number of requests, connections,     *)
(* connect loops and addresses.                                            *)
(***************************************************************************)
EXTENDS BrokerClient, TLAPS

\* What proto needs for a write: the loop of _sendQueued only runs on a
\* connection, which is up.
ProtoUp ==
    /\ proto # None => proto \in open
    /\ todo # {} => proto # None

TypeInv == TypeOK /\ ProtoUp

\* A client that was just constructed has the types.
LEMMA TypeInit == Init => TypeInv
<1> SUFFICES ASSUME Init PROVE TypeInv
  OBVIOUS
<1>1. made \in 0 .. MaxRequests /\ base \in [Conn -> 0 .. MaxRequests]
  BY MaxRequestsNat DEF Init
<1>2. wire \in [Conn -> Seq(Ids)]
  BY DEF Init
<1> QED
  BY <1>1, <1>2 DEF Init, TypeInv, TypeOK, ProtoUp, Outcomes

\* _sendRequest() appends at most one request, to the current connection.
LEMMA WriteAppends ==
  ASSUME wire \in [Conn -> Seq(Ids)], proto \in Conn, NEW id \in Ids, NEW k,
         Write(id, k)
  PROVE  /\ wire' \in [Conn -> Seq(Ids)]
         /\ \A c \in Conn \ {proto} : wire'[c] = wire[c]
         /\ k = "unsendable" => wire' = wire
         /\ k # "unsendable" =>
              /\ Len(wire'[proto]) = Len(wire[proto]) + 1
              /\ wire'[proto][Len(wire[proto]) + 1] = id
              /\ \A i \in 1 .. Len(wire[proto]) : wire'[proto][i] = wire[proto][i]
  BY DEF Write

\* Every step keeps the types and never leaves self.proto pointing to a
\* connection that is gone.
LEMMA TypeStep == TypeInv /\ [Next]_vars => TypeInv'
<1> SUFFICES ASSUME TypeInv, [Next]_vars PROVE TypeInv'
  OBVIOUS
<1> USE MaxRequestsNat, NoneIsNothing
<1> USE DEF TypeInv, TypeOK, ProtoUp, Outcomes
<1>1. ASSUME NEW k \in Kinds, MakeRequest(k) PROVE TypeInv'
  <2>1. made' \in 0 .. MaxRequests /\ made + 1 \in Ids
    BY <1>1 DEF MakeRequest, Accepts, Ids
  <2>2. sent' \subseteq Ids /\ wire' \in [Conn -> Seq(Ids)]
    <3>1. proto # None /\ Write(made + 1, k) => wire' \in [Conn -> Seq(Ids)]
      BY <2>1, WriteAppends
    <3> QED
      BY <1>1, <2>1, <3>1 DEF MakeRequest, Accepts, Write
  <2>3. requests' \subseteq Ids /\ kind' \in [Ids -> Kinds \cup {"unmade"}]
    BY <1>1, <2>1 DEF MakeRequest, Accepts
  <2>4. result' \in [Ids -> Outcomes \cup {"unmade", "pending"}]
    BY <1>1, <2>1 DEF MakeRequest, Accepts, SendOutcome
  <2>5. /\ connector' \in Loop \cup {None}
        /\ loop' \in [Loop -> {"off", "connecting", "delay", "sending"}]
        /\ dialed' \in [Loop -> Addr]
    <3>1. Connect \/ UNCHANGED dialVars
      BY <1>1 DEF MakeRequest, Accepts
    <3> QED
      BY <3>1 DEF Connect, TryConnect, dialVars
  <2> QED
    <3>1. made' \in 0 .. MaxRequests
      BY <2>1
    <3> HIDE <2>1
    <3> QED
      BY <1>1, <3>1, <2>2, <2>3, <2>4, <2>5 DEF MakeRequest, Accepts, ctlVars
<1>2. ASSUME NEW id \in Ids, Cancel(id) PROVE TypeInv'
  BY <1>2 DEF Cancel, CancelRequest, dialVars
<1>3. ASSUME NEW a \in Addr, UpdateMetadata(a) PROVE TypeInv'
  BY <1>3 DEF UpdateMetadata, reqVars, dialVars, connVars, ctlVars
<1>4. CASE Disconnect
  BY <1>4 DEF Disconnect, reqVars, dialVars, ctlVars
<1>5. CASE Close
  <2>1. /\ down' \in {"none", "pending", "fired"}
        /\ proto' \in Conn \cup {None}
        /\ open' \subseteq Conn /\ losing' \subseteq open'
        /\ proto' # None => proto' \in open'
        /\ todo' # {} => proto' # None
    BY <1>5 DEF Close, CancelConnector, ConnectDespiteCancel
  <2>2. base' \in [Conn -> 0 .. MaxRequests]
    BY <1>5 DEF Close, CancelConnector, ConnectDespiteCancel
  <2>3. /\ connector' \in Loop \cup {None}
        /\ loop' \in [Loop -> {"off", "connecting", "delay", "sending"}]
        /\ dialed' \in [Loop -> Addr]
    BY <1>5 DEF Close, CancelConnector, ConnectDespiteCancel, dialVars
  <2> QED
    BY <1>5, <2>1, <2>2, <2>3 DEF Close, reqVars
<1>6. CASE CloseRequest
  BY <1>6 DEF CloseRequest, dialVars, connVars
<1>7. CASE SendQueued
  <2> PICK id \in Ids : SendQueued!(id)
    BY <1>7 DEF SendQueued
  <2>a. proto \in Conn
    BY DEF NextQueued
  <2>1. sent' \subseteq Ids /\ wire' \in [Conn -> Seq(Ids)]
    <3>1. Write(id, kind[id]) \/ UNCHANGED <<sent, wire>>
      OBVIOUS
    <3>2. Write(id, kind[id]) => wire' \in [Conn -> Seq(Ids)]
      BY <2>a, WriteAppends
    <3> QED
      BY <3>1, <3>2 DEF Write
  <2>2. requests' \subseteq Ids
    OBVIOUS
  <2>3. result' \in [Ids -> Outcomes \cup {"unmade", "pending"}]
    <3>1. SendOutcome(kind[id]) \in Outcomes \cup {"pending"}
      BY DEF SendOutcome
    <3> QED
      BY <3>1
  <2>4. loop' \in [Loop -> {"off", "connecting", "delay", "sending"}]
    BY DEF Sending
  <2>5. cb' \in BOOLEAN /\ todo' \subseteq Ids /\ (todo' # {} => proto' # None)
    BY DEF Sending, NextQueued
  <2> QED
    BY <2>1, <2>2, <2>3, <2>4, <2>5 DEF Sending
<1>8. CASE SendQueuedKeyError
  <2> PICK id \in Ids : SendQueuedKeyError!(id)
    BY <1>8 DEF SendQueuedKeyError
  <2>1. proto \in Conn
    BY DEF NextQueued
  <2>2. sent' \subseteq Ids /\ wire' \in [Conn -> Seq(Ids)]
    BY <2>1, WriteAppends DEF Write
  <2> QED
    BY <2>2 DEF RetryLater
<1>9. ASSUME NEW l \in Loop, EbConnect(l) \/ CbDelayed(l) PROVE TypeInv'
  BY <1>9 DEF EbConnect, CbDelayed, RetryLater, TryConnect, reqVars, connVars, ctlVars
<1>10. ASSUME NEW l \in Loop, NEW c \in Conn, CbConnect(l, c) PROVE TypeInv'
  BY <1>10 DEF CbConnect, reqVars
<1>11. ASSUME NEW c \in Conn, ConnectionLost(c) PROVE TypeInv'
  <2>1. wire' \in [Conn -> Seq(Ids)] /\ base' \in [Conn -> 0 .. MaxRequests]
    BY <1>11
    DEF ConnectionLost, ProtoAfterLoss, KeptAfterLoss, SentAfterLoss, DownAfterLoss,
        Reconnect
  <2>2. /\ connector' \in Loop \cup {None}
        /\ loop' \in [Loop -> {"off", "connecting", "delay", "sending"}]
        /\ dialed' \in [Loop -> Addr]
    BY <1>11
    DEF ConnectionLost, ProtoAfterLoss, KeptAfterLoss, SentAfterLoss, DownAfterLoss,
        Reconnect, Connect, TryConnect, dialVars
  <2> QED
    BY <1>11, <2>1, <2>2
    DEF ConnectionLost, ProtoAfterLoss, KeptAfterLoss, SentAfterLoss, DownAfterLoss,
        Reconnect, ctlVars, Idle
<1>12. ASSUME NEW c \in Conn, NEW id \in Ids, HandleResponse(c, id) PROVE TypeInv'
  BY <1>12 DEF HandleResponse, Awaited, dialVars, connVars, ctlVars
<1>13. CASE UNCHANGED vars
  BY <1>13 DEF vars, reqVars, dialVars, connVars, ctlVars
<1> QED
  BY <1>1, <1>2, <1>3, <1>4, <1>5, <1>6, <1>7, <1>8, <1>9, <1>10, <1>11, <1>12,
     <1>13 DEF Next

-----------------------------------------------------------------------------
(* What callers are told *)

\* A request that was not made yet has left no trace.
Fresh ==
    \A id \in Ids :
        /\ id <= made <=> result[id] # "unmade"
        /\ id <= made => kind[id] \in Kinds
        /\ id > made => /\ id \notin requests /\ id \notin sent
                        /\ id \notin cancelled /\ id \notin todo

LedgerInv ==
    /\ Fresh
    /\ PendingIffTracked
    /\ ClosedIsEmpty
    /\ down = "none" => ~closing
    /\ requests \cap cancelled \subseteq sent

\* A new client has no requests and no Deferreds.
LEMMA LedgerInit == Init => LedgerInv
  BY MaxRequestsNat DEF Init, LedgerInv, Fresh, PendingIffTracked, ClosedIsEmpty, Ids

\* The Deferred of a request and its entry of self.requests change together in
\* every handler.
LEMMA LedgerStep == TypeInv /\ LedgerInv /\ [Next]_vars => LedgerInv'
<1> SUFFICES ASSUME TypeInv, LedgerInv, [Next]_vars PROVE LedgerInv'
  OBVIOUS
<1> USE DEF TypeInv, TypeOK, LedgerInv, Fresh, PendingIffTracked, ClosedIsEmpty
<1>0. made \in Nat /\ Ids \subseteq Nat
  BY MaxRequestsNat DEF Ids
<1>1. ASSUME NEW k \in Kinds, MakeRequest(k) PROVE LedgerInv'
  <2>1. made + 1 \in Ids /\ made' = made + 1
    BY <1>1, MaxRequestsNat DEF MakeRequest, Accepts, Ids
  <2>2. \A id \in Ids \ {made + 1} :
          /\ id <= made' <=> id <= made
          /\ result'[id] = result[id] /\ kind'[id] = kind[id]
          /\ id \in requests' <=> id \in requests
          /\ id \in sent' <=> id \in sent
    BY <1>0, <1>1, <2>1 DEF MakeRequest, Accepts, Write
  <2>3. /\ cancelled' = cancelled /\ todo' = todo
        /\ down' = down /\ closing' = closing
    BY <1>1 DEF MakeRequest, Accepts, ctlVars
  <2>4. /\ kind'[made + 1] = k
        /\ result'[made + 1] \in {"pending", "none", "error", "closed"}
        /\ result'[made + 1] = "pending" <=> made + 1 \in requests'
        /\ down # "none" => requests' = requests
    BY <1>0, <1>1, <2>1 DEF MakeRequest, Accepts, SendOutcome
  <2>5. \A id \in Ids : id = made + 1 \/ id \in Ids \ {made + 1}
    OBVIOUS
  <2>6. Fresh'
    BY <1>0, <2>1, <2>2, <2>3, <2>4, <2>5
  <2>7. PendingIffTracked'
    BY <1>0, <2>1, <2>2, <2>3, <2>4, <2>5
  <2>8. ClosedIsEmpty' /\ (down' = "none" => ~closing')
    BY <2>3, <2>4
  <2>9. made + 1 \notin cancelled
    BY <1>0, <2>1
  <2>10. requests' \cap cancelled' \subseteq sent'
    BY <2>2, <2>3, <2>9
  <2> QED
    BY <2>6, <2>7, <2>8, <2>10
<1>2. ASSUME NEW id \in Ids, Cancel(id) PROVE LedgerInv'
  BY <1>2 DEF Cancel, CancelRequest
<1>3. ASSUME NEW a \in Addr, UpdateMetadata(a) PROVE LedgerInv'
  BY <1>3 DEF UpdateMetadata, reqVars, ctlVars
<1>4. CASE Disconnect
  BY <1>4 DEF Disconnect, reqVars, ctlVars
<1>5. CASE Close
  BY <1>5 DEF Close, CancelConnector, ConnectDespiteCancel, reqVars
<1>6. CASE CloseRequest
  BY <1>6 DEF CloseRequest
<1>7. CASE SendQueued
  <2> PICK id \in Ids : SendQueued!(id)
    BY <1>7 DEF SendQueued
  <2>1. id <= made /\ todo' \subseteq todo
    BY <1>0 DEF NextQueued, Sending
  <2>2. SendOutcome(kind[id]) \notin {"unmade", "pending"} \/ kind[id] = "reply"
    BY DEF SendOutcome
  <2>3. sent' = sent \/ sent' = sent \cup {id}
    BY DEF Write
  <2>4. \/ requests' = requests /\ result' = result
        \/ /\ id \in requests /\ id \notin sent /\ kind[id] # "reply"
           /\ requests' = requests \ {id}
           /\ result' = [result EXCEPT ![id] = SendOutcome(kind[id])]
    OBVIOUS
  <2>5. Fresh'
    BY <1>0, <2>1, <2>2, <2>3, <2>4
  <2>6. PendingIffTracked'
    BY <2>2, <2>4
  <2>7. ClosedIsEmpty' /\ (down' = "none" => ~closing')
    BY <2>4 DEF Sending
  <2>8. requests' \cap cancelled' \subseteq sent'
    BY <2>3, <2>4
  <2> QED
    BY <2>5, <2>6, <2>7, <2>8
<1>8. CASE SendQueuedKeyError
  BY <1>8 DEF SendQueuedKeyError, NextQueued, Write
<1>9. ASSUME NEW l \in Loop, EbConnect(l) \/ CbDelayed(l) PROVE LedgerInv'
  BY <1>9 DEF EbConnect, CbDelayed, reqVars, ctlVars
<1>10. ASSUME NEW l \in Loop, NEW c \in Conn, CbConnect(l, c) PROVE LedgerInv'
  BY <1>10 DEF CbConnect, reqVars
<1>11. ASSUME NEW c \in Conn, ConnectionLost(c) PROVE LedgerInv'
  BY <1>11
  DEF ConnectionLost, ProtoAfterLoss, KeptAfterLoss, SentAfterLoss, DownAfterLoss,
      Reconnect, ctlVars
<1>12. ASSUME NEW c \in Conn, NEW id \in Ids, HandleResponse(c, id) PROVE LedgerInv'
  BY <1>12 DEF HandleResponse, Awaited, ctlVars
<1>13. CASE UNCHANGED vars
  BY <1>13 DEF vars, reqVars, ctlVars
<1> QED
  BY <1>1, <1>2, <1>3, <1>4, <1>5, <1>6, <1>7, <1>8, <1>9, <1>10, <1>11, <1>12,
     <1>13 DEF Next

-----------------------------------------------------------------------------
(* Requests on their way to the broker *)

\* self.connector holds a loop that is alive, and what is not written yet is
\* ahead of the loop of _sendQueued or has such a connector.
DeliveryInv ==
    /\ down = "none" /\ connector # None => loop[connector] \in {"connecting", "delay"}
    /\ down = "none" => requests \ sent \subseteq todo \/ connector # None
    /\ SentIsOutstanding

\* A new client has nothing to send and has sent nothing.
LEMMA DeliveryInit == Init => DeliveryInv
  BY DEF Init, DeliveryInv, SentIsOutstanding

\* A write keeps what is on the wire and adds the request.
LEMMA WriteKeepsWire ==
  ASSUME wire \in [Conn -> Seq(Ids)], proto \in Conn, NEW id \in Ids, NEW k,
         Write(id, k)
  PROVE  /\ \A c \in Conn, other \in Ids : OnWire(c, other) => OnWire(c, other)'
         /\ k # "unsendable" => \A c \in Conn : c = proto => OnWire(c, id)'
<1>1. \A c \in Conn : Len(wire[c]) \in Nat
  OBVIOUS
<1>2. ASSUME NEW c \in Conn
      PROVE  /\ Len(wire'[c]) \in Nat /\ Len(wire[c]) <= Len(wire'[c])
             /\ \A i \in 1 .. Len(wire[c]) : wire'[c][i] = wire[c][i]
  <2>1. CASE c = proto /\ k # "unsendable"
    BY <1>1, <2>1, WriteAppends
  <2>2. CASE c # proto \/ k = "unsendable"
    BY <1>1, <2>2, WriteAppends
  <2> QED
    BY <2>1, <2>2
<1>3. ASSUME k # "unsendable", NEW c \in Conn, c = proto PROVE OnWire(c, id)'
  <2>1. Len(wire[c]) + 1 \in 1 .. Len(wire'[c]) /\ wire'[c][Len(wire[c]) + 1] = id
    BY <1>1, <1>3, WriteAppends
  <2> QED
    BY <2>1 DEF OnWire
<1>4. ASSUME NEW c \in Conn, NEW other \in Ids, OnWire(c, other) PROVE OnWire(c, other)'
  BY <1>1, <1>2, <1>4 DEF OnWire
<1> QED
  BY <1>3, <1>4

\* No handler leaves an unsent request without someone to send it, nor a sent
\* mark without the connection it was sent on.
LEMMA DeliveryStep ==
  TypeInv /\ LedgerInv /\ DeliveryInv /\ [Next]_vars => DeliveryInv'
<1> SUFFICES ASSUME TypeInv, LedgerInv, DeliveryInv, [Next]_vars PROVE DeliveryInv'
  OBVIOUS
<1> USE NoneIsNothing
<1> USE DEF TypeInv, TypeOK, ProtoUp, DeliveryInv, SentIsOutstanding
<1>1. ASSUME NEW k \in Kinds, MakeRequest(k) PROVE DeliveryInv'
  <2>1. PICK new \in Ids : new = made + 1
    BY <1>1, MaxRequestsNat DEF MakeRequest, Accepts, Ids
  <2>2. open' = open /\ todo' = todo /\ down' = down /\ proto' = proto
    BY <1>1 DEF MakeRequest, Accepts, ctlVars
  <2>3. CASE down # "none"
    BY <1>1, <2>2, <2>3 DEF MakeRequest, Accepts, OnWire
  <2>4. CASE down = "none" /\ proto # None
    <3>1. Write(new, k) /\ proto \in open /\ UNCHANGED dialVars
      BY <1>1, <2>1, <2>4 DEF MakeRequest, Accepts
    <3>2. /\ \A c \in Conn, id \in Ids : OnWire(c, id) => OnWire(c, id)'
          /\ k # "unsendable" => OnWire(proto, new)'
      BY <2>1, <2>2, <3>1, WriteKeepsWire
    <3>3. /\ sent' = sent \cup {new}
          /\ requests' = IF k = "reply" THEN requests \cup {new} ELSE requests
      BY <1>1, <2>1, <2>4, <3>1 DEF MakeRequest, Accepts, Write
    <3>4. new \notin requests
      BY <2>1, MaxRequestsNat DEF LedgerInv, Fresh, Ids
    <3>5. SentIsOutstanding'
      BY <2>2, <3>1, <3>2, <3>3, <3>4
    <3> QED
      BY <2>2, <3>1, <3>3, <3>5 DEF dialVars
  <2>5. CASE down = "none" /\ proto = None
    <3>1. SentIsOutstanding'
      <4>1. new \notin sent
        BY <2>1, MaxRequestsNat DEF LedgerInv, Fresh, Ids
      <4>2. requests' = requests \cup {new} /\ sent' = sent /\ wire' = wire
        BY <1>1, <2>1, <2>5 DEF MakeRequest, Accepts
      <4> QED
        BY <2>2, <4>1, <4>2 DEF OnWire
    <3>2. Connect \/ (connector # None /\ UNCHANGED dialVars)
      BY <1>1, <2>5 DEF MakeRequest, Accepts
    <3> QED
      BY <2>2, <3>1, <3>2 DEF Connect, TryConnect, dialVars
  <2> QED
    BY <2>3, <2>4, <2>5
<1>2. ASSUME NEW id \in Ids, Cancel(id) PROVE DeliveryInv'
  BY <1>2 DEF Cancel, CancelRequest, dialVars, OnWire
<1>3. ASSUME NEW a \in Addr, UpdateMetadata(a) PROVE DeliveryInv'
  BY <1>3 DEF UpdateMetadata, reqVars, dialVars, connVars, ctlVars, OnWire
<1>4. CASE Disconnect
  BY <1>4 DEF Disconnect, reqVars, dialVars, ctlVars, OnWire
<1>5. CASE Close
  BY <1>5 DEF Close, CancelConnector, ConnectDespiteCancel, reqVars, OnWire
<1>6. CASE CloseRequest
  BY <1>6 DEF CloseRequest, dialVars, connVars, OnWire
<1>7. CASE SendQueued
  <2> PICK id \in Ids : SendQueued!(id)
    BY <1>7 DEF SendQueued
  <2>1. proto \in open /\ proto \in Conn
    BY DEF NextQueued
  <2>2. requests' \subseteq requests /\ sent' = sent \cup {id}
    BY DEF Write
  <2>3. \A c \in Conn, other \in Ids : OnWire(c, other) => OnWire(c, other)'
    BY <2>1, WriteKeepsWire DEF OnWire
  <2>4. id \in requests' => id \in sent \/ OnWire(proto, id)'
    BY <2>1, WriteKeepsWire
  <2>5. SentIsOutstanding'
    BY <2>1, <2>2, <2>3, <2>4
  <2>6. down' = down /\ connector' = connector /\ todo' = todo \ {id}
    BY DEF Sending
  <2>7. down = "none" /\ connector # None => loop'[connector] = loop[connector]
    BY DEF Sending
  <2> QED
    BY <2>2, <2>5, <2>6, <2>7
<1>8. CASE SendQueuedKeyError
  <2> PICK id \in Ids : SendQueuedKeyError!(id)
    BY <1>8 DEF SendQueuedKeyError
  <2>1. proto \in Conn
    BY DEF NextQueued
  <2>2. \A c \in Conn, other \in Ids : OnWire(c, other) => OnWire(c, other)'
    BY <2>1, WriteKeepsWire
  <2>3. SentIsOutstanding'
    BY <2>2 DEF Write
  <2> QED
    BY <2>3 DEF RetryLater
<1>9. ASSUME NEW l \in Loop, EbConnect(l) \/ CbDelayed(l) PROVE DeliveryInv'
  BY <1>9 DEF EbConnect, CbDelayed, RetryLater, TryConnect, reqVars, connVars, ctlVars, OnWire
<1>10. ASSUME NEW l \in Loop, NEW c \in Conn, CbConnect(l, c) PROVE DeliveryInv'
  BY <1>10 DEF CbConnect, reqVars, OnWire
<1>11. ASSUME NEW c \in Conn, ConnectionLost(c) PROVE DeliveryInv'
  BY <1>11
  DEF ConnectionLost, ProtoAfterLoss, KeptAfterLoss, SentAfterLoss, DownAfterLoss,
      Reconnect, Connect, TryConnect, dialVars, ctlVars
<1>12. ASSUME NEW c \in Conn, NEW id \in Ids, HandleResponse(c, id) PROVE DeliveryInv'
  BY <1>12 DEF HandleResponse, Awaited, dialVars, connVars, ctlVars, OnWire
<1>13. CASE UNCHANGED vars
  BY <1>13 DEF vars, reqVars, dialVars, connVars, ctlVars, OnWire
<1> QED
  BY <1>1, <1>2, <1>3, <1>4, <1>5, <1>6, <1>7, <1>8, <1>9, <1>10, <1>11, <1>12,
     <1>13 DEF Next

-----------------------------------------------------------------------------
(* The order of what is written *)

\* While the loop of _sendQueued runs, everything it has still to look at is
\* newer than every waiting request it has written.
WireInv ==
    /\ \A c \in Conn : base[c] <= made /\ (c \notin open => wire[c] = <<>>)
    /\ \A c \in Conn : \A i \in 1 .. Len(wire[c]) : wire[c][i] <= made
    /\ \A id \in todo :
         /\ id <= base[proto]
         /\ \A i \in 1 .. Len(wire[proto]) :
              wire[proto][i] <= base[proto] => wire[proto][i] < id
    /\ WrittenInOrder

\* A new client has written nothing.
LEMMA WireInit == Init => WireInv
  BY DEF Init, WireInv, WrittenInOrder

\* A step that writes nothing, opens nothing and adds nothing to the loop.
LEMMA WireStutter ==
  ASSUME TypeInv, WireInv, made \in Nat, made' = made, base' = base, wire' = wire,
         open \subseteq open', todo' \subseteq todo, proto' = proto \/ todo' = {}
  PROVE  WireInv'
  BY DEF TypeInv, TypeOK, WireInv, WrittenInOrder

\* Writing a request that is newer than all before it, or is the loop's next.
LEMMA WireWrite ==
  ASSUME TypeInv, WireInv, proto \in open, NEW id \in Ids, NEW k, Write(id, k),
         made' \in Nat, made <= made', id <= made', base' = base, open' = open,
         proto' = proto, todo' \subseteq todo,
         \/ /\ id > base[proto]
            /\ \A i \in 1 .. Len(wire[proto]) : wire[proto][i] < id
         \/ /\ id <= base[proto]
            /\ \A i \in 1 .. Len(wire[proto]) :
                 wire[proto][i] <= base[proto] => wire[proto][i] < id
            /\ \A other \in todo' : id < other
  PROVE  WireInv'
<1> USE DEF TypeInv, TypeOK, WireInv
<1>0. /\ proto \in Conn /\ Ids \subseteq Nat /\ made \in Nat
      /\ \A c \in Conn : Len(wire[c]) \in Nat /\ base[c] \in Nat
      /\ \A c \in Conn : \A i \in 1 .. Len(wire[c]) : wire[c][i] \in Nat
  BY MaxRequestsNat DEF Ids
<1>1. CASE k = "unsendable"
  BY <1>0, <1>1, WriteAppends DEF WrittenInOrder
<1>2. CASE k # "unsendable"
  <2> DEFINE n == Len(wire[proto])
  <2>1. /\ n \in Nat
        /\ Len(wire'[proto]) = n + 1
        /\ wire'[proto][n + 1] = id
        /\ \A i \in 1 .. n : wire'[proto][i] = wire[proto][i]
    BY <1>0, <1>2, WriteAppends
  <2>2. \A c \in Conn \ {proto} : wire'[c] = wire[c]
    BY WriteAppends
  <2>3. \A i \in 1 .. (n + 1) : i \in 1 .. n \/ i = n + 1
    BY <2>1
  <2> HIDE DEF n
  <2>4. \A c \in Conn : base'[c] <= made' /\ (c \notin open' => wire'[c] = <<>>)
    BY <1>0, <2>2
  <2>5. \A c \in Conn : \A i \in 1 .. Len(wire'[c]) : wire'[c][i] <= made'
    <3>1. \A i \in 1 .. Len(wire'[proto]) : wire'[proto][i] <= made'
      BY <1>0, <2>1, <2>3 DEF n
    <3>2. \A c \in Conn \ {proto} : \A i \in 1 .. Len(wire'[c]) : wire'[c][i] <= made'
      BY <1>0, <2>2
    <3> QED
      BY <3>1, <3>2
  <2>6. \A other \in todo' :
          /\ other <= base'[proto']
          /\ \A i \in 1 .. Len(wire'[proto']) :
               wire'[proto'][i] <= base'[proto'] => wire'[proto'][i] < other
    <3> SUFFICES ASSUME NEW other \in todo'
                 PROVE  /\ other <= base[proto]
                        /\ \A i \in 1 .. (n + 1) :
                             wire'[proto][i] <= base[proto] => wire'[proto][i] < other
      BY <2>1
    <3>1. other \in todo /\ other \in Nat
      BY <1>0
    <3>2. \A i \in 1 .. n : wire'[proto][i] <= base[proto] => wire'[proto][i] < other
      BY <2>1, <3>1 DEF n
    <3>3. id <= base[proto] => id < other
      BY <1>0, <3>1
    <3> QED
      BY <2>1, <2>3, <3>1, <3>2, <3>3
  <2>7. WrittenInOrder'
    <3>1. \A i, j \in 1 .. Len(wire'[proto]) : i < j =>
            \/ wire'[proto][i] < wire'[proto][j]
            \/ wire'[proto][j] <= base[proto] /\ base[proto] < wire'[proto][i]
      <4> SUFFICES ASSUME NEW i \in 1 .. (n + 1), NEW j \in 1 .. (n + 1), i < j
                   PROVE  \/ wire'[proto][i] < wire'[proto][j]
                          \/ wire'[proto][j] <= base[proto] /\ base[proto] < wire'[proto][i]
        BY <2>1
      <4>1. i \in 1 .. n /\ wire'[proto][i] = wire[proto][i] /\ wire[proto][i] \in Nat
        BY <1>0, <2>1, <2>3 DEF n
      <4>2. CASE j \in 1 .. n
        BY <1>0, <2>1, <4>1, <4>2 DEF n, WrittenInOrder
      <4>3. CASE j = n + 1
        BY <1>0, <2>1, <4>1, <4>3 DEF n
      <4> QED
        BY <2>3, <4>2, <4>3
    <3> QED
      BY <2>2, <3>1 DEF WrittenInOrder
  <2> QED
    BY <2>4, <2>5, <2>6, <2>7
<1> QED
  BY <1>1, <1>2

\* Every write, by makeRequest() or by the loop of _sendQueued(), keeps the
\* order of what is on the wire.
LEMMA WireStep == TypeInv /\ LedgerInv /\ WireInv /\ [Next]_vars => WireInv'
<1> SUFFICES ASSUME TypeInv, LedgerInv, WireInv, [Next]_vars PROVE WireInv'
  OBVIOUS
<1> USE DEF TypeInv, TypeOK, ProtoUp
<1>0. made \in Nat /\ Ids \subseteq Nat
  BY MaxRequestsNat DEF Ids
<1>1. ASSUME NEW k \in Kinds, MakeRequest(k) PROVE WireInv'
  <2>1. PICK new \in Ids : new = made + 1
    BY <1>1, MaxRequestsNat DEF MakeRequest, Accepts, Ids
  <2>2. /\ made' = new /\ open' = open /\ todo' = todo /\ proto' = proto /\ base' = base
    BY <1>1, <2>1 DEF MakeRequest, Accepts, ctlVars
  <2>3. CASE UNCHANGED wire
    <3>1. \A c \in Conn : base[c] \in Nat /\ \A i \in 1 .. Len(wire[c]) : wire[c][i] \in Nat
      BY MaxRequestsNat DEF Ids
    <3>2. \A c \in Conn : base'[c] <= made' /\ (c \notin open' => wire'[c] = <<>>)
      BY <1>0, <2>1, <2>2, <2>3, <3>1 DEF WireInv
    <3>3. \A c \in Conn : \A i \in 1 .. Len(wire'[c]) : wire'[c][i] <= made'
      BY <1>0, <2>1, <2>2, <2>3, <3>1 DEF WireInv
    <3> QED
      BY <2>2, <2>3, <3>2, <3>3 DEF WireInv, WrittenInOrder
  <2>4. CASE proto # None /\ Write(new, k)
    <3>1. proto \in Conn /\ base[proto] < new
      BY <1>0, <2>1, <2>4 DEF WireInv
    <3>a. \A i \in 1 .. Len(wire[proto]) : wire[proto][i] \in Nat
      BY <3>1, MaxRequestsNat DEF Ids
    <3>2. \A i \in 1 .. Len(wire[proto]) : wire[proto][i] < new
      BY <1>0, <2>1, <3>1, <3>a DEF WireInv
    <3>3. proto \in open /\ made' \in Nat /\ made <= made' /\ new <= made' /\ new > base[proto]
      BY <1>0, <2>1, <2>2, <2>4, <3>1
    <3>4. TypeInv
      OBVIOUS
    <3> HIDE DEF TypeInv, TypeOK
    <3> QED
      BY <2>2, <2>4, <3>2, <3>3, <3>4, WireWrite
  <2> QED
    BY <1>1, <2>1, <2>3, <2>4 DEF MakeRequest, Accepts
<1>2. ASSUME NEW id \in Ids, Cancel(id) PROVE WireInv'
  BY <1>0, <1>2, WireStutter DEF Cancel, CancelRequest
<1>3. ASSUME NEW a \in Addr, UpdateMetadata(a) PROVE WireInv'
  BY <1>0, <1>3, WireStutter DEF UpdateMetadata, reqVars, connVars, ctlVars
<1>4. CASE Disconnect
  BY <1>0, <1>4, WireStutter DEF Disconnect, reqVars, ctlVars
<1>5. CASE Close
  <2>1. made' = made /\ wire' = wire /\ todo' = todo /\ open \subseteq open'
    BY <1>5 DEF Close, CancelConnector, ConnectDespiteCancel, reqVars
  <2>2. CASE UNCHANGED <<proto, base>>
    BY <1>0, <2>1, <2>2, WireStutter
  <2>3. CASE proto = None /\ \E c \in Conn : ConnectDespiteCancel(c)
    <3> PICK c \in Conn : ConnectDespiteCancel(c)
      BY <2>3
    <3>1. todo' = {} /\ c \in open' /\ base' = [base EXCEPT ![c] = made]
      BY <2>1, <2>3 DEF ConnectDespiteCancel
    <3>2. wire[c] = <<>>
      BY DEF ConnectDespiteCancel, WireInv
    <3> QED
      BY <1>0, <2>1, <3>1, <3>2 DEF WireInv, WrittenInOrder
  <2> QED
    BY <1>5, <2>2, <2>3 DEF Close, CancelConnector
<1>6. CASE CloseRequest
  BY <1>0, <1>6, WireStutter DEF CloseRequest, connVars
<1>7. CASE SendQueued
  <2> PICK id \in Ids : SendQueued!(id)
    BY <1>7 DEF SendQueued
  <2>1. /\ proto \in open /\ id \in todo /\ todo' = todo \ {id}
        /\ \A other \in todo' : id < other
    BY <1>0 DEF NextQueued, Sending
  <2>2. CASE Write(id, kind[id])
    <3>1. id <= made /\ id <= base[proto] /\ base[proto] \in Nat
      BY <1>0, <2>1 DEF LedgerInv, Fresh, WireInv
    <3>2. \A i \in 1 .. Len(wire[proto]) :
            wire[proto][i] <= base[proto] => wire[proto][i] < id
      BY <2>1 DEF WireInv
    <3>4. /\ made' = made /\ made' \in Nat /\ made <= made' /\ id <= made'
          /\ todo' \subseteq todo
      BY <1>0, <2>1, <3>1
    <3>5. TypeInv
      OBVIOUS
    <3> HIDE DEF TypeInv, TypeOK
    <3> QED
      BY <2>1, <2>2, <3>1, <3>2, <3>4, <3>5, WireWrite
  <2>3. CASE UNCHANGED wire
    BY <1>0, <2>1, <2>3, WireStutter
  <2> QED
    BY <2>2, <2>3
<1>8. CASE SendQueuedKeyError
  <2> PICK id \in Ids : SendQueuedKeyError!(id)
    BY <1>8 DEF SendQueuedKeyError
  <2>1. proto \in open /\ id \in todo /\ todo' = {}
    BY DEF NextQueued
  <2>2. id <= made /\ id <= base[proto] /\ base[proto] \in Nat
    BY <1>0, <2>1 DEF LedgerInv, Fresh, WireInv
  <2>3. \A i \in 1 .. Len(wire[proto]) :
          wire[proto][i] <= base[proto] => wire[proto][i] < id
    BY <2>1 DEF WireInv
  <2>5. /\ made' = made /\ made' \in Nat /\ made <= made' /\ id <= made'
        /\ todo' \subseteq todo /\ \A other \in todo' : id < other
    BY <1>0, <2>1, <2>2
  <2>6. TypeInv
    OBVIOUS
  <2> HIDE DEF TypeInv, TypeOK
  <2> QED
    BY <2>1, <2>2, <2>3, <2>5, <2>6, WireWrite
<1>9. ASSUME NEW l \in Loop, EbConnect(l) \/ CbDelayed(l) PROVE WireInv'
  BY <1>0, <1>9, WireStutter DEF EbConnect, CbDelayed, reqVars, connVars, ctlVars
<1>10. ASSUME NEW l \in Loop, NEW c \in Conn, CbConnect(l, c) PROVE WireInv'
  <2>1. /\ made' = made /\ wire' = wire /\ open' = open \cup {c} /\ proto' = c
        /\ base' = [base EXCEPT ![c] = made]
        /\ todo' \subseteq requests
    BY <1>10 DEF CbConnect, reqVars, Idle
  <2>2. wire[c] = <<>>
    BY <1>10 DEF CbConnect, WireInv
  <2>3. \A id \in requests : id <= made
    BY <1>0 DEF LedgerInv, Fresh
  <2> QED
    BY <1>0, <2>1, <2>2, <2>3 DEF WireInv, WrittenInOrder
<1>11. ASSUME NEW c \in Conn, ConnectionLost(c) PROVE WireInv'
  <2>1. /\ made' = made /\ todo' = {} /\ open' = open \ {c}
        /\ wire' = [wire EXCEPT ![c] = <<>>] /\ base' = [base EXCEPT ![c] = 0]
    BY <1>11
    DEF ConnectionLost, ProtoAfterLoss, KeptAfterLoss, SentAfterLoss, DownAfterLoss,
        Reconnect, ctlVars, Idle
  <2> QED
    BY <1>0, <2>1 DEF WireInv, WrittenInOrder
<1>12. ASSUME NEW c \in Conn, NEW id \in Ids, HandleResponse(c, id) PROVE WireInv'
  BY <1>0, <1>12, WireStutter DEF HandleResponse, Awaited, connVars, ctlVars
<1>13. CASE UNCHANGED vars
  BY <1>0, <1>13, WireStutter DEF vars, reqVars, connVars, ctlVars
<1> QED
  BY <1>1, <1>2, <1>3, <1>4, <1>5, <1>6, <1>7, <1>8, <1>9, <1>10, <1>11, <1>12,
     <1>13 DEF Next

-----------------------------------------------------------------------------
(* One connection at a time *)

\* The connect loop that is alive, if any, is the one self.connector holds.
OneInv ==
    /\ OneConnection
    /\ \A l \in Loop : loop[l] = "sending" => todo # {}
    /\ \A l, m \in Loop : loop[l] = "sending" /\ loop[m] = "sending" => l = m
    /\ ~escaped =>
         \A l \in Loop : loop[l] \in {"connecting", "delay"} =>
             down = "none" /\ connector = l

\* A new client neither has a connection nor dials.
LEMMA OneInit == Init => OneInv
  BY DEF Init, OneInv, OneConnection

\* Without the escaped KeyError no handler dials while a loop or a connection
\* is alive, and close() ends both.
LEMMA OneStep == TypeInv /\ OneInv /\ [Next]_vars => OneInv'
<1> SUFFICES ASSUME TypeInv, OneInv, [Next]_vars PROVE OneInv'
  OBVIOUS
<1> USE NoneIsNothing
<1> USE DEF TypeInv, TypeOK, ProtoUp, OneInv, OneConnection
<1>1. ASSUME NEW k \in Kinds, MakeRequest(k) PROVE OneInv'
  <2>1. /\ open' = open /\ proto' = proto /\ down' = down /\ todo' = todo
        /\ escaped' = escaped
    BY <1>1 DEF MakeRequest, Accepts, ctlVars
  <2>2. CASE UNCHANGED dialVars
    BY <2>1, <2>2 DEF dialVars
  <2>3. CASE down = "none" /\ proto = None /\ connector = None /\ Connect
    BY <2>1, <2>3 DEF Connect, TryConnect
  <2> QED
    BY <1>1, <2>2, <2>3 DEF MakeRequest, Accepts
<1>2. ASSUME NEW id \in Ids, Cancel(id) PROVE OneInv'
  BY <1>2 DEF Cancel, CancelRequest, dialVars
<1>3. ASSUME NEW a \in Addr, UpdateMetadata(a) PROVE OneInv'
  BY <1>3 DEF UpdateMetadata, dialVars, connVars, ctlVars
<1>4. CASE Disconnect
  BY <1>4 DEF Disconnect, dialVars, ctlVars
<1>5. CASE Close
  <2>1. todo' = todo /\ escaped' = escaped /\ down = "none"
    BY <1>5 DEF Close
  <2>2. CASE proto # None
    BY <1>5, <2>1, <2>2 DEF Close, dialVars
  <2>3. CASE proto = None /\ connector # None /\ CancelConnector
    BY <2>1, <2>3 DEF CancelConnector
  <2>4. ASSUME proto = None, connector # None, NEW c \in Conn, ConnectDespiteCancel(c)
        PROVE  OneInv'
    BY <2>1, <2>4 DEF ConnectDespiteCancel
  <2>5. CASE proto = None /\ connector = None
    <3>1. /\ loop' = loop /\ connector' = connector /\ open' = open /\ proto' = proto
          /\ down' = "fired" /\ todo = {}
      BY <1>5, <2>5 DEF Close, dialVars
    <3>2. ~escaped => open = {} /\ \A l \in Loop : loop[l] = "off"
      BY <2>5, <3>1
    <3> QED
      BY <2>1, <3>1, <3>2
  <2> QED
    BY <1>5, <2>2, <2>3, <2>4, <2>5 DEF Close
<1>6. CASE CloseRequest
  BY <1>6 DEF CloseRequest, dialVars, connVars
<1>7. CASE SendQueued
  BY <1>7 DEF SendQueued, NextQueued, Sending
<1>8. CASE SendQueuedKeyError
  <2> PICK id \in Ids : SendQueuedKeyError!(id)
    BY <1>8 DEF SendQueuedKeyError
  <2>1. proto \in open /\ todo' = {} /\ open' = open /\ proto' = proto /\ down' = down
    BY DEF NextQueued
  <2>2. PICK l \in Loop :
          /\ loop[l] = "sending"
          /\ IF down = "none"
             THEN RetryLater(l) /\ escaped' = TRUE
             ELSE /\ loop' = [loop EXCEPT ![l] = "off"]
                  /\ UNCHANGED <<connector, dialed, escaped>>
    OBVIOUS
  <2>3. CASE down = "none"
    BY <2>1, <2>2, <2>3 DEF RetryLater
  <2>4. CASE down # "none"
    <3>1. loop' = [loop EXCEPT ![l] = "off"] /\ escaped' = escaped
      BY <2>2, <2>4
    <3>2. \A m \in Loop : loop'[m] # "sending"
      BY <2>2, <3>1
    <3>3. ~escaped => down # "fired" /\ \A m \in Loop : loop'[m] = "off"
      BY <2>1, <2>2, <3>1
    <3> QED
      BY <2>1, <3>1, <3>2, <3>3
  <2> QED
    BY <2>3, <2>4
<1>9. ASSUME NEW l \in Loop, EbConnect(l) \/ CbDelayed(l) PROVE OneInv'
  <2>1. /\ todo' = {} /\ open' = open /\ proto' = proto /\ down' = down
        /\ escaped' = escaped /\ todo = {} /\ loop[l] \in {"connecting", "delay"}
    BY <1>9 DEF EbConnect, CbDelayed, connVars, ctlVars, Idle
  <2>2. \A m \in Loop : loop[m] # "sending"
    BY <2>1
  <2>3. \/ /\ loop' = [loop EXCEPT ![l] = "delay"] \/ loop' = [loop EXCEPT ![l] = "connecting"]
           /\ connector' = l
        \/ loop' = [loop EXCEPT ![l] = "off"] /\ connector' = connector
    BY <1>9 DEF EbConnect, CbDelayed, RetryLater, TryConnect
  <2> QED
    BY <2>1, <2>2, <2>3
<1>10. ASSUME NEW l \in Loop, NEW c \in Conn, CbConnect(l, c) PROVE OneInv'
  <2>1. /\ todo = {} /\ loop[l] = "connecting" /\ open' = open \cup {c} /\ proto' = c
        /\ connector' = None /\ down' = down /\ escaped' = escaped
    BY <1>10 DEF CbConnect, Idle
  <2>2. \A m \in Loop : loop[m] # "sending"
    BY <2>1
  <2>3. \/ todo' # {} /\ loop' = [loop EXCEPT ![l] = "sending"]
        \/ todo' = {} /\ loop' = [loop EXCEPT ![l] = "off"]
    BY <1>10 DEF CbConnect, Idle
  <2>4. ~escaped => open = {} /\ down = "none" /\ \A m \in Loop \ {l} : loop[m] = "off"
    BY <2>1, <2>2
  <2>5. \A m \in Loop \ {l} : loop'[m] = loop[m]
    BY <2>3
  <2>6. loop'[l] = "off" \/ (loop'[l] = "sending" /\ todo' # {})
    BY <2>3
  <2>7. \A m \in Loop : loop'[m] = "sending" => m = l /\ todo' # {}
    BY <2>2, <2>5, <2>6
  <2>8. ~escaped => \A m \in Loop : loop'[m] \in {"off", "sending"}
    BY <2>4, <2>5, <2>6
  <2>9. OneConnection'
    BY <2>1, <2>4, <2>8
  <2> QED
    BY <2>1, <2>7, <2>8, <2>9
<1>11. ASSUME NEW c \in Conn, ConnectionLost(c) PROVE OneInv'
  BY <1>11
  DEF ConnectionLost, ProtoAfterLoss, KeptAfterLoss, SentAfterLoss, DownAfterLoss,
      Reconnect, Connect, TryConnect, dialVars, ctlVars, Idle
<1>12. ASSUME NEW c \in Conn, NEW id \in Ids, HandleResponse(c, id) PROVE OneInv'
  BY <1>12 DEF HandleResponse, Awaited, dialVars, connVars, ctlVars
<1>13. CASE UNCHANGED vars
  BY <1>13 DEF vars, dialVars, connVars, ctlVars
<1> QED
  BY <1>1, <1>2, <1>3, <1>4, <1>5, <1>6, <1>7, <1>8, <1>9, <1>10, <1>11, <1>12,
     <1>13 DEF Next

-----------------------------------------------------------------------------
(* The theorems *)

IInv == TypeInv /\ LedgerInv /\ DeliveryInv /\ WireInv /\ OneInv

\* The inductive invariant holds in every state the client can reach.
THEOREM Invariance == Spec => []IInv
<1>1. Init => IInv
  BY TypeInit, LedgerInit, DeliveryInit, WireInit, OneInit DEF IInv
<1>2. IInv /\ [Next]_vars => IInv'
  BY TypeStep, LedgerStep, DeliveryStep, WireStep, OneStep DEF IInv
<1> QED
  BY <1>1, <1>2, PTL DEF Spec

\* The fields of the client and of its request objects keep their types.
THEOREM TypeCorrect == Spec => []TypeOK
<1>1. IInv => TypeOK
  BY DEF IInv, TypeInv
<1> QED
  BY <1>1, Invariance, PTL

\* Every Deferred of makeRequest() is unfired exactly while its request is in
\* self.requests and not cancelled, for any number of requests, connections and
\* calls from callbacks: none fires twice and none is lost.
THEOREM DeferredsTracked == Spec => []PendingIffTracked
<1>1. IInv => PendingIffTracked
  BY DEF IInv, LedgerInv
<1> QED
  BY <1>1, Invariance, PTL

\* An open client that has something left to write is always dialing: no
\* handler of brokerclient.py leaves a request that nothing will send.
THEOREM NothingForgotten == Spec => []NeverForgotten
<1>1. IInv => NeverForgotten
  BY DEF IInv, DeliveryInv, NeverForgotten, Idle
<1> QED
  BY <1>1, Invariance, PTL

\* A request marked as sent is on the wire of a connection that is still up.
THEOREM SentMarksAreTrue == Spec => []SentIsOutstanding
<1>1. IInv => SentIsOutstanding
  BY DEF IInv, DeliveryInv
<1> QED
  BY <1>1, Invariance, PTL

\* makeRequest()'s two promises about sending: at most once per connection, and
\* in the original order after a reconnection.
THEOREM SendingPromises == Spec => []WrittenInOrder
<1>1. IInv => WrittenInOrder
  BY DEF IInv, WireInv
<1> QED
  BY <1>1, Invariance, PTL

\* A closed client holds no request.
THEOREM ClosedHoldsNothing == Spec => []ClosedIsEmpty
<1>1. IInv => ClosedIsEmpty
  BY DEF IInv, LedgerInv
<1> QED
  BY <1>1, Invariance, PTL

\* As long as no KeyError has escaped from _sendQueued(): at most one
\* connection, no dialing while connected, and nothing left after close().
THEOREM SingleConnection == Spec => []OneConnection
<1>1. IInv => OneConnection
  BY DEF IInv, OneInv
<1> QED
  BY <1>1, Invariance, PTL

\* Every handler, and every iteration of the two loops, is one step of the
\* ledger or is invisible to callers.
LEMMA LedgerSimulation ==
  TypeInv /\ LedgerInv /\ [Next]_vars => [Ledger!Next]_(Ledger!lvars)
<1> SUFFICES ASSUME TypeInv, LedgerInv, [Next]_vars
             PROVE  Ledger!Next \/ UNCHANGED Ledger!lvars
  OBVIOUS
<1> USE DEF TypeInv, TypeOK, LedgerInv, PendingIffTracked
<1> DEFINE closed == down # "none"
<1>a. ASSUME result' = result, closed' = closed PROVE UNCHANGED Ledger!lvars
  BY <1>a DEF Ledger!lvars
<1>b. ASSUME NEW id \in Ids, result[id] = "pending", closed' = closed,
             NEW r \in {"response", "none", "error", "cancelled"},
             result' = [result EXCEPT ![id] = r]
      PROVE  Ledger!Next
  <2>1. Ledger!Resolve(id)
    BY <1>b DEF Ledger!Resolve, Ledger!OpenOutcomes
  <2> QED
    BY <2>1 DEF Ledger!Next
<1>1. ASSUME NEW k \in Kinds, MakeRequest(k) PROVE Ledger!Next
  <2>1. made + 1 \in Ids /\ result[made + 1] = "unmade" /\ down' = down
    BY <1>1, MaxRequestsNat DEF MakeRequest, Accepts, Ids, Fresh
  <2>2. CASE down # "none"
    <3>1. Ledger!Refuse(made + 1)
      BY <1>1, <2>1, <2>2 DEF MakeRequest, Accepts, Ledger!Refuse
    <3> QED
      BY <2>1, <3>1 DEF Ledger!Next
  <2>3. CASE down = "none"
    <3>1. PICK r \in {"pending", "none", "error"} : result' = [result EXCEPT ![made + 1] = r]
      BY <1>1, <2>3 DEF MakeRequest, Accepts, SendOutcome
    <3>2. Ledger!Issue(made + 1)
      BY <2>1, <2>3, <3>1 DEF Ledger!Issue
    <3> QED
      BY <2>1, <3>2 DEF Ledger!Next
  <2> QED
    BY <2>2, <2>3
<1>2. ASSUME NEW id \in Ids, Cancel(id) PROVE Ledger!Next
  BY <1>2, <1>b DEF Cancel, CancelRequest
<1>3. ASSUME NEW a \in Addr, UpdateMetadata(a) PROVE UNCHANGED Ledger!lvars
  BY <1>3, <1>a DEF UpdateMetadata, reqVars
<1>4. CASE Disconnect
  BY <1>4, <1>a DEF Disconnect, reqVars
<1>5. CASE Close
  <2>1. Ledger!Close
    BY <1>5 DEF Close, CancelConnector, ConnectDespiteCancel, reqVars, Ledger!Close
  <2> QED
    BY <2>1 DEF Ledger!Next
<1>6. CASE CloseRequest
  <2>1. down # "none" /\ down' = down
    BY <1>6 DEF CloseRequest
  <2>2. PICK id \in requests :
          result' = IF id \in cancelled THEN result ELSE [result EXCEPT ![id] = "closed"]
    BY <1>6 DEF CloseRequest
  <2>3. CASE id \in cancelled
    BY <1>a, <2>1, <2>2, <2>3
  <2>4. CASE id \notin cancelled
    <3>1. Ledger!Resolve(id)
      BY <2>1, <2>2, <2>4 DEF Ledger!Resolve
    <3> QED
      BY <3>1 DEF Ledger!Next
  <2> QED
    BY <2>3, <2>4
<1>7. CASE SendQueued
  <2> PICK id \in Ids : SendQueued!(id)
    BY <1>7 DEF SendQueued
  <2>1. down' = down
    BY DEF Sending
  <2>2. CASE result' = result
    BY <1>a, <2>1, <2>2
  <2>3. CASE /\ id \in requests /\ id \notin sent /\ kind[id] # "reply"
             /\ result' = [result EXCEPT ![id] = SendOutcome(kind[id])]
    <3>1. SendOutcome(kind[id]) \in {"none", "error"}
      BY <2>3 DEF SendOutcome
    <3>2. id \notin cancelled
      BY <2>3
    <3> QED
      BY <1>b, <2>1, <2>3, <3>1, <3>2
  <2> QED
    BY <2>2, <2>3
<1>8. CASE SendQueuedKeyError
  BY <1>8, <1>a DEF SendQueuedKeyError
<1>9. ASSUME NEW l \in Loop, EbConnect(l) \/ CbDelayed(l) PROVE UNCHANGED Ledger!lvars
  BY <1>9, <1>a DEF EbConnect, CbDelayed, reqVars
<1>10. ASSUME NEW l \in Loop, NEW c \in Conn, CbConnect(l, c) PROVE UNCHANGED Ledger!lvars
  BY <1>10, <1>a DEF CbConnect, reqVars
<1>11. ASSUME NEW c \in Conn, ConnectionLost(c) PROVE UNCHANGED Ledger!lvars
  BY <1>11, <1>a
  DEF ConnectionLost, ProtoAfterLoss, KeptAfterLoss, SentAfterLoss, DownAfterLoss,
      Reconnect
<1>12. ASSUME NEW c \in Conn, NEW id \in Ids, HandleResponse(c, id)
       PROVE  Ledger!Next \/ UNCHANGED Ledger!lvars
  BY <1>12, <1>a, <1>b DEF HandleResponse, Awaited
<1>13. CASE UNCHANGED vars
  BY <1>13, <1>a DEF vars, reqVars
<1> QED
  BY <1>1, <1>2, <1>3, <1>4, <1>5, <1>6, <1>7, <1>8, <1>9, <1>10, <1>11, <1>12,
     <1>13 DEF Next

\* The broker client implements RequestLedger: whatever connections, resends,
\* cancellations and calls from callbacks do, callers see one Deferred per
\* request that fires once, and ClientError only after close().
THEOREM LedgerRefinement == Spec => ImplementsLedger
<1>1. Init => Ledger!Init
  BY DEF Init, Ledger!Init
<1>2. IInv /\ [Next]_vars => [Ledger!Next]_(Ledger!lvars)
  BY LedgerSimulation DEF IInv
<1> QED
  BY <1>1, <1>2, Invariance, PTL DEF Spec, ImplementsLedger, Ledger!Spec
=============================================================================
