------------------------- MODULE ClientBrokersProofs -------------------------
(***************************************************************************)
(* Proofs about ClientBrokers, for any number of nodes, addresses, hosts,  *)
(* operations and connections that are going down.                         *)
(***************************************************************************)
EXTENDS ClientBrokers, SequenceTheorems, TLAPS

\* The functions that the client's dicts are.
TableInv ==
    /\ table = [n \in Nodes |-> table[n]]
    /\ clients = [n \in Nodes |-> clients[n]]
    /\ addr = [n \in Nodes |-> addr[n]]
    /\ ClientsFollowTable

\* There are no broker clients at first.
LEMMA TableInit == Init => TableInv
BY DEF Init, TableInv, ClientsFollowTable

\* Asking a broker gives a new broker client the address of the table.
LEMMA AskTable ==
    ASSUME TableInv, UNCHANGED table, NEW c, NEW k, NEW n, NEW S, Ask(c, k, n, S)
    PROVE  TableInv'
<1>1. PICK link : /\ clients' = [clients EXCEPT ![n] = link]
                  /\ addr' = IF clients[n] = 0 THEN [addr EXCEPT ![n] = table[n]] ELSE addr
    <2> DEFINE fresh == CHOOSE l \in Links : Free(l) /\ \A m \in Links : Free(m) => l <= m
    <2> WITNESS IF clients[n] = 0 THEN fresh ELSE clients[n]
    <2> HIDE DEF fresh
    <2> QED
        BY DEF Ask, fresh
<1>2. \A m \in Nodes : m # n => clients'[m] = clients[m] /\ addr'[m] = addr[m]
    BY <1>1 DEF TableInv
<1>3. n \in Nodes /\ clients'[n] # 0 => addr'[n] = table[n]
    BY <1>1 DEF TableInv, ClientsFollowTable
<1>4. clients' = [m \in Nodes |-> clients'[m]] /\ addr' = [m \in Nodes |-> addr'[m]]
    BY <1>1 DEF TableInv
<1> QED
    BY <1>2, <1>3, <1>4 DEF TableInv, ClientsFollowTable

\* So does every way on from a request that failed.
LEMMA TryNextTable ==
    ASSUME TableInv, UNCHANGED table, NEW c, NEW k, NEW S, NEW rest,
           TryNext(c, k, S, rest)
    PROVE  TableInv'
<1>1. CASE UNCHANGED <<clients, addr>>
    BY <1>1 DEF TableInv, ClientsFollowTable
<1>2. CASE \E n \in S : Ask(c, k, n, S \ {n})
    BY <1>2, AskTable
<1> QED
    BY <1>1, <1>2 DEF TryNext

\* A response gives the table and the broker clients the same addresses.
LEMMA UpdateTable ==
    ASSUME TableInv, NEW c, NEW resp, UpdateBrokers(c, resp)
    PROVE  TableInv'
<1>1. \A n \in Nodes : clients'[n] # 0 =>
         /\ clients[n] # 0
         /\ addr'[n] = IF n \in DOMAIN resp THEN resp[n] ELSE addr[n]
    <2> DEFINE gone == Gone(call[c].kind, resp)
    <2>1. /\ clients' = [n \in Nodes |-> IF n \in gone THEN 0 ELSE clients[n]]
          /\ addr' = [n \in Nodes |-> IF n \in gone THEN None ELSE AddrAfter(resp)[n]]
        BY DEF UpdateBrokers
    <2> HIDE DEF gone
    <2> QED
        BY <2>1 DEF AddrAfter
<1>2. \A n \in Nodes : table'[n] = IF n \in DOMAIN resp THEN resp[n] ELSE table[n]
    BY DEF UpdateBrokers
<1>3. ClientsFollowTable'
    BY <1>1, <1>2 DEF TableInv, ClientsFollowTable
<1> QED
    BY <1>3 DEF UpdateBrokers, TableInv

\* No step lets a broker client and the table disagree.
LEMMA TableStep == TableInv /\ [Next]_vars => TableInv'
<1> SUFFICES ASSUME TableInv, [Next]_vars PROVE TableInv'
    OBVIOUS
<1>0. CASE UNCHANGED tableVars
    BY <1>0 DEF tableVars, TableInv, ClientsFollowTable
<1>1. ASSUME NEW c \in Calls, NEW k \in Kinds, Start(c, k) PROVE TableInv'
    <2>1. UNCHANGED table
        BY <1>1 DEF Start
    <2>2. CASE \E n \in Known : Ask(c, k, n, {})
        BY <2>1, <2>2, AskTable
    <2>3. CASE TryNext(c, k, Known, AfterCaller)
        BY <2>1, <2>3, TryNextTable
    <2> QED
        BY <1>1, <2>2, <2>3 DEF Start
<1>2. ASSUME NEW c \in Calls, UNCHANGED table, RequestFailed(c)
      PROVE  TableInv'
    <2>1. CASE UNCHANGED <<clients, addr>>
        BY <1>2, <2>1 DEF TableInv, ClientsFollowTable
    <2>2. CASE TryNext(c, call[c].kind, call[c].todo, stack)
        BY <1>2, <2>2, TryNextTable
    <2> QED
        BY <1>2, <2>1, <2>2 DEF RequestFailed
<1>3. ASSUME NEW c \in Calls, RequestTimesOut(c) PROVE TableInv'
    BY <1>2, <1>3 DEF RequestTimesOut
<1>4. ASSUME NEW c \in Calls, Connected(c) \/ BootstrapFails(c) \/ Cancel(c) PROVE TableInv'
    BY <1>0, <1>4 DEF Connected, BootstrapFails, Cancel
<1>5. ASSUME NEW c \in Calls, Answer(c) PROVE TableInv'
    BY <1>0, <1>5, UpdateTable DEF Answer
<1>6. CASE Merged \/ CloseOne \/ CloseDone \/ Return \/ UpdateHosts
    BY <1>0, <1>6 DEF Merged, CloseOne, CloseDone, Return, UpdateHosts
<1>7. CASE Drain
    <2>1. CASE UNCHANGED <<clients, addr>>
        BY <1>7, <2>1 DEF Drain, TableInv, ClientsFollowTable
    <2>2. CASE \E c \in Calls : RequestFailed(c)
        BY <1>2, <1>7, <2>2 DEF Drain
    <2> QED
        BY <1>7, <2>1, <2>2 DEF Drain
<1>8. CASE Close
    BY <1>8 DEF Close, TableInv, ClientsFollowTable
<1>9. ASSUME NEW l \in Links, GoDown(l) PROVE TableInv'
    BY <1>0, <1>9 DEF GoDown
<1> QED
    BY <1>0, <1>1, <1>3, <1>4, <1>5, <1>6, <1>7, <1>8, <1>9 DEF Next, vars

\* Broker clients dial the addresses of the table, whatever responses, removals and
\* requests do.
THEOREM AddressesFollow == Spec => []ClientsFollowTable
<1>1. TableInv => ClientsFollowTable
    BY DEF TableInv
<1> QED
    BY <1>1, TableInit, TableStep, PTL DEF Spec

-----------------------------------------------------------------------------
(* What close() waits for.  The loops of _close_brokerclients() that are under    *)
(* way are the frames "closing" of the stack.                                     *)

Closings(s) == {i \in DOMAIN s : s[i].op = "closing"}

\* The frames of s that close broker clients are those of t, in the same order.
SameClosings(s, t) ==
    \E k \in Int :
        /\ \A i \in Closings(s) : i + k \in Closings(t) /\ t[i + k] = s[i]
        /\ \A j \in Closings(t) : j - k \in Closings(s) /\ s[j - k] = t[j]

IsStack(s) == \E S : s \in Seq(S)

\* A frame has its fields; one of close() is there only once the client is closed.
Shaped(s, over) ==
    \A i \in Closings(s) :
        /\ {"op", "left", "all", "by"} \subseteq DOMAIN s[i]
        /\ s[i].by = "close" => over

\* At most one loop is under way; it knows all connections that are going down, or, if
\* there is none, close_dlist does.
Awaited(s, down, list) ==
    /\ \A i, j \in Closings(s) : i = j
    /\ \A i \in Closings(s) : down \subseteq s[i].all
    /\ Closings(s) = {} => down \subseteq list

CloseInv ==
    /\ IsStack(stack) /\ Shaped(stack, closing)
    /\ nested \in BOOLEAN /\ (nested => closing)
    /\ returned => closing
    /\ ~nested => Awaited(stack, dying, closeD)
    /\ ~nested /\ returned => Closings(stack) = {} /\ dying \subseteq closeRet

\* What one stack promises the other does.
LEMMA SameIsAwaited ==
    ASSUME NEW s, NEW t, IsStack(s), IsStack(t), SameClosings(s, t), NEW down, NEW list, NEW over
    PROVE  /\ Shaped(s, over) => Shaped(t, over)
           /\ Awaited(s, down, list) => Awaited(t, down, list)
           /\ Closings(s) = {} => Closings(t) = {}
<1>0. Closings(s) \subseteq Int /\ Closings(t) \subseteq Int
    BY DEF Closings, IsStack
<1>1. PICK k \in Int :
         /\ \A i \in Closings(s) : i + k \in Closings(t) /\ t[i + k] = s[i]
         /\ \A j \in Closings(t) : j - k \in Closings(s) /\ s[j - k] = t[j]
    BY DEF SameClosings
<1>2. Shaped(s, over) => Shaped(t, over)
    BY <1>1 DEF Shaped
<1>3. Closings(s) = {} <=> Closings(t) = {}
    BY <1>1
<1>4. ASSUME Awaited(s, down, list) PROVE Awaited(t, down, list)
    <2>1. \A i, j \in Closings(t) : i = j
        <3> TAKE i, j \in Closings(t)
        <3>1. i - k = j - k
            BY <1>1, <1>4 DEF Awaited
        <3> QED
            BY <3>1, <1>0
    <2>2. \A i \in Closings(t) : down \subseteq t[i].all
        BY <1>1, <1>4 DEF Awaited
    <2> QED
        BY <2>1, <2>2, <1>3, <1>4 DEF Awaited
<1> QED
    BY <1>2, <1>3, <1>4

\* Returning from a frame of another kind leaves them alone.
LEMMA PopOther ==
    ASSUME NEW S, NEW s \in Seq(S), s # <<>>, Head(s).op # "closing"
    PROVE  IsStack(Tail(s)) /\ SameClosings(s, Tail(s))
<1>1. /\ Tail(s) \in Seq(S) /\ Len(Tail(s)) = Len(s) - 1 /\ Len(s) \in Nat /\ Len(s) > 0
      /\ \A i \in 1 .. (Len(s) - 1) : Tail(s)[i] = s[i + 1]
    OBVIOUS
<1>2. /\ \A i \in Closings(s) : i + (-1) \in Closings(Tail(s)) /\ Tail(s)[i + (-1)] = s[i]
      /\ \A j \in Closings(Tail(s)) : j - (-1) \in Closings(s) /\ s[j - (-1)] = Tail(s)[j]
    <2>1. DOMAIN s = 1 .. Len(s) /\ DOMAIN Tail(s) = 1 .. (Len(s) - 1) /\ Head(s) = s[1]
        BY <1>1
    <2>2. \A i \in Closings(s) : i # 1
        BY <2>1 DEF Closings
    <2> QED
        BY <1>1, <2>1, <2>2 DEF Closings
<1>3. -1 \in Int
    OBVIOUS
<1> QED
    BY <1>1, <1>2, <1>3 DEF SameClosings, IsStack

\* So does pushing one.
LEMMA PushOther ==
    ASSUME NEW S, NEW s \in Seq(S), NEW f, f.op # "closing"
    PROVE  IsStack(<<f>> \o s) /\ SameClosings(s, <<f>> \o s)
<1> DEFINE t == <<f>> \o s
<1>1. /\ t \in Seq(S \cup {f}) /\ Len(t) = Len(s) + 1 /\ Len(s) \in Nat /\ t[1] = f
      /\ \A i \in 1 .. Len(s) : t[i + 1] = s[i]
    <2>1. <<f>> \in Seq(S \cup {f}) /\ s \in Seq(S \cup {f})
        OBVIOUS
    <2> QED
        BY <2>1
<1>2. DOMAIN s = 1 .. Len(s) /\ DOMAIN t = 1 .. (Len(s) + 1)
    BY <1>1
<1> HIDE DEF t
<1>3. \A i \in Closings(s) : i + 1 \in Closings(t) /\ t[i + 1] = s[i]
    BY <1>1, <1>2 DEF Closings
<1>4. \A j \in Closings(t) : j - 1 \in Closings(s) /\ s[j - 1] = t[j]
    <2> TAKE j \in Closings(t)
    <2>1. j \in 2 .. (Len(s) + 1)
        BY <1>1, <1>2 DEF Closings
    <2>2. t[(j - 1) + 1] = s[j - 1] /\ (j - 1) + 1 = j
        BY <1>1, <2>1
    <2> QED
        BY <1>1, <1>2, <2>1, <2>2 DEF Closings
<1>5. SameClosings(s, t)
    <2> 1 \in Int
        OBVIOUS
    <2> QED
        BY <1>3, <1>4 DEF SameClosings
<1>6. IsStack(t)
    BY <1>1 DEF IsStack
<1> QED
    BY <1>5, <1>6 DEF t


\* What is left of the stack when a handler begins, or a callback calls the client.
LEMMA Popped ==
    ASSUME NEW S, stack \in Seq(S), NEW r,
           \/ r = stack
           \/ stack # <<>> /\ Head(stack).op # "closing" /\ r = Tail(stack)
    PROVE  IsStack(r) /\ SameClosings(stack, r)
<1>1. Closings(stack) \subseteq Int
    BY DEF Closings
<1>2. 0 \in Int /\ \A i \in Closings(stack) : i + 0 = i /\ i - 0 = i
    BY <1>1
<1>3. /\ \A i \in Closings(stack) : i + 0 \in Closings(stack) /\ stack[i + 0] = stack[i]
      /\ \A j \in Closings(stack) : j - 0 \in Closings(stack) /\ stack[j - 0] = stack[j]
    BY <1>2
<1>4. SameClosings(stack, stack)
    BY <1>2, <1>3 DEF SameClosings
<1> QED
    BY <1>4, PopOther DEF IsStack

\* A handler that closes nothing.
LEMMA OtherHandlers ==
    ASSUME CloseInv, UNCHANGED closeVars, NEW r,
           \/ r = stack
           \/ stack # <<>> /\ Head(stack).op # "closing" /\ r = Tail(stack),
           stack' = r \/ stack' = <<[op |-> "caller"]>> \o r
    PROVE  CloseInv'
<1>1. PICK S : stack \in Seq(S)
    BY DEF CloseInv, IsStack
<1>2. IsStack(r) /\ SameClosings(stack, r)
    BY <1>1, Popped
<1>3. /\ Shaped(r, closing)
      /\ ~nested => Awaited(r, dying, closeD)
      /\ ~nested /\ returned => Closings(r) = {}
    BY <1>2, SameIsAwaited DEF CloseInv
<1>4. IsStack(stack') /\ (stack' = r \/ SameClosings(r, stack'))
    <2>1. [op |-> "caller"].op # "closing"
        OBVIOUS
    <2> QED
        BY <1>2, <2>1, PushOther DEF IsStack
<1>5. /\ Shaped(stack', closing)
      /\ ~nested => Awaited(stack', dying, closeD)
      /\ ~nested /\ returned => Closings(stack') = {}
    BY <1>2, <1>3, <1>4, SameIsAwaited
<1> QED
    BY <1>4, <1>5 DEF CloseInv, closeVars

\* Nothing is being closed at first.
LEMMA CloseInit == Init => CloseInv
<1> SUFFICES ASSUME Init PROVE CloseInv
    OBVIOUS
<1>1. stack \in Seq({}) /\ Closings(stack) = {}
    BY DEF Init, Closings
<1> QED
    BY <1>1 DEF Init, CloseInv, IsStack, Shaped, Awaited


\* A response that shows brokers to be gone, and close(), start a loop when none is under
\* way.
LEMMA LoopStarts ==
    ASSUME NEW r, IsStack(r), NEW S, NEW by, NEW over, by = "close" => over, Shaped(r, over)
    PROVE  LET t == <<CloseFrame(S, by)>> \o r IN
           /\ IsStack(t) /\ Shaped(t, over)
           /\ Closings(r) = {} /\ dying \subseteq closeD => Awaited(t, dying, closeD)
<1> DEFINE f == CloseFrame(S, by)
           t == <<f>> \o r
<1>1. PICK R : r \in Seq(R)
    BY DEF IsStack
<1>2. /\ t \in Seq(R \cup {f}) /\ DOMAIN t = 1 .. (Len(r) + 1) /\ DOMAIN r = 1 .. Len(r)
      /\ t[1] = f /\ Len(r) \in Nat
      /\ \A j \in 2 .. (Len(r) + 1) : t[j] = r[j - 1] /\ j - 1 \in 1 .. Len(r)
    <2>1. <<f>> \in Seq(R \cup {f}) /\ r \in Seq(R \cup {f})
        BY <1>1
    <2> QED
        BY <1>1, <2>1
<1>3. f = [op |-> "closing", left |-> S, all |-> closeD, by |-> by]
    BY DEF CloseFrame
<1>a. {"op", "left", "all", "by"} \subseteq DOMAIN f /\ f.by = by
    BY <1>3
<1> HIDE DEF t, f
<1>4. Closings(t) = {1} \cup {j \in 2 .. (Len(r) + 1) : j - 1 \in Closings(r)}
    BY <1>2, <1>3 DEF Closings
<1>5. Shaped(t, over)
    <2> SUFFICES ASSUME NEW i \in Closings(t)
                 PROVE  /\ {"op", "left", "all", "by"} \subseteq DOMAIN t[i]
                        /\ t[i].by = "close" => over
        BY DEF Shaped
    <2>1. CASE i = 1
        BY <1>2, <1>a, <2>1
    <2>2. CASE i # 1
        <3>1. i - 1 \in Closings(r) /\ t[i] = r[i - 1]
            BY <1>2, <1>4, <2>2
        <3> QED
            BY <3>1 DEF Shaped
    <2> QED
        BY <2>1, <2>2
<1>6. Closings(r) = {} => Closings(t) = {1}
    BY <1>4
<1>7. Closings(r) = {} /\ dying \subseteq closeD => Awaited(t, dying, closeD)
    BY <1>2, <1>3, <1>6 DEF Awaited
<1>8. IsStack(t)
    BY <1>2 DEF IsStack
<1> QED
    BY <1>5, <1>7, <1>8 DEF t, f


\* What an iteration makes of its frame.
LEMMA FrameExcept ==
    ASSUME NEW f, {"op", "left", "all", "by"} \subseteq DOMAIN f, NEW x, NEW slow \in BOOLEAN
    PROVE  LET g == [f EXCEPT !.left = @ \ {x}, !.all = IF slow THEN @ \cup {x} ELSE @] IN
           /\ g.op = f.op /\ g.by = f.by
           /\ g.all = IF slow THEN f.all \cup {x} ELSE f.all
           /\ DOMAIN g = DOMAIN f
<1>1. "left" \in DOMAIN f /\ "all" \in DOMAIN f /\ "by" \in DOMAIN f /\ "op" \in DOMAIN f
    OBVIOUS
<1> QED
    BY <1>1

\* An iteration of the loop adds the connection it closes to its list.
LEMMA LoopGoesOn == ASSUME CloseInv, CloseOne PROVE CloseInv'
<1> DEFINE f == Head(stack)
<1>1. PICK R : stack \in Seq(R)
    BY DEF CloseInv, IsStack
<1>2. /\ stack # <<>> /\ f.op = "closing"
      /\ UNCHANGED <<closing, closeD, closeRet, returned, nested>>
    BY DEF CloseOne, Doing, Idle
<1>3. Len(stack) \in Nat /\ Len(stack) > 0 /\ f = stack[1] /\ DOMAIN stack = 1 .. Len(stack)
    BY <1>1, <1>2
<1>4. 1 \in Closings(stack)
    BY <1>2, <1>3 DEF Closings
<1>5. {"op", "left", "all", "by"} \subseteq DOMAIN f
    BY <1>3, <1>4 DEF CloseInv, Shaped
<1> HIDE DEF f
<1>6. PICK l \in f.left, slow \in BOOLEAN :
         /\ dying' = IF slow THEN dying \cup {l} ELSE dying
         /\ stack' = <<[op |-> "drain", link |-> l],
                       [f EXCEPT !.left = @ \ {l}, !.all = IF slow THEN @ \cup {l} ELSE @]>>
                     \o Tail(stack)
    BY DEF CloseOne, f
<1> DEFINE d == [op |-> "drain", link |-> l]
           g == [f EXCEPT !.left = @ \ {l}, !.all = IF slow THEN @ \cup {l} ELSE @]
           t == <<d, g>> \o Tail(stack)
<1>7. stack' = t
    BY <1>6
<1>8. /\ t \in Seq(R \cup {d, g}) /\ DOMAIN t = 1 .. (Len(stack) + 1)
      /\ t[1] = d /\ t[2] = g
      /\ \A j \in 3 .. (Len(stack) + 1) : t[j] = stack[j - 1] /\ j - 1 \in 2 .. Len(stack)
    <2> DEFINE r == Tail(stack)
    <2>1. /\ r \in Seq(R \cup {d, g}) /\ Len(r) = Len(stack) - 1
          /\ \A i \in 1 .. (Len(stack) - 1) : r[i] = stack[i + 1]
        BY <1>1, <1>3
    <2>2. <<d, g>> \in Seq(R \cup {d, g}) /\ Len(<<d, g>>) = 2
        OBVIOUS
    <2> HIDE DEF r, d, g
    <2>3. <<d, g>> \o r \in Seq(R \cup {d, g}) /\ Len(<<d, g>> \o r) = Len(stack) + 1
        BY <1>3, <2>1, <2>2
    <2>4. (<<d, g>> \o r)[1] = d /\ (<<d, g>> \o r)[2] = g
        BY <1>3, <2>1, <2>2
    <2>5. \A j \in 3 .. (Len(stack) + 1) : (<<d, g>> \o r)[j] = r[j - 2] /\ j - 2 \in 1 .. (Len(stack) - 1)
        BY <1>3, <2>1, <2>2
    <2>6. \A j \in 3 .. (Len(stack) + 1) : r[j - 2] = stack[j - 1]
        <3> TAKE j \in 3 .. (Len(stack) + 1)
        <3>1. r[j - 2] = stack[(j - 2) + 1] /\ (j - 2) + 1 = j - 1
            BY <1>3, <2>1, <2>5
        <3> QED
            BY <3>1
    <2> QED
        BY <1>3, <2>3, <2>4, <2>5, <2>6 DEF r
<1>9. /\ d.op # "closing" /\ g.op = "closing" /\ g.by = f.by
      /\ g.all = IF slow THEN f.all \cup {l} ELSE f.all
    BY <1>2, <1>5, FrameExcept
<1>10. {"op", "left", "all", "by"} \subseteq DOMAIN g
    BY <1>5, FrameExcept
<1> HIDE DEF d, g, t
<1>11. Closings(t) = {2} \cup {j \in 3 .. (Len(stack) + 1) : j - 1 \in Closings(stack)}
    BY <1>3, <1>8, <1>9 DEF Closings
<1>12. Shaped(t, closing)
    <2>1. f.by = "close" => closing
        BY <1>3, <1>4 DEF CloseInv, Shaped
    <2> QED
        BY <1>8, <1>9, <1>10, <1>11, <2>1 DEF Shaped, CloseInv
<1>13. ~nested => Awaited(t, dying', closeD) /\ ~returned
    <2> SUFFICES ASSUME ~nested PROVE Awaited(t, dying', closeD) /\ ~returned
        OBVIOUS
    <2>1. /\ \A i \in Closings(stack) : i = 1
          /\ dying \subseteq f.all /\ ~returned
        BY <1>3, <1>4 DEF CloseInv, Awaited
    <2>2. Closings(t) = {2}
        BY <1>3, <1>11, <2>1
    <2> QED
        BY <1>6, <1>8, <1>9, <2>1, <2>2 DEF Awaited
<1> QED
    BY <1>2, <1>7, <1>8, <1>12, <1>13 DEF CloseInv, IsStack

\* When the loop is over, close_dlist is its list, and so is what close() returns.
LEMMA LoopEnds == ASSUME CloseInv, CloseDone PROVE CloseInv'
<1> DEFINE f == Head(stack)
           t == Tail(stack)
<1>1. PICK R : stack \in Seq(R)
    BY DEF CloseInv, IsStack
<1>2. /\ stack # <<>> /\ f.op = "closing" /\ stack' = t
      /\ closeD' = f.all
      /\ \/ f.by = "close" /\ closeRet' = closeD' /\ returned' = TRUE
         \/ UNCHANGED <<closeRet, returned>>
      /\ UNCHANGED <<closing, dying, nested>>
    BY DEF CloseDone, Doing, Idle
<1>3. /\ Len(stack) \in Nat /\ Len(stack) > 0 /\ f = stack[1] /\ DOMAIN stack = 1 .. Len(stack)
      /\ t \in Seq(R) /\ DOMAIN t = 1 .. (Len(stack) - 1)
      /\ \A i \in 1 .. (Len(stack) - 1) : t[i] = stack[i + 1] /\ i + 1 \in 2 .. Len(stack)
    BY <1>1, <1>2
<1> HIDE DEF f, t
<1>4. 1 \in Closings(stack)
    BY <1>2, <1>3 DEF Closings
<1>5. \A i \in Closings(t) : i \in Nat /\ i > 0 /\ i + 1 \in Closings(stack) /\ t[i] = stack[i + 1]
    BY <1>3 DEF Closings
<1>6. Shaped(t, closing)
    BY <1>5 DEF Shaped, CloseInv
<1>7. ~nested => Closings(t) = {} /\ dying \subseteq f.all /\ ~returned
    <2> SUFFICES ASSUME ~nested PROVE Closings(t) = {} /\ dying \subseteq f.all /\ ~returned
        OBVIOUS
    <2>1. /\ \A i \in Closings(stack) : i = 1
          /\ dying \subseteq f.all /\ ~returned
        BY <1>3, <1>4 DEF CloseInv, Awaited
    <2>2. \A i \in Closings(t) : i + 1 = 1
        BY <1>5, <2>1
    <2> QED
        BY <1>5, <2>1, <2>2
<1>8. f.by = "close" => closing
    BY <1>3, <1>4 DEF CloseInv, Shaped
<1>9. ~nested => Awaited(t, dying, f.all)
    BY <1>7 DEF Awaited
<1>10. IsStack(t)
    BY <1>3 DEF IsStack
<1> QED
    BY <1>2, <1>6, <1>7, <1>8, <1>9, <1>10 DEF CloseInv


\* A request that failed and the hosts and nodes tried next close nothing.
LEMMA GoesOn ==
    ASSUME NEW c, NEW k, NEW S, NEW r
    PROVE  /\ Finish(c, r) => stack' = <<[op |-> "caller"]>> \o r
           /\ Dial(c, k, S, r) => stack' = r \/ stack' = <<[op |-> "caller"]>> \o r
           /\ TryNext(c, k, S, r) => stack' = r \/ stack' = <<[op |-> "caller"]>> \o r
<1>1. Finish(c, r) => stack' = <<[op |-> "caller"]>> \o r
    BY DEF Finish
<1>2. \A T : Dial(c, k, T, r) => stack' = r \/ stack' = <<[op |-> "caller"]>> \o r
    BY <1>1 DEF Dial
<1> QED
    BY <1>1, <1>2 DEF TryNext

\* Responses remove brokers only when no loop is under way.
LEMMA UpdateCloses ==
    ASSUME CloseInv, Idle, NEW c, NEW resp, UpdateBrokers(c, resp), UNCHANGED closeVars
    PROVE  CloseInv'
<1>1. CASE Finish(c, stack)
    BY <1>1, OtherHandlers DEF Finish
<1>2. CASE ~closing /\ \E S : stack' = <<CloseFrame(S, "update"), [op |-> "merged", call |-> c]>> \o stack
    <2> DEFINE m == [op |-> "merged", call |-> c]
               r == <<m>> \o stack
    <2>1. PICK S : stack' = <<CloseFrame(S, "update"), m>> \o stack
        BY <1>2
    <2>2. stack = <<>> /\ stack \in Seq({})
        BY DEF Idle
    <2>3. IsStack(r) /\ Closings(r) = {} /\ Shaped(r, closing)
        <3>1. Closings(stack) = {} /\ m.op # "closing"
            BY <2>2 DEF Closings
        <3>2. IsStack(r) /\ SameClosings(stack, r)
            BY <2>2, <3>1, PushOther
        <3>3. Closings(r) = {}
            BY <3>1, <3>2 DEF SameClosings
        <3> QED
            BY <3>2, <3>3 DEF Shaped
    <2>4. stack' = <<CloseFrame(S, "update")>> \o r
        BY <2>1, <2>2
    <2>5. ~nested => dying \subseteq closeD
        <3>1. Closings(stack) = {}
            BY <2>2 DEF Closings
        <3> QED
            BY <3>1 DEF CloseInv, Awaited
    <2>6. IsStack(stack') /\ Shaped(stack', closing) /\ (~nested => Awaited(stack', dying, closeD))
        BY <2>3, <2>4, <2>5, LoopStarts
    <2> QED
        BY <1>2, <2>6 DEF CloseInv, closeVars
<1> QED
    <2> DEFINE gone == Gone(call[c].kind, resp)
    <2>1. \/ Finish(c, stack)
          \/ /\ ~closing
             /\ stack' = <<CloseFrame({clients[n] : n \in gone}, "update"),
                           [op |-> "merged", call |-> c]>> \o stack
        BY DEF UpdateBrokers
    <2> QED
        BY <1>1, <1>2, <2>1

\* close() starts a loop; unless one is under way, it waits for the list there is.
LEMMA CloseStarts == ASSUME CloseInv, Close PROVE CloseInv'
<1>1. /\ ~closing /\ closing' = TRUE
      /\ stack' = <<CloseFrame(InUse, "close")>> \o AfterCaller
      /\ nested' = \E i \in DOMAIN stack : stack[i].op = "closing"
      /\ UNCHANGED <<dying, closeD, closeRet, returned>>
    BY DEF Close
<1>2. ~nested /\ ~returned /\ nested' = (Closings(stack) # {})
    BY <1>1 DEF CloseInv, Closings
<1>3. IsStack(AfterCaller) /\ SameClosings(stack, AfterCaller)
    <2>1. \/ AfterCaller = stack
          \/ stack # <<>> /\ Head(stack).op # "closing" /\ AfterCaller = Tail(stack)
        BY DEF Close, CallerRuns, AfterCaller, Doing, Idle
    <2> QED
        BY <2>1, Popped DEF CloseInv, IsStack
<1>4. Shaped(AfterCaller, TRUE) /\ (Closings(stack) = {} => Closings(AfterCaller) = {})
    <2>1. Shaped(stack, TRUE)
        BY DEF CloseInv, Shaped
    <2> QED
        BY <1>3, <2>1, SameIsAwaited DEF CloseInv
<1>5. Closings(stack) = {} => dying \subseteq closeD
    BY <1>2 DEF CloseInv, Awaited
<1>6. /\ IsStack(stack') /\ Shaped(stack', TRUE)
      /\ Closings(stack) = {} => Awaited(stack', dying, closeD)
    BY <1>1, <1>3, <1>4, <1>5, LoopStarts
<1> QED
    BY <1>1, <1>2, <1>6 DEF CloseInv


\* A broker client that is down leaves every list at once.
LEMMA DownLeaves == ASSUME CloseInv, NEW l, GoDown(l) PROVE CloseInv'
<1>1. /\ stack = <<>> /\ stack' = stack
      /\ dying' = dying \ {l} /\ closeD' = closeD \ {l} /\ closeRet' = closeRet \ {l}
      /\ UNCHANGED <<closing, returned, nested>>
    BY DEF GoDown, Idle
<1>2. Closings(stack) = {}
    BY <1>1 DEF Closings
<1>3. ~nested => Awaited(stack', dying', closeD')
    BY <1>1, <1>2 DEF CloseInv, Awaited
<1> QED
    BY <1>1, <1>2, <1>3 DEF CloseInv

\* Every handler keeps the invariant.
LEMMA CloseStep == CloseInv /\ [Next]_vars => CloseInv'
<1> SUFFICES ASSUME CloseInv, [Next]_vars PROVE CloseInv'
    OBVIOUS
<1> DEFINE r == AfterCaller
<1>0. CallerRuns => \/ r = stack
                    \/ stack # <<>> /\ Head(stack).op # "closing" /\ r = Tail(stack)
    BY DEF CallerRuns, AfterCaller, Doing, Idle
<1> HIDE DEF r
<1>1. ASSUME NEW c \in Calls, NEW k \in Kinds, Start(c, k) PROVE CloseInv'
    <2>1. stack' = r \/ stack' = <<[op |-> "caller"]>> \o r
        BY <1>1, GoesOn DEF Start, r
    <2> QED
        BY <1>0, <1>1, <2>1, OtherHandlers DEF Start
<1>2. ASSUME NEW c \in Calls, RequestFailed(c), UNCHANGED closeVars PROVE CloseInv'
    <2>1. stack' = stack \/ stack' = <<[op |-> "caller"]>> \o stack
        BY <1>2, GoesOn DEF RequestFailed
    <2> QED
        BY <1>2, <2>1, OtherHandlers
<1>3. ASSUME NEW c \in Calls, RequestTimesOut(c) PROVE CloseInv'
    BY <1>2, <1>3 DEF RequestTimesOut
<1>4. ASSUME NEW c \in Calls, Connected(c) PROVE CloseInv'
    BY <1>4, OtherHandlers DEF Connected
<1>5. ASSUME NEW c \in Calls, BootstrapFails(c) PROVE CloseInv'
    <2>1. stack' = stack \/ stack' = <<[op |-> "caller"]>> \o stack
        BY <1>5, GoesOn DEF BootstrapFails
    <2> QED
        BY <1>5, <2>1, OtherHandlers DEF BootstrapFails
<1>6. ASSUME NEW c \in Calls, Cancel(c) PROVE CloseInv'
    <2>1. stack' = r \/ stack' = <<[op |-> "caller"]>> \o r
        BY <1>6, GoesOn DEF Cancel, r
    <2> QED
        BY <1>0, <1>6, <2>1, OtherHandlers DEF Cancel
<1>7. ASSUME NEW c \in Calls, Answer(c) PROVE CloseInv'
    <2>1. Idle /\ UNCHANGED closeVars
        BY <1>7 DEF Answer
    <2>2. CASE \E resp \in Responses(call[c].kind) : UpdateBrokers(c, resp)
        BY <2>1, <2>2, UpdateCloses
    <2>3. CASE Finish(c, stack)
        BY <2>1, <2>3, GoesOn, OtherHandlers
    <2> QED
        BY <1>7, <2>2, <2>3 DEF Answer
<1>8. CASE Merged
    <2>1. /\ stack # <<>> /\ Head(stack).op # "closing"
          /\ stack' = <<[op |-> "caller"]>> \o Tail(stack) /\ UNCHANGED closeVars
        BY <1>8, GoesOn DEF Merged, Doing, Idle
    <2> QED
        BY <2>1, OtherHandlers
<1>9. CASE Drain \/ Return
    <2>1. CASE \E c \in Calls : RequestFailed(c) /\ UNCHANGED closeVars
        BY <1>2, <2>1
    <2>2. CASE stack' = Tail(stack)
        <3>1. stack # <<>> /\ Head(stack).op # "closing" /\ UNCHANGED closeVars
            BY <1>9 DEF Drain, Return, Doing, Idle
        <3> QED
            BY <2>2, <3>1, OtherHandlers
    <2> QED
        BY <1>9, <2>1, <2>2 DEF Drain, Return
<1>10. CASE UpdateHosts
    BY <1>0, <1>10, OtherHandlers DEF UpdateHosts, r
<1>11. CASE UNCHANGED vars
    BY <1>11, OtherHandlers DEF vars
<1> QED
    BY <1>1, <1>3, <1>4, <1>5, <1>6, <1>7, <1>8, <1>9, <1>10, <1>11,
       LoopGoesOn, LoopEnds, CloseStarts, DownLeaves DEF Next

\* Whatever was removed and is still going down is waited for by close(): its
\* Deferred does not fire before the last of these connections is down, for any
\* number of brokers, calls and callbacks; unless a callback of a removal called it.
THEOREM CloseAwaitsAll == Spec => []CloseWaitsForAll
<1>1. CloseInv => CloseWaitsForAll
    BY DEF CloseInv, CloseWaitsForAll
<1> QED
    BY <1>1, CloseInit, CloseStep, PTL DEF Spec
=============================================================================
