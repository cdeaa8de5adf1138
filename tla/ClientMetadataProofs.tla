------------------------ MODULE ClientMetadataProofs ------------------------
(***************************************************************************)
(* The caches of KafkaClient agree with each other, and every payload of a *)
(* fan-out is accounted for, for any number of topics, partitions, brokers *)
(* and operations.                                                         *)
(*                                                                         *)
(* A metadata response is merged only after the requests of brokers that   *)
(* are gone have failed, which may reset caches and close the client; the  *)
(* invariant therefore says what a response waiting on the stack tells,    *)
(* and what callers that wait there will hear.                             *)
(***************************************************************************)
EXTENDS ClientMetadata, Integers, SequenceTheorems, TLAPS

\* The history of the cluster.
Cluster == [leader : [TP -> Leader], coord : Nodes]
HistoryOK == truths \in Seq(Cluster) /\ Len(truths) > 0

\* The caches.
CachesOK ==
    /\ routes \in [TP -> Leader \cup {"missing"}]
    /\ partitions \in [Topics -> SUBSET Part]
    /\ errors \in [Topics -> {"unset", "none", "error"}]
    /\ coordinator \in Nodes \cup {"missing"}
    /\ CachesAgree

\* A lookup was asked for in a state there was.
FetchOK(f, n) ==
    /\ f \in [via : Nodes \cup {"boot", "none"}, since : 0 .. n, waiters : Seq(Calls)]
    /\ f.via # "none" => f.since # 0

\* So was a load.  Payloads are routed before the requests are made, and operations
\* that route nothing have none.
Rec(n) == [kind : Kinds \cup {"none"},
           at : {"off", "route", "load", "merging", "wait", "flight", "delay"},
           via : Nodes \cup {"boot", "none"}, want : SUBSET Topics,
           key : TP \cup {<<>>}, since : 0 .. n, slot : [TP -> Codes]]
RecOK(rec, n) ==
    /\ rec \in Rec(n)
    /\ rec.at = "load" => rec.since # 0
    /\ rec.at = "flight" => \A p \in TP : rec.slot[p] # "todo"
    /\ ~Routed(rec.kind) => rec.key = <<>> /\ \A p \in TP : rec.slot[p] = "no"
CallsOK(f, n) == f \in [Calls -> Rec(n)] /\ \A c \in Calls : RecOK(f[c], n)

\* A response tells of a state there was, and of topics that have partitions.
Told(answer, n) == answer.list \in [Topics -> 1 .. MaxParts] /\ answer.when \in 1 .. n

\* What a caller hears of its payloads.
Accounted(kind, how, slot) ==
    how \in {"ok", "raised", "failed"} =>
        LET given == {p \in TP : slot[p] # "no"} IN
        /\ \A p \in given : slot[p] \in {"ok", "moved", "refused", "failed"}
        /\ Routed(kind) => (how = "failed" <=> \E p \in given : slot[p] = "failed")

FrameOK(f, n) ==
    /\ "op" \in DOMAIN f
    /\ f.op = "merge" => f.call \in Calls /\ Told(f.answer, n)
    /\ f.op = "route" => f.call \in Calls
    /\ f.op = "propagate" => "ds" \in DOMAIN f /\ f.ds \in Seq(Calls)
    /\ f.op = "caller" => Accounted(f.kind, f.how, f.slot)
StackOK(s, n) == (\E S : s \in Seq(S)) /\ \A i \in DOMAIN s : FrameOK(s[i], n)

FlagsOK == {closed, nested} \subseteq BOOLEAN

ClientInv ==
    /\ HistoryOK /\ CachesOK /\ FlagsOK
    /\ FetchOK(fetch, Now) /\ CallsOK(call, Now) /\ StackOK(stack, Now)

\* A step that leaves the cluster alone has to keep these.
Kept ==
    /\ truths' = truths /\ CachesOK' /\ FlagsOK'
    /\ FetchOK(fetch', Now) /\ CallsOK(call', Now) /\ StackOK(stack', Now)

-----------------------------------------------------------------------------
(* The caches *)

\* Resets keep the caches in agreement.
LEMMA ResetsAgree ==
    ASSUME CachesOK
    PROVE  /\ \A T : ResetTopics(T) => CachesOK'
           /\ ResetGroup => CachesOK'
           /\ ResetAll => CachesOK'
           /\ UNCHANGED caches => CachesOK'
<1>1. ASSUME NEW T, ResetTopics(T) PROVE CachesOK'
    <2>1. CachesAgree'
        <3> SUFFICES ASSUME NEW t \in Topics
                     PROVE  /\ \A p \in Part : p \in partitions'[t] <=> routes'[<<t, p>>] # "missing"
                            /\ errors'[t] = "none" <=> partitions'[t] # {}
            BY DEF CachesAgree
        <3>1. \A p \in Part : <<t, p>> \in TP /\ <<t, p>>[1] = t /\ <<t, p>>[2] = p
            BY DEF TP
        <3>2. \A p \in Part :
                 routes'[<<t, p>>] = IF t \in T /\ p \in partitions[t] THEN "missing" ELSE routes[<<t, p>>]
            BY <1>1, <3>1 DEF ResetTopics, RoutesWithout
        <3>3. /\ partitions'[t] = IF t \in T THEN {} ELSE partitions[t]
              /\ errors'[t] = IF t \in T THEN "unset" ELSE errors[t]
            BY <1>1 DEF ResetTopics
        <3> QED
            BY <3>2, <3>3 DEF CachesAgree, CachesOK
    <2>2. routes' \in [TP -> Leader \cup {"missing"}]
        BY <1>1 DEF ResetTopics, RoutesWithout, CachesOK
    <2>3. /\ partitions' \in [Topics -> SUBSET Part]
          /\ errors' \in [Topics -> {"unset", "none", "error"}]
          /\ coordinator' \in Nodes \cup {"missing"}
        BY <1>1 DEF ResetTopics, CachesOK
    <2> QED
        BY <2>1, <2>2, <2>3 DEF CachesOK
<1>2. ResetGroup => CachesOK'
    BY DEF ResetGroup, CachesAgree, CachesOK
<1>3. ASSUME ResetAll PROVE CachesOK'
    <2>1. \A t \in Topics, p \in Part : <<t, p>> \in TP
        BY DEF TP
    <2>2. CachesAgree'
        BY <1>3, <2>1 DEF ResetAll, CachesAgree
    <2> QED
        BY <1>3, <2>2 DEF ResetAll, CachesOK
<1>4. UNCHANGED caches => CachesOK'
    BY DEF caches, CachesAgree, CachesOK
<1> QED
    BY <1>1, <1>2, <1>3, <1>4

\* So does merging a response: the partitions it lists have a leader or none, and
\* those it no longer lists lose their route.
LEMMA MergeAgrees ==
    ASSUME HistoryOK, CachesOK, NEW answer, Told(answer, Now), Merge(answer)
    PROVE  CachesOK'
<1>1. CachesAgree'
    <2> SUFFICES ASSUME NEW t \in Topics
                 PROVE  /\ \A p \in Part : p \in partitions'[t] <=> routes'[<<t, p>>] # "missing"
                        /\ errors'[t] = "none" <=> partitions'[t] # {}
        BY DEF CachesAgree, CachesOK
    <2> DEFINE ok == t \in answer.want \ answer.bad
               h == truths[answer.when]
    <2>1. \A p \in Part : <<t, p>> \in TP /\ <<t, p>>[1] = t /\ <<t, p>>[2] = p /\ p \in Nat
        BY BoundsNat DEF TP, Part
    <2>2. answer.list[t] \in 1 .. MaxParts
        BY DEF Told
    <2>3. \A p \in Part : h.leader[<<t, p>>] # "missing"
        <3>1. h \in Cluster
            BY DEF HistoryOK, Told, Now
        <3>2. "missing" \notin Leader
            BY NodesAreIds DEF Leader
        <3>3. h.leader \in [TP -> Leader]
            BY <3>1 DEF Cluster
        <3> QED
            BY <2>1, <3>2, <3>3
    <2>4. \A p \in Part :
             routes'[<<t, p>>] = IF ok /\ p < answer.list[t] THEN h.leader[<<t, p>>]
                                 ELSE IF t \in answer.want /\ p \in partitions[t] THEN "missing"
                                 ELSE routes[<<t, p>>]
        BY <2>1 DEF Merge, RoutesWithout
    <2>5. /\ partitions'[t] = IF ok THEN 0 .. (answer.list[t] - 1)
                              ELSE IF t \in answer.want THEN {} ELSE partitions[t]
          /\ errors'[t] = IF ok THEN "none" ELSE IF t \in answer.want THEN "error" ELSE errors[t]
        BY DEF Merge
    <2>6. CASE ok
        <3>1. 0 \in partitions'[t] /\ errors'[t] = "none"
            BY <2>2, <2>5, <2>6, BoundsNat
        <3>2. \A p \in Part : p \in partitions'[t] <=> p < answer.list[t]
            <4> DEFINE n == answer.list[t]
            <4>1. n \in Int
                BY <2>2
            <4>2. partitions'[t] = 0 .. (n - 1)
                BY <2>5, <2>6
            <4>3. Part \subseteq Nat
                BY <2>1
            <4> HIDE DEF n
            <4>4. \A p \in Nat : p \in 0 .. (n - 1) <=> p < n
                BY <4>1
            <4> QED
                BY <4>2, <4>3, <4>4 DEF n
        <3>3. \A p \in Part : p < answer.list[t] => routes'[<<t, p>>] # "missing"
            BY <2>3, <2>4, <2>6
        <3>4. \A p \in Part : ~(p < answer.list[t]) => routes'[<<t, p>>] = "missing"
            BY <2>4, <2>6 DEF CachesAgree, CachesOK
        <3> QED
            BY <3>1, <3>2, <3>3, <3>4
    <2>7. CASE ~ok
        BY <2>4, <2>5, <2>7 DEF CachesAgree, CachesOK
    <2> QED
        BY <2>6, <2>7
<1>2. \A p \in TP : truths[answer.when].leader[p] \in Leader
    <2>1. truths[answer.when] \in Cluster
        BY DEF HistoryOK, Told, Now
    <2> QED
        BY <2>1 DEF Cluster
<1>3. routes' \in [TP -> Leader \cup {"missing"}]
    BY <1>2 DEF Merge, RoutesWithout, CachesOK
<1>4. \A t \in Topics : 0 .. (answer.list[t] - 1) \subseteq Part
    <2> TAKE t \in Topics
    <2>1. answer.list[t] \in 1 .. MaxParts
        BY DEF Told
    <2> QED
        BY <2>1, BoundsNat DEF Part
<1>5. partitions' \in [Topics -> SUBSET Part]
    BY <1>4 DEF Merge, CachesOK
<1>6. errors' \in [Topics -> {"unset", "none", "error"}] /\ coordinator' = coordinator
    BY DEF Merge, CachesOK
<1> QED
    BY <1>1, <1>3, <1>5, <1>6 DEF CachesOK

-----------------------------------------------------------------------------
(* The stack, the lookup and the calls *)

\* A frame is pushed.
LEMMA Push ==
    ASSUME NEW n, NEW s, StackOK(s, n), NEW f, FrameOK(f, n)
    PROVE  StackOK(<<f>> \o s, n)
<1> DEFINE t == <<f>> \o s
<1>1. PICK S : s \in Seq(S)
    BY DEF StackOK
<1>2. /\ t \in Seq(S \cup {f}) /\ DOMAIN t = 1 .. (Len(s) + 1) /\ DOMAIN s = 1 .. Len(s)
      /\ t[1] = f /\ Len(s) \in Nat
      /\ \A j \in 2 .. (Len(s) + 1) : t[j] = s[j - 1] /\ j - 1 \in 1 .. Len(s)
    <2>1. <<f>> \in Seq(S \cup {f}) /\ s \in Seq(S \cup {f})
        BY <1>1
    <2> QED
        BY <1>1, <2>1
<1> HIDE DEF t
<1>3. \A j \in DOMAIN t : j = 1 \/ (t[j] = s[j - 1] /\ j - 1 \in DOMAIN s)
    BY <1>2
<1>4. \A j \in DOMAIN t : FrameOK(t[j], n)
    BY <1>2, <1>3 DEF StackOK
<1> QED
    BY <1>2, <1>4 DEF StackOK, t

\* Two frames are.
LEMMA PushTwo ==
    ASSUME NEW n, NEW s, StackOK(s, n), NEW f, FrameOK(f, n), NEW g, FrameOK(g, n)
    PROVE  StackOK(<<f, g>> \o s, n)
<1>1. PICK S : s \in Seq(S)
    BY DEF StackOK
<1> DEFINE T == S \cup {f, g}
<1>2. s \in Seq(T) /\ <<f>> \in Seq(T) /\ <<g>> \in Seq(T)
    BY <1>1
<1>3. <<f, g>> = <<f>> \o <<g>>
    <2>1. /\ <<f, g>> \in Seq(T) /\ Len(<<f, g>>) = 2
          /\ <<f>> \o <<g>> \in Seq(T) /\ Len(<<f>> \o <<g>>) = 2
        BY <1>2
    <2>2. \A i \in 1 .. 2 : <<f, g>>[i] = (<<f>> \o <<g>>)[i]
        <3>1. <<f, g>>[1] = f /\ <<f, g>>[2] = g
            OBVIOUS
        <3>2. (<<f>> \o <<g>>)[1] = f /\ (<<f>> \o <<g>>)[2] = g
            BY <1>2
        <3> QED
            BY <3>1, <3>2
    <2> HIDE DEF T
    <2> QED
        BY <2>1, <2>2, SeqEqual
<1> HIDE DEF T
<1>4. <<f, g>> \o s = <<f>> \o (<<g>> \o s)
    BY <1>2, <1>3, ConcatAssociative
<1> QED
    BY <1>4, Push

\* The innermost frame is done.
LEMMA Pop ==
    ASSUME NEW n, NEW s, StackOK(s, n), s # <<>>
    PROVE  StackOK(Tail(s), n) /\ FrameOK(Head(s), n)
<1>1. PICK S : s \in Seq(S)
    BY DEF StackOK
<1>2. /\ Tail(s) \in Seq(S) /\ DOMAIN Tail(s) = 1 .. (Len(s) - 1) /\ DOMAIN s = 1 .. Len(s)
      /\ Head(s) = s[1] /\ Len(s) \in Nat /\ Len(s) > 0
      /\ \A j \in 1 .. (Len(s) - 1) : Tail(s)[j] = s[j + 1] /\ j + 1 \in 1 .. Len(s)
    BY <1>1
<1>3. 1 \in DOMAIN s
    BY <1>2
<1> QED
    BY <1>2, <1>3 DEF StackOK

\* A waiter leaves a list.
LEMMA WithoutType ==
    ASSUME NEW c, NEW w \in Seq(Calls)
    PROVE  Without(c, w) \in Seq(Calls)
<1> DEFINE i == CHOOSE j \in DOMAIN w : w[j] = c
<1>1. CASE \E j \in DOMAIN w : w[j] = c
    <2>1. i \in 1 .. Len(w)
        BY <1>1
    <2> HIDE DEF i
    <2>2. SubSeq(w, 1, i - 1) \in Seq(Calls) /\ SubSeq(w, i + 1, Len(w)) \in Seq(Calls)
        <3>1. \A k \in 1 .. Len(w) : w[k] \in Calls
            OBVIOUS
        <3>2. i \in Int /\ 1 <= i /\ i <= Len(w) /\ Len(w) \in Int
            BY <2>1
        <3>3. /\ \A k \in 1 .. (i - 1) : w[k] \in Calls
              /\ \A k \in (i + 1) .. Len(w) : w[k] \in Calls
            BY <3>1, <3>2
        <3>4. i - 1 \in Int /\ i + 1 \in Int /\ 1 \in Int
            BY <3>2
        <3> QED
            BY <3>2, <3>3, <3>4, SubSeqProperties
    <2> QED
        BY <1>1, <2>2 DEF Without, i
<1> QED
    BY <1>1 DEF Without

\* It leaves the lists that are being worked off.
LEMMA Forget ==
    ASSUME NEW n, NEW s, StackOK(s, n), NEW c
    PROVE  StackOK(WithoutWaiter(c, s), n)
<1> DEFINE g(i) == IF s[i].op = "propagate" THEN [s[i] EXCEPT !.ds = Without(c, @)] ELSE s[i]
           t == [i \in DOMAIN s |-> g(i)]
           T == {g(i) : i \in DOMAIN s}
<1>1. PICK S : s \in Seq(S)
    BY DEF StackOK
<1>2. Len(s) \in Nat /\ DOMAIN s = 1 .. Len(s)
    BY <1>1
<1>3. \A i \in DOMAIN s : FrameOK(g(i), n)
    <2> TAKE i \in DOMAIN s
    <2>1. CASE s[i].op = "propagate"
        <3> DEFINE f == s[i]
                   h == [f EXCEPT !.ds = Without(c, @)]
        <3>1. "op" \in DOMAIN f /\ "ds" \in DOMAIN f /\ f.ds \in Seq(Calls)
            BY <2>1 DEF StackOK, FrameOK
        <3>2. Without(c, f.ds) \in Seq(Calls)
            BY <3>1, WithoutType
        <3>3. DOMAIN h = DOMAIN f /\ h.op = "propagate" /\ h.ds = Without(c, f.ds)
            BY <2>1, <3>1
        <3>4. FrameOK(h, n)
            BY <3>1, <3>2, <3>3 DEF FrameOK
        <3> QED
            BY <2>1, <3>4
    <2>2. CASE s[i].op # "propagate"
        BY <2>2 DEF StackOK
    <2> QED
        BY <2>1, <2>2
<1> HIDE DEF g
<1>4. t \in [1 .. Len(s) -> T]
    BY <1>2
<1>5. t \in Seq(T)
    BY <1>2, <1>4
<1>6. StackOK(t, n)
    BY <1>3, <1>5 DEF StackOK
<1> QED
    BY <1>6 DEF WithoutWaiter, g

\* The record of a call is replaced.
LEMMA Replace ==
    ASSUME NEW n, CallsOK(call, n), NEW c, NEW rec, RecOK(rec, n)
    PROVE  CallsOK([call EXCEPT ![c] = rec], n)
<1>1. rec \in Rec(n)
    BY DEF RecOK
<1>2. [call EXCEPT ![c] = rec] \in [Calls -> Rec(n)]
    BY <1>1 DEF CallsOK
<1>3. \A d \in Calls : [call EXCEPT ![c] = rec][d] \in {rec, call[d]}
    BY DEF CallsOK
<1> QED
    BY <1>2, <1>3 DEF CallsOK

\* An operation that has not started.
LEMMA Fresh ==
    ASSUME NEW n \in Nat
    PROVE  RecOK(NoCall, n) /\ NoCall \in Rec(n) /\ NoCall.key = <<>>
BY DEF RecOK, NoCall, Rec, Routed, ByLeader, Codes

\* A call is over, and its caller will hear of its payloads.
LEMMA Ends ==
    ASSUME NEW n \in Nat, CallsOK(call, n), NEW c, NEW rest, StackOK(rest, n), NEW how, NEW slot
    PROVE  /\ Finish(c, how, slot, rest) /\ Accounted(call[c].kind, how, slot) =>
                CallsOK(call', n) /\ StackOK(stack', n)
           /\ Fail(c, how, rest) /\ how \notin {"ok", "raised", "failed"} =>
                CallsOK(call', n) /\ StackOK(stack', n)
<1>1. RecOK(NoCall, n)
    BY Fresh
<1>2. ASSUME NEW x, Finish(c, how, x, rest), Accounted(call[c].kind, how, x)
      PROVE  CallsOK(call', n) /\ StackOK(stack', n)
    <2> DEFINE f == [op |-> "caller", kind |-> call[c].kind, how |-> how, slot |-> x]
    <2>1. FrameOK(f, n)
        BY <1>2 DEF FrameOK
    <2> HIDE DEF f
    <2>2. StackOK(<<f>> \o rest, n)
        BY <2>1, Push
    <2> QED
        BY <1>1, <1>2, <2>2, Replace DEF Finish, f
<1>3. \A k, x : how \notin {"ok", "raised", "failed"} => Accounted(k, how, x)
    BY DEF Accounted
<1> QED
    BY <1>2, <1>3 DEF Fail

\* There is always a last state of the cluster.
LEMMA NowNat == ASSUME HistoryOK PROVE Now \in Nat /\ Now # 0
BY DEF HistoryOK, Now

\* load_metadata_for_topics() and load_coordinator_for_group() are called.
LEMMA Asks ==
    ASSUME HistoryOK, FetchOK(fetch, Now), CallsOK(call, Now), NEW c \in Calls,
           NEW rec, RecOK(rec, Now)
    PROVE  /\ \A want \in SUBSET Topics : Load(c, rec, want) => CallsOK(call', Now)
           /\ Lookup(c, rec) => CallsOK(call', Now) /\ FetchOK(fetch', Now)
<1>1. Now \in Nat /\ Now # 0 /\ Now \in 0 .. Now /\ rec \in Rec(Now)
    BY NowNat DEF RecOK
<1>2. ASSUME NEW want \in SUBSET Topics, Load(c, rec, want) PROVE CallsOK(call', Now)
    <2>1. PICK v \in Nodes \cup {"boot"} :
             call' = [call EXCEPT ![c] = [rec EXCEPT !.at = "load", !.via = v,
                                                     !.want = want, !.since = Now]]
        BY <1>2 DEF Load
    <2> DEFINE new == [rec EXCEPT !.at = "load", !.via = v, !.want = want, !.since = Now]
    <2>2. /\ new \in Rec(Now) /\ new.at = "load" /\ new.since = Now
          /\ new.kind = rec.kind /\ new.key = rec.key /\ new.slot = rec.slot
        BY <1>1 DEF Rec
    <2>3. RecOK(new, Now)
        BY <1>1, <2>2 DEF RecOK
    <2> QED
        BY <2>1, <2>3, Replace
<1>3. ASSUME Lookup(c, rec) PROVE CallsOK(call', Now) /\ FetchOK(fetch', Now)
    <2> DEFINE new == [rec EXCEPT !.at = "wait"]
    <2>1. /\ new \in Rec(Now) /\ new.at = "wait"
          /\ new.kind = rec.kind /\ new.key = rec.key /\ new.slot = rec.slot
        BY <1>1 DEF Rec
    <2>2. RecOK(new, Now)
        BY <2>1 DEF RecOK
    <2>3. CallsOK(call', Now)
        BY <1>3, <2>2, Replace DEF Lookup
    <2>4. CASE fetch.via # "none" /\ fetch' = [fetch EXCEPT !.waiters = Append(@, c)]
        <3>1. Append(fetch.waiters, c) \in Seq(Calls)
            BY DEF FetchOK
        <3> QED
            BY <2>3, <2>4, <3>1 DEF FetchOK
    <2>5. CASE \E v \in Nodes \cup {"boot"} : fetch' = [via |-> v, since |-> Now, waiters |-> <<c>>]
        <3>1. <<c>> \in Seq(Calls)
            OBVIOUS
        <3> QED
            BY <1>1, <2>3, <2>5, <3>1 DEF FetchOK
    <2> QED
        BY <1>3, <2>4, <2>5 DEF Lookup
<1> QED
    BY <1>2, <1>3

\* The coroutine goes on, or the operation ends.
LEMMA Continues ==
    ASSUME NEW n \in Nat, CallsOK(call, n), NEW c \in Calls, NEW rest, StackOK(rest, n)
    PROVE  /\ \A to : GoOn(c, to, rest) => CallsOK(call', n) /\ StackOK(stack', n)
           /\ Loaded(c, rest) => CallsOK(call', n) /\ StackOK(stack', n)
<1>1. RecOK(call[c], n) /\ call[c] \in Rec(n)
    BY DEF CallsOK, RecOK
<1>2. ASSUME NEW to, GoOn(c, to, rest) PROVE CallsOK(call', n) /\ StackOK(stack', n)
    <2>1. CASE to \in Nodes
        <3> DEFINE x == [call[c].slot EXCEPT ![call[c].key] = to]
                   rec == [NoCall EXCEPT !.kind = call[c].kind, !.at = "route", !.slot = x]
        <3>1. x \in [TP -> Codes]
            BY <1>1, <2>1 DEF Rec, Codes
        <3>2. ~Routed(call[c].kind) => \A p \in TP : x[p] = "no"
            <4>1. <<>> \notin TP
                BY DEF TP
            <4> QED
                BY <1>1, <4>1 DEF RecOK, Rec
        <3> HIDE DEF x
        <3>3. /\ rec.kind = call[c].kind /\ rec.at = "route" /\ rec.slot = x /\ rec.key = <<>>
              /\ rec \in Rec(n)
            BY <1>1, <3>1, Fresh DEF Rec
        <3>4. RecOK(rec, n)
            BY <3>1, <3>2, <3>3 DEF RecOK
        <3>6. FrameOK(RouteFrame(c), n)
            BY DEF RouteFrame, FrameOK
        <3>7. call' = [call EXCEPT ![c] = rec] /\ stack' = <<RouteFrame(c)>> \o rest
            BY <1>2, <2>1 DEF GoOn, x
        <3> QED
            BY <3>4, <3>6, <3>7, Replace, Push
    <2>2. CASE to \notin Nodes
        BY <1>2, <2>2, Ends DEF GoOn
    <2> QED
        BY <2>1, <2>2
<1>3. ASSUME Loaded(c, rest) PROVE CallsOK(call', n) /\ StackOK(stack', n)
    <2>1. CASE call' = [call EXCEPT ![c].at = "delay", ![c].via = "none"] /\ stack' = rest
        <3> DEFINE new == [call[c] EXCEPT !.at = "delay", !.via = "none"]
        <3>1. /\ new \in Rec(n) /\ new.at = "delay"
              /\ new.kind = call[c].kind /\ new.key = call[c].key /\ new.slot = call[c].slot
            BY <1>1 DEF Rec
        <3>2. RecOK(new, n)
            BY <1>1, <3>1 DEF RecOK
        <3>3. call' = [call EXCEPT ![c] = new]
            BY <2>1 DEF CallsOK
        <3> HIDE DEF new
        <3>4. CallsOK(call', n)
            BY <3>2, <3>3, Replace
        <3> QED
            BY <2>1, <3>4
    <2>2. CASE ~Routed(call[c].kind) /\ Finish(c, "ok", call[c].slot, rest)
        <3>1. Accounted(call[c].kind, "ok", call[c].slot)
            BY <1>1, <2>2 DEF RecOK, Accounted
        <3> QED
            BY <2>2, <3>1, Ends
    <2>3. CASE Routed(call[c].kind)
        BY <1>2, <1>3, <2>3 DEF Loaded
    <2> QED
        BY <1>3, <2>1, <2>2, <2>3 DEF Loaded
<1> QED
    BY <1>2, <1>3

\* A request has ended: the caches still agree, and when it was the last one nothing
\* is left unanswered.
LEMMA Collects ==
    ASSUME NEW n \in Nat, CachesOK, CallsOK(call, n), NEW c \in Calls, call[c].at = "flight",
           NEW slot \in [TP -> Codes], \A p \in TP : slot[p] # "todo",
           \A p \in TP : call[c].slot[p] = "no" => slot[p] = "no",
           NEW rest, StackOK(rest, n), Collect(c, slot, rest)
    PROVE  CachesOK' /\ CallsOK(call', n) /\ StackOK(stack', n)
<1>1. RecOK(call[c], n) /\ call[c] \in Rec(n)
    BY DEF CallsOK, RecOK
<1>2. CASE ~AllDone(slot)
    <2> DEFINE new == [call[c] EXCEPT !.slot = slot]
    <2>1. /\ new \in Rec(n) /\ new.at = "flight"
          /\ new.kind = call[c].kind /\ new.key = call[c].key /\ new.slot = slot
        BY <1>1 DEF Rec
    <2>2. RecOK(new, n)
        BY <1>1, <2>1 DEF RecOK
    <2>3. call' = [call EXCEPT ![c] = new]
        BY <1>2 DEF CallsOK, Collect
    <2> HIDE DEF new
    <2>4. CallsOK(call', n)
        BY <2>2, <2>3, Replace
    <2> QED
        BY <1>2, <2>4, ResetsAgree DEF Collect
<1>3. CASE AllDone(slot)
    <2>1. \A p \in TP : slot[p] \in {"no", "ok", "moved", "refused", "failed"}
        BY <1>3 DEF AllDone, Codes
    <2>2. CASE \A p \in TP : slot[p] # "failed"
        <3>1. HandleResponses(c, slot, rest)
            BY <1>3, <2>2 DEF Collect
        <3>2. PICK r \in Handled(call[c].kind, {p \in TP : slot[p] = "moved"},
                                 {p \in TP : slot[p] = "refused"}) :
                 /\ \/ UNCHANGED caches
                    \/ ResetTopics({p[1] : p \in r.reset})
                    \/ ResetGroup
                 /\ Finish(c, r.how, slot, rest)
            BY <3>1 DEF HandleResponses
        <3>3. r.how \in {"ok", "raised"}
            BY <3>2 DEF Handled
        <3>4. Accounted(call[c].kind, r.how, slot)
            BY <2>1, <2>2, <3>3 DEF Accounted
        <3> QED
            BY <3>2, <3>4, ResetsAgree, Ends
    <2>3. CASE ~ \A p \in TP : slot[p] # "failed"
        <3>1. Accounted(call[c].kind, "failed", slot)
            BY <2>1, <2>3 DEF Accounted
        <3>2. Finish(c, "failed", slot, rest) /\ (UNCHANGED caches \/ ResetAll)
            BY <1>3, <2>3 DEF Collect
        <3> QED
            BY <3>1, <3>2, ResetsAgree, Ends
    <2> QED
        BY <2>2, <2>3
<1> QED
    BY <1>2, <1>3

\* The entry of a lookup is removed and its waiters are to be called.
LEMMA Propagates ==
    ASSUME NEW n \in Nat, FetchOK(fetch, n), NEW ok, NEW rest, StackOK(rest, n),
           Propagate(ok, rest)
    PROVE  FetchOK(fetch', n) /\ StackOK(stack', n)
<1> DEFINE f == [op |-> "propagate", ok |-> ok, ds |-> fetch.waiters]
<1>1. FrameOK(f, n)
    BY DEF FrameOK, FetchOK
<1>2. stack' = <<f>> \o rest /\ fetch' = NoFetch
    BY DEF Propagate
<1> HIDE DEF f
<1>3. <<>> \in Seq(Calls)
    OBVIOUS
<1>4. FetchOK(NoFetch, n)
    BY <1>3 DEF FetchOK, NoFetch
<1> QED
    BY <1>1, <1>2, <1>4, Push

-----------------------------------------------------------------------------
(* The handlers *)

\* What is left of the stack when callers' code runs.
LEMMA Caller == ASSUME ClientInv, CallerRuns PROVE StackOK(AfterCaller, Now)
BY Pop DEF ClientInv, CallerRuns, AfterCaller, Doing, Idle

\* Operations are started.
LEMMA Starts ==
    ASSUME ClientInv, NEW c \in Calls, NEW k \in Kinds, NEW P, NEW T \in SUBSET Topics,
           ~Routed(k) => P = {}, Start(c, k, P, T)
    PROVE  Kept
<1> DEFINE x == [p \in TP |-> IF p \in P THEN "todo" ELSE "no"]
           rec == [NoCall EXCEPT !.kind = k, !.slot = x]
<1>1. /\ StackOK(AfterCaller, Now) /\ CallsOK(call, Now) /\ truths' = truths /\ HistoryOK
      /\ FetchOK(fetch, Now) /\ FlagsOK' /\ CachesOK' /\ Now \in Nat
    BY Caller, ResetsAgree, NowNat DEF Start, ClientInv, FlagsOK
<1>2. x \in [TP -> Codes] /\ (~Routed(k) => \A p \in TP : x[p] = "no")
    BY DEF Codes
<1> HIDE DEF x
<1>3. /\ rec \in Rec(Now) /\ rec.kind = k /\ rec.slot = x /\ rec.key = <<>>
      /\ [rec EXCEPT !.at = "route"] \in Rec(Now)
      /\ rec.at = "off" /\ [rec EXCEPT !.at = "route"].at = "route"
      /\ [rec EXCEPT !.at = "route"].kind = k
      /\ [rec EXCEPT !.at = "route"].slot = x
      /\ [rec EXCEPT !.at = "route"].key = <<>>
    <2>1. NoCall \in Rec(Now) /\ NoCall.key = <<>> /\ NoCall.at = "off"
        BY <1>1, Fresh DEF NoCall
    <2> QED
        BY <1>2, <2>1 DEF Rec
<1>4. RecOK(rec, Now) /\ RecOK([rec EXCEPT !.at = "route"], Now)
    BY <1>2, <1>3 DEF RecOK
<1>5. CASE Routed(k)
    <2>1. FrameOK(RouteFrame(c), Now)
        BY DEF RouteFrame, FrameOK
    <2>2. /\ call' = [call EXCEPT ![c] = [rec EXCEPT !.at = "route"]]
          /\ stack' = <<RouteFrame(c)>> \o AfterCaller /\ fetch' = fetch
        BY <1>5 DEF Start, Routed, ByLeader, x
    <2> HIDE DEF rec
    <2> QED
        BY <1>1, <1>4, <2>1, <2>2, Replace, Push DEF Kept
<1>6. CASE ~Routed(k)
    <2>1. /\ Lookup(c, rec) \/ (Load(c, rec, T) /\ fetch' = fetch)
          /\ stack' = AfterCaller
        BY <1>6 DEF Start, x
    <2> HIDE DEF rec
    <2> QED
        BY <1>1, <1>4, <2>1, Asks DEF Kept
<1> QED
    BY <1>5, <1>6

\* The payloads are routed, and the requests made.
LEMMA Routes == ASSUME ClientInv, RoutePayload \/ FanOut PROVE Kept
<1> DEFINE c == Head(stack).call
           rest == Tail(stack)
<1>1. /\ stack # <<>> /\ Head(stack).op = "route" /\ truths' = truths /\ UNCHANGED caches
      /\ closed' = closed /\ nested' = nested
    BY DEF RoutePayload, FanOut, Doing, Idle
<1>2. /\ StackOK(rest, Now) /\ CallsOK(call, Now) /\ CachesOK' /\ FlagsOK'
      /\ StackOK(stack, Now) /\ HistoryOK /\ FetchOK(fetch, Now) /\ Now \in Nat /\ Now # 0
    BY <1>1, Pop, ResetsAgree, NowNat DEF ClientInv, FlagsOK
<1>3. c \in Calls
    BY <1>1, Pop DEF ClientInv, FrameOK
<1> HIDE DEF c, rest
<1>4. RecOK(call[c], Now) /\ call[c] \in Rec(Now)
    BY <1>2, <1>3 DEF CallsOK, RecOK
<1>5. CASE (\E how \in {"unavailable", "closed"} : Fail(c, how, rest)) /\ UNCHANGED fetch
    BY <1>1, <1>2, <1>5, Ends DEF Kept
<1>6. CASE RoutePayload
    <2>1. PICK p \in {q \in TP : call[c].slot[q] = "todo"} :
             \/ /\ (IF ByLeader(call[c].kind) THEN routes[p] ELSE coordinator) \in Nodes
                /\ call' = [call EXCEPT ![c].slot[p] =
                               IF ByLeader(call[c].kind) THEN routes[p] ELSE coordinator]
                /\ UNCHANGED <<fetch, stack>>
             \/ Fail(c, "unavailable", rest) /\ UNCHANGED fetch
             \/ /\ Load(c, [call[c] EXCEPT !.key = p], {p[1]})
                /\ stack' = rest /\ UNCHANGED fetch
             \/ /\ Lookup(c, [call[c] EXCEPT !.key = p])
                /\ stack' = rest
        BY <1>6 DEF RoutePayload, c, rest
    <2>2. p \in TP /\ call[c].slot[p] = "todo" /\ Routed(call[c].kind) /\ {p[1]} \in SUBSET Topics
        BY <1>4 DEF RecOK, TP
    <2>3. ASSUME NEW to \in Nodes, call' = [call EXCEPT ![c].slot[p] = to], UNCHANGED <<fetch, stack>>
          PROVE  Kept
        <3> DEFINE new == [call[c] EXCEPT !.slot[p] = to]
        <3>1. to \in Codes
            BY DEF Codes
        <3>2. /\ new \in Rec(Now) /\ new.at = call[c].at
              /\ new.kind = call[c].kind /\ new.since = call[c].since
              /\ new.slot = [call[c].slot EXCEPT ![p] = to]
            BY <1>4, <3>1 DEF Rec
        <3>3. call[c].at # "flight"
            BY <1>4, <2>2 DEF RecOK
        <3>4. RecOK(new, Now)
            BY <1>4, <2>2, <3>2, <3>3 DEF RecOK
        <3>5. call' = [call EXCEPT ![c] = new]
            BY <2>3, <1>2 DEF CallsOK
        <3> HIDE DEF new
        <3>6. CallsOK(call', Now)
            BY <1>2, <3>4, <3>5, Replace
        <3> QED
            BY <1>1, <1>2, <2>3, <3>6 DEF Kept
    <2>4. ASSUME \/ Load(c, [call[c] EXCEPT !.key = p], {p[1]}) /\ UNCHANGED fetch
                 \/ Lookup(c, [call[c] EXCEPT !.key = p]),
                 stack' = rest
          PROVE  Kept
        <3> DEFINE new == [call[c] EXCEPT !.key = p]
        <3>1. /\ new \in Rec(Now) /\ new.at = call[c].at /\ new.since = call[c].since
              /\ new.kind = call[c].kind /\ new.slot = call[c].slot
            BY <1>4, <2>2 DEF Rec
        <3>2. RecOK(new, Now)
            BY <1>4, <2>2, <3>1 DEF RecOK
        <3>3. (Load(c, new, {p[1]}) /\ UNCHANGED fetch) \/ Lookup(c, new)
            BY <2>4
        <3> HIDE DEF new
        <3>4. CallsOK(call', Now) /\ FetchOK(fetch', Now)
            BY <1>2, <1>3, <2>2, <3>2, <3>3, Asks
        <3> QED
            BY <1>1, <1>2, <2>4, <3>4 DEF Kept
    <2> QED
        BY <1>5, <2>1, <2>3, <2>4
<1>7. CASE FanOut
    <2>1. \A p \in TP : call[c].slot[p] # "todo"
        BY <1>7 DEF FanOut, c
    <2>2. CASE call' = [call EXCEPT ![c].at = "flight", ![c].since = Now] /\ stack' = rest
               /\ UNCHANGED fetch
        <3> DEFINE new == [call[c] EXCEPT !.at = "flight", !.since = Now]
        <3>1. Now \in 0 .. Now
            BY <1>2
        <3>2. /\ new \in Rec(Now) /\ new.at = "flight" /\ new.since = Now
              /\ new.kind = call[c].kind /\ new.slot = call[c].slot /\ new.key = call[c].key
            BY <1>4, <3>1 DEF Rec
        <3>3. RecOK(new, Now)
            BY <1>4, <2>1, <3>2 DEF RecOK
        <3>4. call' = [call EXCEPT ![c] = new]
            BY <2>2, <1>2 DEF CallsOK
        <3> HIDE DEF new
        <3>5. CallsOK(call', Now)
            BY <1>2, <3>3, <3>4, Replace
        <3> QED
            BY <1>1, <1>2, <2>2, <3>5 DEF Kept
    <2> QED
        BY <1>5, <1>7, <2>2 DEF FanOut, c, rest
<1> QED
    BY <1>6, <1>7

\* A metadata response arrives and waits to be merged.
LEMMA Arrives == ASSUME ClientInv, NEW c \in Calls, LoadAnswered(c) PROVE Kept
<1>1. /\ stack = <<>> /\ call[c].at = "load" /\ truths' = truths /\ UNCHANGED caches
      /\ closed' = closed /\ nested' = nested /\ fetch' = fetch
    BY DEF LoadAnswered, Idle
<1>2. /\ StackOK(stack, Now) /\ CallsOK(call, Now) /\ CachesOK' /\ FlagsOK' /\ FetchOK(fetch', Now)
      /\ Now \in Nat
    BY <1>1, ResetsAgree, NowNat DEF ClientInv, FlagsOK
<1>3. RecOK(call[c], Now) /\ call[c] \in Rec(Now)
    BY <1>2 DEF CallsOK, RecOK
<1>4. CASE Fail(c, "error", stack)
    BY <1>1, <1>2, <1>4, Ends DEF Kept
<1>5. CASE ~UpdateRaises
    <2>1. PICK when \in call[c].since .. Now, bad \in SUBSET call[c].want,
               list \in [Topics -> 1 .. MaxParts], gone \in SUBSET Nodes :
             /\ gone # {} => call[c].want = Topics /\ call[c].kind = "load"
             /\ call' = [call EXCEPT ![c].at = "merging", ![c].via = "none"]
             /\ stack' = <<[op |-> "drain", left |-> Outstanding(gone)],
                           [op |-> "merge", call |-> c,
                            answer |-> [want |-> call[c].want, bad |-> bad,
                                        list |-> list, when |-> when]]>>
        BY <1>5 DEF LoadAnswered
    <2> DEFINE d == [op |-> "drain", left |-> Outstanding(gone)]
               a == [want |-> call[c].want, bad |-> bad, list |-> list, when |-> when]
               m == [op |-> "merge", call |-> c, answer |-> a]
               new == [call[c] EXCEPT !.at = "merging", !.via = "none"]
    <2>2. FrameOK(d, Now)
        BY DEF FrameOK
    <2>3. call[c].since \in 1 .. Now
        BY <1>1, <1>2, <1>3 DEF RecOK, Rec
    <2>4. Told(a, Now)
        BY <1>2, <2>1, <2>3 DEF Told
    <2>5. FrameOK(m, Now)
        <3> HIDE DEF a
        <3> QED
            BY <2>4 DEF FrameOK
    <2>6. /\ new \in Rec(Now) /\ new.at = "merging"
          /\ new.kind = call[c].kind /\ new.key = call[c].key /\ new.slot = call[c].slot
        BY <1>3 DEF Rec
    <2>7. RecOK(new, Now)
        BY <1>3, <2>6 DEF RecOK
    <2>8. call' = [call EXCEPT ![c] = new] /\ stack' = <<d, m>>
        BY <1>2, <2>1 DEF CallsOK
    <2> HIDE DEF d, m, a, new
    <2>9. StackOK(<<d, m>> \o stack, Now) /\ <<d, m>> \o stack = <<d, m>>
        <3>1. StackOK(<<d, m>> \o stack, Now)
            BY <1>2, <2>2, <2>5, PushTwo
        <3>2. <<d, m>> \in Seq({d, m})
            OBVIOUS
        <3> QED
            BY <1>1, <3>1, <3>2, ConcatEmptySeq
    <2>10. CallsOK(call', Now)
        BY <1>2, <2>7, <2>8, Replace
    <2> QED
        BY <1>1, <1>2, <2>8, <2>9, <2>10 DEF Kept
<1> QED
    BY <1>4, <1>5 DEF LoadAnswered

\* It is merged.
LEMMA Merges == ASSUME ClientInv, MergeAnswer PROVE Kept
<1> DEFINE a == Head(stack).answer
           c == Head(stack).call
<1>1. Told(a, Now) /\ c \in Calls /\ StackOK(Tail(stack), Now)
    BY Pop DEF ClientInv, MergeAnswer, Doing, Idle, FrameOK
<1>2. CachesOK'
    BY <1>1, MergeAgrees DEF ClientInv, MergeAnswer
<1>3. CallsOK(call', Now) /\ StackOK(stack', Now)
    BY <1>1, Continues, NowNat DEF ClientInv, MergeAnswer
<1> QED
    BY <1>2, <1>3 DEF Kept, MergeAnswer, ClientInv, FlagsOK

\* A load is sent to another broker, or fails.
LEMMA Retries ==
    ASSUME NEW n \in Nat, CallsOK(call, n), NEW c \in Calls, NEW rest, StackOK(rest, n),
           MoveOn(c, rest) \/ GiveUp(c, rest)
    PROVE  CallsOK(call', n) /\ StackOK(stack', n)
<1>1. RecOK(call[c], n) /\ call[c] \in Rec(n)
    BY DEF CallsOK, RecOK
<1>2. CASE MoveOn(c, rest)
    <2>1. PICK v \in Nodes \cup {"boot"} : call' = [call EXCEPT ![c].via = v] /\ stack' = rest
        BY <1>2 DEF MoveOn
    <2> DEFINE new == [call[c] EXCEPT !.via = v]
    <2>2. /\ new \in Rec(n) /\ new.at = call[c].at /\ new.since = call[c].since
          /\ new.kind = call[c].kind /\ new.key = call[c].key /\ new.slot = call[c].slot
        BY <1>1 DEF Rec
    <2>3. RecOK(new, n)
        BY <1>1, <2>2 DEF RecOK
    <2>4. call' = [call EXCEPT ![c] = new]
        BY <2>1 DEF CallsOK
    <2> HIDE DEF new
    <2>5. CallsOK(call', n)
        BY <2>3, <2>4, Replace
    <2> QED
        BY <2>1, <2>5
<1>3. CASE GiveUp(c, rest)
    BY <1>3, Ends DEF GiveUp
<1> QED
    BY <1>2, <1>3

\* The other events of loads.
LEMMA Loads ==
    ASSUME ClientInv, NEW c \in Calls, LoadMovesOn(c) \/ LoadFails(c) \/ LoadAgain(c)
    PROVE  Kept
<1>1. /\ truths' = truths /\ UNCHANGED caches /\ fetch' = fetch /\ closed' = closed /\ nested' = nested
    BY DEF LoadMovesOn, LoadFails, LoadAgain
<1>2. /\ StackOK(stack, Now) /\ CallsOK(call, Now) /\ CachesOK' /\ FlagsOK' /\ FetchOK(fetch, Now)
      /\ HistoryOK /\ Now \in Nat
    BY <1>1, ResetsAgree, NowNat DEF ClientInv, FlagsOK
<1>3. CASE LoadMovesOn(c) \/ LoadFails(c)
    BY <1>1, <1>2, <1>3, Retries DEF LoadMovesOn, LoadFails, Kept
<1>4. CASE LoadAgain(c)
    <2>1. RecOK(call[c], Now) /\ call[c].want \in SUBSET Topics
        BY <1>2 DEF CallsOK, RecOK, Rec
    <2>2. \/ Fail(c, "closed", stack)
          \/ Load(c, call[c], call[c].want) /\ stack' = stack
        BY <1>4 DEF LoadAgain
    <2> QED
        BY <1>1, <1>2, <2>1, <2>2, Asks, Ends DEF Kept
<1> QED
    BY <1>3, <1>4

\* A lookup is sent to another broker or fails.
LEMMA Unfound ==
    ASSUME NEW n \in Nat, CachesOK, FetchOK(fetch, n), NEW rest, StackOK(rest, n),
           LookupElsewhere(rest) \/ LookupFailed(rest)
    PROVE  CachesOK' /\ FetchOK(fetch', n) /\ StackOK(stack', n)
<1>1. CASE LookupElsewhere(rest)
    <2>1. PICK v \in Nodes \cup {"boot"} : fetch' = [fetch EXCEPT !.via = v]
        BY <1>1 DEF LookupElsewhere
    <2>2. fetch.via # "none"
        BY <1>1, NodesAreIds DEF LookupElsewhere
    <2>3. FetchOK(fetch', n)
        BY <2>1, <2>2 DEF FetchOK
    <2> QED
        BY <1>1, <2>3, ResetsAgree DEF LookupElsewhere
<1>2. CASE LookupFailed(rest)
    BY <1>2, ResetsAgree, Propagates DEF LookupFailed
<1> QED
    BY <1>1, <1>2

\* A lookup is answered or sent to another broker.
LEMMA Lookups == ASSUME ClientInv, LookupAnswered \/ LookupMovesOn PROVE Kept
<1>1. /\ StackOK(stack, Now) /\ CallsOK(call', Now) /\ CachesOK /\ truths' = truths /\ FlagsOK'
      /\ FetchOK(fetch, Now) /\ HistoryOK /\ Now \in Nat
    BY NowNat DEF LookupAnswered, LookupMovesOn, ClientInv, FlagsOK
<1>2. CASE LookupAnswered /\ LookupSucceeds
    <2>1. PICK when \in fetch.since .. Now : coordinator' = truths[when].coord
        BY <1>2 DEF LookupSucceeds
    <2>2. fetch.since \in 1 .. Now
        BY <1>1, <1>2 DEF FetchOK, LookupAnswered
    <2>3. truths[when] \in Cluster
        BY <1>1, <2>2 DEF HistoryOK, Now
    <2>4. coordinator' \in Nodes
        BY <2>1, <2>3 DEF Cluster
    <2>5. CachesOK'
        BY <1>1, <1>2, <2>4 DEF LookupSucceeds, CachesOK, CachesAgree
    <2> QED
        BY <1>1, <1>2, <2>5, Propagates DEF LookupSucceeds, Kept
<1>3. CASE LookupElsewhere(stack) \/ LookupFailed(stack)
    BY <1>1, <1>3, Unfound DEF Kept
<1> QED
    BY <1>2, <1>3 DEF LookupAnswered, LookupMovesOn

\* The waiters of a lookup are called.
LEMMA Waiters == ASSUME ClientInv, CallWaiter PROVE Kept
<1> DEFINE f == Head(stack)
           g == [f EXCEPT !.ds = Tail(@)]
           rest == <<g>> \o Tail(stack)
           c == Head(f.ds)
<1>1. /\ stack # <<>> /\ f.op = "propagate" /\ truths' = truths /\ UNCHANGED caches
      /\ fetch' = fetch /\ closed' = closed /\ nested' = nested
    BY DEF CallWaiter, Doing, Idle
<1>2. /\ StackOK(Tail(stack), Now) /\ CallsOK(call, Now) /\ CachesOK' /\ FlagsOK'
      /\ FetchOK(fetch', Now) /\ Now \in Nat
    BY <1>1, Pop, ResetsAgree, NowNat DEF ClientInv, FlagsOK
<1>3. "op" \in DOMAIN f /\ "ds" \in DOMAIN f /\ f.ds \in Seq(Calls)
    BY <1>1, Pop DEF ClientInv, FrameOK
<1>4. CASE f.ds = <<>>
    BY <1>1, <1>2, <1>4 DEF CallWaiter, Kept
<1>5. CASE f.ds # <<>>
    <2>1. c \in Calls /\ Tail(f.ds) \in Seq(Calls)
        BY <1>3, <1>5
    <2>2. DOMAIN g = DOMAIN f /\ g.op = "propagate" /\ g.ds = Tail(f.ds)
        BY <1>1, <1>3
    <2>3. FrameOK(g, Now)
        BY <1>3, <2>1, <2>2 DEF FrameOK
    <2>4. \/ call[c].kind = "lookup" /\ \E how \in {"ok", "unavailable"} : Finish(c, how, call[c].slot, rest)
          \/ \E to : GoOn(c, to, rest)
        BY <1>5 DEF CallWaiter
    <2> HIDE DEF g
    <2>5. StackOK(rest, Now)
        BY <1>2, <2>3, Push
    <2> HIDE DEF rest, c
    <2>6. RecOK(call[c], Now)
        BY <1>2, <2>1 DEF CallsOK
    <2>7. call[c].kind = "lookup" =>
             \A how \in {"ok", "unavailable"} : Accounted(call[c].kind, how, call[c].slot)
        BY <2>6 DEF RecOK, Accounted, Routed, ByLeader
    <2> QED
        BY <1>1, <1>2, <2>1, <2>4, <2>5, <2>7, Ends, Continues DEF Kept
<1> QED
    BY <1>4, <1>5

\* A broker answers a request, or does not in time.
LEMMA Answers ==
    ASSUME ClientInv, NEW c \in Calls, NEW b \in Nodes, RequestAnswered(c, b) \/ RequestFails(c, b)
    PROVE  Kept
<1>1. /\ truths' = truths /\ fetch' = fetch /\ closed' = closed /\ nested' = nested
      /\ call[c].at = "flight"
    BY DEF RequestAnswered, RequestFails, InFlight
<1>2. RecOK(call[c], Now) /\ call[c].slot \in [TP -> Codes]
    BY DEF ClientInv, CallsOK, RecOK, Rec
<1>3. PICK slot : /\ Collect(c, slot, stack)
                  /\ slot \in [TP -> Codes]
                  /\ \A p \in TP : slot[p] \in {"ok", "moved", "refused", "failed"}
                                   \/ slot[p] = call[c].slot[p]
                  /\ \A p \in TP : call[c].slot[p] # b => slot[p] = call[c].slot[p]
    <2>1. CASE RequestAnswered(c, b)
        <3>1. PICK when \in call[c].since .. Now, refuse \in SUBSET Payloads(c) :
                 Collect(c, Verdict(c, b, when, refuse), stack)
            BY <2>1 DEF RequestAnswered
        <3> QED
            BY <1>2, <3>1 DEF Verdict, Codes
    <2>2. CASE RequestFails(c, b)
        BY <1>2, <2>2 DEF RequestFails, Lost, Codes
    <2> QED
        BY <2>1, <2>2
<1>4. /\ \A p \in TP : slot[p] # "todo"
      /\ \A p \in TP : call[c].slot[p] = "no" => slot[p] = "no"
    BY <1>1, <1>2, <1>3, NodesAreIds DEF RecOK
<1>5. CachesOK' /\ CallsOK(call', Now) /\ StackOK(stack', Now)
    BY <1>1, <1>3, <1>4, Collects, NowNat DEF ClientInv
<1> QED
    BY <1>1, <1>5 DEF ClientInv, FlagsOK, Kept

\* A caller cancels.
LEMMA Cancels == ASSUME ClientInv, NEW c \in Calls, Cancel(c) PROVE Kept
<1> DEFINE r == AfterCaller
           lost == [p \in TP |-> IF call[c].slot[p] \in Nodes THEN "failed" ELSE call[c].slot[p]]
<1>1. /\ StackOK(r, Now) /\ CallsOK(call, Now) /\ CachesOK /\ FetchOK(fetch, Now) /\ Now \in Nat
      /\ truths' = truths /\ FlagsOK'
    BY Caller, NowNat DEF Cancel, ClientInv, FlagsOK
<1>2. StackOK(WithoutWaiter(c, r), Now)
    BY <1>1, Forget
<1>3. RecOK(call[c], Now) /\ call[c].slot \in [TP -> Codes]
    BY <1>1 DEF CallsOK, RecOK, Rec
<1>4. /\ lost \in [TP -> Codes]
      /\ \A p \in TP : call[c].slot[p] = "no" => lost[p] = "no"
      /\ call[c].at = "flight" => \A p \in TP : lost[p] # "todo"
    BY <1>3, NodesAreIds DEF Codes, RecOK
<1>5. CASE UNCHANGED <<caches, fetch>>
           /\ (Loaded(c, r) \/ \E how \in {"cancelled", "unavailable"} : Fail(c, how, r))
    <2>1. CachesOK'
        BY <1>1, <1>5, ResetsAgree
    <2> HIDE DEF r
    <2>2. CallsOK(call', Now) /\ StackOK(stack', Now)
        BY <1>1, <1>5, Continues, Ends
    <2> QED
        BY <1>1, <1>5, <2>1, <2>2 DEF Kept
<1>6. CASE UNCHANGED <<caches, fetch>> /\ UNCHANGED call /\ stack' = r
    BY <1>1, <1>6, ResetsAgree DEF Kept
<1>7. CASE /\ UNCHANGED caches /\ fetch' = [fetch EXCEPT !.waiters = Without(c, @)]
           /\ Fail(c, "cancelled", WithoutWaiter(c, r))
    <2>1. Without(c, fetch.waiters) \in Seq(Calls)
        BY <1>1, WithoutType DEF FetchOK
    <2>2. FetchOK(fetch', Now)
        BY <1>1, <1>7, <2>1 DEF FetchOK
    <2>3. CachesOK'
        BY <1>1, <1>7, ResetsAgree
    <2> HIDE DEF r
    <2>4. CallsOK(call', Now) /\ StackOK(stack', Now)
        BY <1>1, <1>2, <1>7, Ends
    <2> QED
        BY <1>1, <2>2, <2>3, <2>4 DEF Kept
<1>8. CASE call[c].at = "flight" /\ UNCHANGED fetch /\ Collect(c, lost, r)
    <2> HIDE DEF lost, r
    <2>1. CachesOK' /\ CallsOK(call', Now) /\ StackOK(stack', Now)
        BY <1>1, <1>4, <1>8, Collects
    <2> QED
        BY <1>1, <1>8, <2>1 DEF Kept
<1> QED
    BY <1>5, <1>6, <1>7, <1>8 DEF Cancel, CancelLoad

\* Callers reset caches, close the client or return; close() clears the caches.
LEMMA Callers == ASSUME ClientInv, Reset \/ Close \/ ClearCaches \/ Return PROVE Kept
<1>1. /\ StackOK(stack, Now) /\ CallsOK(call', Now) /\ CachesOK /\ truths' = truths
      /\ FetchOK(fetch', Now)
    BY DEF Reset, Close, ClearCaches, Return, ClientInv
<1>2. FlagsOK'
    BY DEF Reset, Close, ClearCaches, Return, ClientInv, FlagsOK
<1>3. CASE Reset
    <2>1. CachesOK'
        BY <1>1, <1>3, ResetsAgree DEF Reset
    <2> QED
        BY <1>1, <1>2, <1>3, <2>1, Caller DEF Reset, Kept
<1>4. CASE Close
    <2> DEFINE d == [op |-> "drain", left |-> Outstanding(Nodes)]
               e == [op |-> "reset"]
    <2>1. FrameOK(d, Now) /\ FrameOK(e, Now)
        BY DEF FrameOK
    <2>2. StackOK(AfterCaller, Now)
        BY <1>4, Caller DEF Close
    <2>3. stack' = <<d, e>> \o AfterCaller
        BY <1>4 DEF Close, CloseFrames
    <2> HIDE DEF d, e
    <2>4. StackOK(stack', Now)
        BY <2>1, <2>2, <2>3, PushTwo
    <2> QED
        BY <1>1, <1>2, <1>4, <2>4, ResetsAgree DEF Close, Kept
<1>5. CASE ClearCaches \/ Return
    <2>1. StackOK(stack', Now)
        BY <1>1, <1>5, Pop DEF ClearCaches, Return, Doing, Idle
    <2> QED
        BY <1>1, <1>2, <1>5, <2>1, ResetsAgree DEF ClearCaches, Return, Kept
<1> QED
    BY <1>3, <1>4, <1>5

\* The requests of a closed broker client fail.
LEMMA Drains == ASSUME ClientInv, Drain PROVE Kept
<1> DEFINE f == Head(stack)
           g(x) == [f EXCEPT !.left = @ \ {x}]
           rest(x) == <<g(x)>> \o Tail(stack)
<1>1. /\ stack # <<>> /\ f.op = "drain" /\ truths' = truths
      /\ closed' = closed /\ nested' = nested
    BY DEF Drain, Doing, Idle
<1>2. /\ StackOK(Tail(stack), Now) /\ CallsOK(call, Now) /\ CachesOK /\ FlagsOK'
      /\ FetchOK(fetch, Now) /\ Now \in Nat /\ "op" \in DOMAIN f
    BY <1>1, Pop, NowNat DEF ClientInv, FlagsOK, FrameOK
<1>3. \A x : FrameOK(g(x), Now)
    <2> TAKE x
    <2>1. "op" \in DOMAIN g(x) /\ g(x).op = "drain"
        BY <1>1, <1>2
    <2> QED
        BY <2>1 DEF FrameOK
<1> HIDE DEF g
<1>4. \A x : StackOK(rest(x), Now)
    BY <1>2, <1>3, Push
<1> HIDE DEF rest
<1>5. CASE stack' = Tail(stack) /\ UNCHANGED <<caches, fetch, call>>
    BY <1>1, <1>2, <1>5, ResetsAgree DEF Kept
<1>6. ASSUME NEW x, stack' = rest(x), UNCHANGED <<caches, fetch, call>> PROVE Kept
    BY <1>1, <1>2, <1>4, <1>6, ResetsAgree DEF Kept
<1>7. ASSUME NEW x, LookupElsewhere(rest(x)) \/ LookupFailed(rest(x)), UNCHANGED call PROVE Kept
    BY <1>1, <1>2, <1>4, <1>7, Unfound DEF Kept
<1>8. \A x \in Outstanding(Nodes) :
         x[1] # "lookup" =>
            /\ x[1] \in Calls /\ x[2] \in Nodes
            /\ call[x[1]].at # "load" => call[x[1]].at = "flight"
    BY DEF Outstanding
<1>9. ASSUME NEW x \in Outstanding(Nodes), x[1] # "lookup",
             MoveOn(x[1], rest(x)) \/ GiveUp(x[1], rest(x)), UNCHANGED <<caches, fetch>>
      PROVE  Kept
    <2>1. CallsOK(call', Now) /\ StackOK(stack', Now)
        BY <1>2, <1>4, <1>8, <1>9, Retries
    <2> QED
        BY <1>1, <1>2, <1>9, <2>1, ResetsAgree DEF Kept
<1>10. ASSUME NEW x \in Outstanding(Nodes), x[1] # "lookup", call[x[1]].at # "load",
              Collect(x[1], Lost(x[1], x[2]), rest(x)), UNCHANGED fetch
       PROVE  Kept
    <2> DEFINE c == x[1]
               lost == Lost(c, x[2])
    <2>1. c \in Calls /\ x[2] \in Nodes /\ call[c].at = "flight"
        BY <1>8, <1>10
    <2>2. RecOK(call[c], Now) /\ call[c].slot \in [TP -> Codes]
        BY <1>2, <2>1 DEF CallsOK, RecOK, Rec
    <2>3. /\ lost \in [TP -> Codes]
          /\ \A p \in TP : call[c].slot[p] = "no" => lost[p] = "no"
          /\ \A p \in TP : lost[p] # "todo"
        BY <2>1, <2>2, NodesAreIds DEF Codes, RecOK, Lost
    <2>4. Collect(c, lost, rest(x))
        BY <1>10
    <2> HIDE DEF lost, c
    <2>5. CachesOK' /\ CallsOK(call', Now) /\ StackOK(stack', Now)
        BY <1>2, <1>4, <2>1, <2>3, <2>4, Collects
    <2> QED
        BY <1>1, <1>2, <1>10, <2>5 DEF Kept
<1> QED
    BY <1>5, <1>6, <1>7, <1>9, <1>10 DEF Drain, rest, g

\* The cluster changes between events, when no response waits to be merged.
LEMMA Moves == ASSUME ClientInv, Move PROVE ClientInv'
<1>1. PICK h \in Cluster : truths' = Append(truths, h)
    <2>1. truths[Now] \in Cluster
        BY DEF ClientInv, HistoryOK, Now
    <2>2. \A p \in TP, b \in Leader : [truths[Now] EXCEPT !.leader[p] = b] \in Cluster
        BY <2>1 DEF Cluster
    <2>3. \A b \in Nodes : [truths[Now] EXCEPT !.coord = b] \in Cluster
        BY <2>1 DEF Cluster
    <2> QED
        BY <2>2, <2>3 DEF Move
<1>2. HistoryOK' /\ Now \in Nat /\ Now' = Now + 1
    BY <1>1 DEF ClientInv, HistoryOK, Now
<1>3. CachesOK' /\ FlagsOK'
    BY ResetsAgree DEF ClientInv, Move, FlagsOK
<1>4. StackOK(stack', Now')
    BY DEF Move, Idle, ClientInv, StackOK
<1>5. 0 .. Now \subseteq 0 .. Now'
    BY <1>2
<1>6. FetchOK(fetch', Now')
    BY <1>5 DEF Move, ClientInv, FetchOK
<1>7. \A c \in Calls : call[c] \in Rec(Now') /\ RecOK(call[c], Now')
    <2> TAKE c \in Calls
    <2>1. RecOK(call[c], Now) /\ call[c] \in Rec(Now)
        BY DEF ClientInv, CallsOK, RecOK
    <2>2. call[c] \in Rec(Now')
        BY <1>5, <2>1 DEF Rec
    <2> QED
        BY <2>1, <2>2 DEF RecOK
<1>8. CallsOK(call', Now')
    <2>1. call \in [Calls -> Rec(Now')] /\ call' = call
        BY <1>7 DEF Move, ClientInv, CallsOK
    <2> QED
        BY <1>7, <2>1 DEF CallsOK
<1> QED
    BY <1>2, <1>3, <1>4, <1>6, <1>8 DEF ClientInv

-----------------------------------------------------------------------------

\* At first nothing is cached and nobody waits.
LEMMA ClientInit == Init => ClientInv
<1> SUFFICES ASSUME Init PROVE ClientInv
    OBVIOUS
<1>1. HistoryOK
    <2>1. PICK f \in [TP -> Nodes], b \in Nodes : truths = <<[leader |-> f, coord |-> b]>>
        BY DEF Init
    <2>2. [leader |-> f, coord |-> b] \in Cluster
        BY DEF Cluster, Leader
    <2> QED
        BY <2>1, <2>2 DEF HistoryOK
<1>2. CachesOK /\ FlagsOK
    BY DEF Init, CachesAgree, TP, CachesOK, FlagsOK
<1>3. StackOK(stack, Now)
    <2>1. stack \in Seq({}) /\ DOMAIN stack = {}
        BY DEF Init
    <2> QED
        BY <2>1 DEF StackOK
<1>4. Now \in Nat
    BY <1>1, NowNat
<1>5. CallsOK(call, Now)
    <2>1. RecOK(NoCall, Now) /\ NoCall \in Rec(Now)
        BY <1>4, Fresh
    <2> QED
        BY <2>1 DEF Init, CallsOK
<1>6. FetchOK(fetch, Now)
    <2>1. <<>> \in Seq(Calls)
        OBVIOUS
    <2> QED
        BY <1>4, <2>1 DEF Init, FetchOK, NoFetch
<1> QED
    BY <1>1, <1>2, <1>3, <1>5, <1>6 DEF ClientInv

\* Every step keeps the invariant.
LEMMA ClientStep == ClientInv /\ [Next]_vars => ClientInv'
<1> SUFFICES ASSUME ClientInv, [Next]_vars PROVE ClientInv'
    OBVIOUS
<1>1. ASSUME Kept PROVE ClientInv'
    <2>1. HistoryOK' /\ Now' = Now
        BY <1>1 DEF Kept, ClientInv, HistoryOK, Now
    <2> QED
        BY <1>1, <2>1 DEF Kept, ClientInv
<1>2. CASE Move
    BY <1>2, Moves
<1>3. CASE UNCHANGED vars
    BY <1>1, <1>3, ResetsAgree DEF vars, Kept, ClientInv, FlagsOK
<1>4. CASE \E c \in Calls, k \in Kinds : \E in \in Inputs(k) : Start(c, k, in[1], in[2])
    <2>1. PICK c \in Calls, k \in Kinds : \E in \in Inputs(k) : Start(c, k, in[1], in[2])
        BY <1>4
    <2>2. PICK in \in Inputs(k) : Start(c, k, in[1], in[2])
        BY <2>1
    <2>3. in[2] \in SUBSET Topics /\ (~Routed(k) => in[1] = {})
        BY KindsKnown DEF AllKinds, Inputs, Routed, ByLeader
    <2> QED
        BY <1>1, <2>2, <2>3, Starts
<1>5. CASE \E c \in Calls : LoadAnswered(c) \/ LoadMovesOn(c) \/ LoadFails(c)
                            \/ LoadAgain(c) \/ Cancel(c)
    BY <1>1, <1>5, Arrives, Loads, Cancels
<1>6. CASE \E c \in Calls, b \in Nodes : RequestAnswered(c, b) \/ RequestFails(c, b)
    BY <1>1, <1>6, Answers
<1>7. CASE LookupAnswered \/ LookupMovesOn
    BY <1>1, <1>7, Lookups
<1>8. CASE Reset \/ Close \/ Handlers
    BY <1>1, <1>8, Routes, Merges, Waiters, Callers, Drains DEF Handlers
<1> QED
    BY <1>2, <1>3, <1>4, <1>5, <1>6, <1>7, <1>8 DEF Next

\* topics_to_brokers, topic_partitions and topic_errors agree in every reachable state,
\* whatever order responses, resets, failures and close() come in and whatever runs
\* between the arrival of a response and its merge.
THEOREM CachesAlwaysAgree == Spec => []CachesAgree
<1>1. ClientInv => CachesAgree
    BY DEF ClientInv, CachesOK
<1> QED
    BY <1>1, ClientInit, ClientStep, PTL DEF Spec

\* A caller of send_produce_request(), send_fetch_request() and the like hears of every
\* payload it gave, and of FailedPayloadsError exactly when one failed, however the
\* payloads were spread over brokers and in whatever order those answered, failed, were
\* closed or the call was cancelled.
THEOREM PayloadsAlwaysAccounted == Spec => []PayloadsAccounted
<1>1. ASSUME ClientInv PROVE PayloadsAccounted
    <2>1. TypeOK
        <3>1. fetch.via \in Nodes \cup {"boot", "none"} /\ fetch.since \in 0 .. Now
            BY <1>1 DEF ClientInv, FetchOK
        <3>2. call \in [Calls -> Rec(Now)]
            BY <1>1 DEF ClientInv, CallsOK
        <3> QED
            BY <1>1, <3>1, <3>2 DEF TypeOK, Rec, ClientInv, CachesOK, FlagsOK
    <2>2. Doing("caller") => Accounted(Head(stack).kind, Head(stack).how, Head(stack).slot)
        BY <1>1, Pop DEF ClientInv, Doing, Idle, FrameOK
    <2> QED
        BY <2>1, <2>2 DEF PayloadsAccounted, Accounted
<1> QED
    BY <1>1, ClientInit, ClientStep, PTL DEF Spec
=============================================================================
