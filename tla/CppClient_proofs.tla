--------------------------- MODULE CppClient_proofs ---------------------------
(***************************************************************************)
(* Theorems about module CppClient.                                        *)
(***************************************************************************)
EXTENDS CppClient, Subscriptions_proofs

\* Every step is one of Subscriptions, or leaves its variables alone.
LEMMA NextSubscriptions == [Next]_vars => [SubscriptionStep]_subscriptions
<1>1. ASSUME NEW n \in Name, NEW cb \in Callback, track(n, cb) \/ untrack_callback(n, cb)
      PROVE  SubscriptionStep
  BY <1>1 DEF track, untrack_callback, SubscriptionStep
<1>2. ASSUME NEW n \in Name, untrack(n) PROVE SubscriptionStep
  BY <1>2 DEF untrack, SubscriptionStep
<1>3. ASSUME Handle PROVE SubscriptionStep
  BY <1>3 DEF Handle, SubscriptionStep
<1>4. ASSUME NEW n \in Name, NEW cb \in Callback, untrack_crashes(n, cb)
      PROVE  UNCHANGED subscriptions
  BY <1>4 DEF untrack_crashes
<1>5. ASSUME NEW c \in Counter, Greet(c) PROVE UNCHANGED subscriptions
  BY <1>5 DEF Greet
<1>6. ASSUME stop \/ fetch \/ start_thread \/ run \/ run_loop PROVE UNCHANGED subscriptions
  BY <1>6 DEF stop, fetch, start_thread, run, run_loop
<1>7. ASSUME receive \/ find_listeners \/ call_next \/ called_all \/ processed_all
      PROVE  UNCHANGED subscriptions
  BY <1>7 DEF receive, find_listeners, call_next, called_all, processed_all
<1>8. ASSUME set_namespace PROVE SubscriptionStep
  BY <1>8 DEF set_namespace, SubscriptionStep
<1>9. ASSUME Next PROVE SubscriptionStep \/ UNCHANGED subscriptions
  <2>1. ASSUME NEW n \in Name,
               \/ untrack(n) \/ Notify(n)
               \/ \E cb \in Callback : track(n, cb) \/ untrack_callback(n, cb) \/ untrack_crashes(n, cb)
        PROVE  SubscriptionStep \/ UNCHANGED subscriptions
    <3>1. ASSUME Notify(n) PROVE UNCHANGED subscriptions
      BY <3>1 DEF Notify
    <3> QED BY <1>1, <1>2, <1>4, <2>1, <3>1
  <2> QED BY <1>3, <1>5, <1>6, <1>7, <1>8, <1>9, <2>1 DEF Next
<1> QED BY <1>9 DEF vars

\* Once it has handled what is on its way, the server tracks exactly the names
\* that have listeners in the program; for any number of names, callbacks and
\* packets on their way.
THEOREM CppSubscriptions == Spec => []SubscriptionsAgree
<1>1. Init => SubscriptionsInv
  BY SubscriptionsInit DEF Init
<1>2. SubscriptionsInv /\ [Next]_vars => SubscriptionsInv'
  BY NextSubscriptions, SubscriptionsNext
<1>3. SubscriptionsInv => SubscriptionsAgree
  BY SubscriptionsAgreeIsAgrees DEF SubscriptionsInv
<1> QED BY <1>1, <1>2, <1>3, PTL DEF Spec

-----------------------------------------------------------------------------
(***************************************************************************)
(* The variables' types.                                                   *)
(***************************************************************************)
Phases == {"program", "starting", "loop", "recv", "process", "call", "returned", "crashed"}

\* What TypeOK adds to SubscriptionsTypeOK.
ProgramTypeOK ==
  /\ phase \in Phases
  /\ caller \in {"fetch", "run"}
  /\ arrived \in Seq(Name)
  /\ name \in Name \cup {NoName}
  /\ copied \in Seq(Callback) /\ called \in Seq(Callback)
  /\ owed \subseteq Counter
  /\ notices \in Seq(Name)
  /\ told \subseteq Counter
  /\ stopping \in {"no", "before_run", "in_recv", "in_run"}
  /\ receives \in 0..2

Inv == SubscriptionsInv /\ ProgramTypeOK /\ running \in BOOLEAN /\ placed \in BOOLEAN

LEMMA InvIsTypeOK == Inv => TypeOK
BY SubscriptionsInvImplies DEF Inv, ProgramTypeOK, Phases, TypeOK

\* A packet of a queue that recv takes apart.
LEMMA SplitType ==
  ASSUME NEW s \in Seq(Name), NEW n \in 1..Len(s)
  PROVE  SubSeq(s, 1, n) \in Seq(Name) /\ SubSeq(s, n + 1, Len(s)) \in Seq(Name)
OBVIOUS

\* Every step keeps the program's part.
LEMMA ProgramTypes ==
  ASSUME Inv, [Next]_vars
  PROVE  ProgramTypeOK'
<1> USE DEF ProgramTypeOK, Phases
<1>1. ASSUME NEW n \in Name, NEW cb \in Callback,
             track(n, cb) \/ untrack_callback(n, cb) \/ untrack_crashes(n, cb)
      PROVE  ProgramTypeOK'
  BY <1>1 DEF Inv, track, untrack_callback, untrack_crashes, receiving, answering, history
<1>2. ASSUME NEW n \in Name, untrack(n) PROVE ProgramTypeOK'
  BY <1>2 DEF Inv, untrack, receiving, answering, history
<1>11. CASE set_namespace
  BY <1>11 DEF Inv, set_namespace, receiving, answering
<1>3. ASSUME NEW n \in Name, Notify(n) PROVE ProgramTypeOK'
  BY <1>3 DEF Inv, Notify, receiving, answering, history
<1>4. ASSUME stop \/ fetch \/ start_thread \/ run \/ run_loop PROVE ProgramTypeOK'
  BY <1>4 DEF Inv, stop, fetch, start_thread, run, run_loop, answering, history
<1>5. CASE receive
  <2>1. PICK n \in 1..Len(notices) :
          arrived' = SubSeq(notices, 1, n) /\ notices' = SubSeq(notices, n + 1, Len(notices))
    BY <1>5 DEF receive
  <2>2. arrived' \in Seq(Name) /\ notices' \in Seq(Name)
    BY <2>1, SplitType DEF Inv
  <2>3. receives' \in 0..2
    BY <1>5 DEF Inv, receive
  <2> QED BY <1>5, <2>2, <2>3 DEF Inv, receive
<1>6. CASE find_listeners
  <2>1. arrived' \in Seq(Name) /\ Head(arrived) \in Name
    BY <1>6 DEF Inv, find_listeners
  <2>2. \A n \in Keys : listeners[n] \in Seq(Callback)
    BY DEF Inv, SubscriptionsInv, Callbacks
  <2>3. called' \in Seq(Callback) /\ told' \subseteq Counter
    BY <1>6 DEF Inv, find_listeners
  <2> QED BY <1>6, <2>1, <2>2, <2>3 DEF Inv, find_listeners, answering
<1>7. CASE call_next
  <2>1. Len(called) + 1 \in 1..Len(copied)
    BY <1>7 DEF Inv, call_next, Listed
  <2>2. copied[Len(called) + 1] \in Callback
    BY <2>1 DEF Inv
  <2>3. \A s \in Seq(Callback) : Append(s, copied[Len(called) + 1]) \in Seq(Callback)
    BY <2>2
  <2>4. called' \in Seq(Callback)
    BY <1>7, <2>3 DEF Inv, call_next, Listed
  <2> QED BY <1>7, <2>4 DEF Inv, call_next, answering, history
<1>8. ASSUME called_all \/ processed_all PROVE ProgramTypeOK'
  BY <1>8 DEF Inv, called_all, processed_all, answering, history
<1>9. CASE Handle
  <2>1. owed' \subseteq Counter
    BY <1>9 DEF Handle, Greeted
  <2> QED BY <1>9, <2>1 DEF Inv, Handle, receiving, history
<1>12. ASSUME NEW c \in Counter, Greet(c) PROVE ProgramTypeOK'
  <2>1. \A t \in Seq(Name) : Append(t, c) \in Seq(Name)
    BY DEF Name
  <2>2. notices' \in Seq(Name) /\ owed' \subseteq Counter
    BY <1>12, <2>1 DEF Inv, Greet
  <2> QED BY <1>12, <2>2 DEF Inv, Greet, receiving, history
<1>10. CASE UNCHANGED vars
  BY <1>10 DEF Inv, vars, receiving, answering, history
<1> QED
  BY <1>1, <1>2, <1>3, <1>4, <1>5, <1>6, <1>7, <1>8, <1>9, <1>10, <1>11, <1>12 DEF Next

LEMMA InvInit == Init => Inv
<1>1. Init => running \in BOOLEAN /\ placed \in BOOLEAN
  BY DEF Init
<1>2. Init => ProgramTypeOK
  <2>1. <<>> \in Seq(Name) /\ <<>> \in Seq(Callback)
    OBVIOUS
  <2> QED BY <2>1 DEF Init, ProgramTypeOK, Phases
<1> QED BY <1>1, <1>2, SubscriptionsInit DEF Init, Inv

\* running is set and cleared by run and stop only.
LEMMA RunningNext ==
  ASSUME running \in BOOLEAN, [Next]_vars
  PROVE  running' \in BOOLEAN
<1>1. ASSUME stop \/ run PROVE running' \in BOOLEAN
  BY <1>1 DEF stop, run
<1>2. ASSUME NEW n \in Name, NEW cb \in Callback,
             track(n, cb) \/ untrack_callback(n, cb) \/ untrack_crashes(n, cb)
      PROVE  running' = running
  BY <1>2 DEF track, untrack_callback, untrack_crashes, receiving
<1>3. ASSUME NEW n \in Name, untrack(n) \/ Notify(n) PROVE running' = running
  BY <1>3 DEF untrack, Notify, receiving
<1>4. ASSUME fetch \/ start_thread \/ run_loop \/ receive \/ find_listeners
      PROVE  running' = running
  BY <1>4 DEF fetch, start_thread, run_loop, receive, find_listeners
<1>5. ASSUME call_next \/ called_all \/ processed_all \/ Handle \/ UNCHANGED vars
      PROVE  running' = running
  BY <1>5 DEF call_next, called_all, processed_all, Handle, vars, receiving
<1>6. ASSUME set_namespace \/ \E c \in Counter : Greet(c)
      PROVE  running' = running
  BY <1>6 DEF set_namespace, Greet, receiving
<1> QED BY <1>1, <1>2, <1>3, <1>4, <1>5, <1>6 DEF Next

LEMMA InvNext == Inv /\ [Next]_vars => Inv'
BY NextSubscriptions, SubscriptionsNext, PlacedNext, ProgramTypes, RunningNext DEF Inv

\* Every variable keeps its type, and a key of the map a callback, though callbacks
\* remove themselves and each other while they are called.
THEOREM CppTypeCorrect == Spec => []TypeOK
BY InvInit, InvNext, InvIsTypeOK, PTL DEF Spec

-----------------------------------------------------------------------------
(***************************************************************************)
(* Each callback is called once.                                           *)
(***************************************************************************)
\* What was called is a part of the copy, and all of it once the loop is left.
CallsInv ==
  /\ Len(called) <= Len(copied)
  /\ phase \in {"call", "crashed"} => called = SubSeq(copied, 1, Len(called))
  /\ phase \notin {"call", "crashed"} /\ called # <<>> => called = copied

LEMMA SubSeqNone ==
  ASSUME NEW s \in Seq(Callback)
  PROVE  SubSeq(s, 1, 0) = <<>>
OBVIOUS

LEMMA SubSeqNext ==
  ASSUME NEW s \in Seq(Callback), NEW t \in Seq(Callback), Len(t) < Len(s),
         t = SubSeq(s, 1, Len(t))
  PROVE  Append(t, s[Len(t) + 1]) = SubSeq(s, 1, Len(t) + 1)
<1> DEFINE n == Len(t)
<1>1. n \in Nat /\ n + 1 <= Len(s)
  OBVIOUS
<1>2. \A i \in 1..n : t[i] = s[i]
  OBVIOUS
<1>3. s[n + 1] \in Callback
  BY <1>1
<1>4. Append(t, s[n + 1]) = [i \in 1..n + 1 |-> IF i = n + 1 THEN s[n + 1] ELSE t[i]]
  BY <1>3
<1>5. SubSeq(s, 1, n + 1) = [i \in 1..n + 1 |-> s[i]]
  BY <1>1
<1> QED BY <1>1, <1>2, <1>4, <1>5

LEMMA CallsInit == Init => CallsInv
BY DEF Init, CallsInv

LEMMA CallsNext ==
  ASSUME Inv, CallsInv, [Next]_vars
  PROVE  CallsInv'
<1>1. ASSUME UNCHANGED <<copied, called, phase>> PROVE CallsInv'
  BY <1>1 DEF CallsInv
<1>2. ASSUME NEW n \in Name, NEW cb \in Callback, track(n, cb) \/ untrack_callback(n, cb)
      PROVE  CallsInv'
  BY <1>1, <1>2 DEF track, untrack_callback, receiving
<1>3. ASSUME NEW n \in Name, untrack(n) \/ Notify(n) PROVE CallsInv'
  BY <1>1, <1>3 DEF untrack, Notify, receiving
<1>4. ASSUME stop \/ set_namespace \/ Handle \/ UNCHANGED vars \/ \E c \in Counter : Greet(c)
      PROVE  CallsInv'
  BY <1>1, <1>4 DEF stop, set_namespace, Handle, Greet, vars, receiving
<1>5. ASSUME NEW n \in Name, NEW cb \in Callback, untrack_crashes(n, cb) PROVE CallsInv'
  <2>1. copied \in Seq(Callback) /\ called \in Seq(Callback)
    BY DEF Inv, ProgramTypeOK
  <2>2. copied = SubSeq(copied, 1, Len(copied)) /\ SubSeq(copied, 1, 0) = <<>>
    BY <2>1
  <2>3. phase' = "crashed" /\ UNCHANGED <<copied, called>> /\ phase \in {"program", "call"}
    BY <1>5 DEF untrack_crashes, MayCall
  <2>4. called = SubSeq(copied, 1, Len(called))
    <3>1. CASE phase = "call"
      BY <3>1 DEF CallsInv
    <3>2. CASE phase = "program" /\ called # <<>>
      BY <2>2, <3>2 DEF CallsInv
    <3>3. CASE called = <<>>
      BY <2>2, <3>3
    <3> QED BY <2>3, <3>1, <3>2, <3>3
  <2> QED BY <2>3, <2>4 DEF CallsInv
<1>6. ASSUME fetch \/ start_thread \/ run \/ run_loop \/ receive \/ processed_all
      PROVE  CallsInv'
  <2>1. UNCHANGED <<copied, called>> /\ phase \notin {"call", "crashed"}
        /\ phase' \notin {"call", "crashed"}
    BY <1>6 DEF fetch, start_thread, run, run_loop, receive, processed_all
  <2> QED BY <2>1 DEF CallsInv
<1>7. CASE find_listeners
  <2>1. copied' \in Seq(Callback) /\ called' = <<>>
    BY <1>7, ProgramTypes DEF find_listeners, ProgramTypeOK
  <2>2. Len(called') = 0 /\ Len(copied') \in Nat /\ SubSeq(copied', 1, 0) = <<>>
    BY <2>1
  <2> QED BY <2>1, <2>2 DEF CallsInv
<1>8. CASE call_next
  <2>1. /\ copied \in Seq(Callback) /\ called \in Seq(Callback)
        /\ Len(called) < Len(copied) /\ phase = "call" /\ phase' = "call" /\ copied' = copied
        /\ called' = Append(called, copied[Len(called) + 1])
    BY <1>8 DEF Inv, ProgramTypeOK, call_next, Listed
  <2>2. called' = SubSeq(copied, 1, Len(called) + 1)
    BY <2>1, SubSeqNext DEF CallsInv
  <2>3. Len(called') = Len(called) + 1 /\ Len(called) \in Nat /\ Len(copied) \in Nat
    BY <2>1
  <2> QED BY <2>1, <2>2, <2>3 DEF CallsInv
<1>9. CASE called_all
  <2>1. /\ copied \in Seq(Callback) /\ called \in Seq(Callback)
        /\ Len(called) >= Len(copied) /\ phase = "call" /\ phase' = "process"
        /\ UNCHANGED <<copied, called>>
    BY <1>9 DEF Inv, ProgramTypeOK, called_all, Listed
  <2>2. Len(called) = Len(copied) /\ SubSeq(copied, 1, Len(copied)) = copied
    BY <2>1 DEF CallsInv
  <2> QED BY <2>1, <2>2 DEF CallsInv
<1> QED
  BY <1>2, <1>3, <1>4, <1>5, <1>6, <1>7, <1>8, <1>9 DEF Next

\* Whatever the callbacks do to the list of the very name whose callbacks are
\* called, each that was registered when the packet was looked up is called once,
\* in order.
THEOREM CppCallsOnce == Spec => []EachCalledOnce
<1>1. Init => Inv /\ CallsInv
  BY InvInit, CallsInit
<1>2. Inv /\ CallsInv /\ [Next]_vars => (Inv /\ CallsInv)'
  BY InvNext, CallsNext
<1>3. CallsInv => EachCalledOnce
  BY DEF CallsInv, EachCalledOnce
<1> QED BY <1>1, <1>2, <1>3, PTL DEF Spec

-----------------------------------------------------------------------------
(***************************************************************************)
(* stop.                                                                   *)
(***************************************************************************)
\* Once stop has cleared running in the loop of run, nothing sets it again.
Stopped ==
  stopping \in {"in_recv", "in_run"}
  => caller = "run" /\ ~running /\ phase \notin {"program", "starting"}

\* A receive may still be under way then, if stop was called while it waited.
ReceivesInv ==
  /\ stopping = "no" => receives = 0
  /\ stopping = "in_run" => receives = 0 /\ phase # "recv"
  /\ stopping = "in_recv" => receives \in {0, 1} /\ (phase = "recv" => receives = 0)

LEMMA StopInit == Init => Stopped /\ ReceivesInv
BY DEF Init, Stopped, ReceivesInv

LEMMA StoppedNext ==
  ASSUME Stopped, [Next]_vars
  PROVE  Stopped'
<1>1. ASSUME UNCHANGED <<stopping, caller, running, phase>> PROVE Stopped'
  BY <1>1 DEF Stopped
<1>2. ASSUME NEW n \in Name, NEW cb \in Callback, track(n, cb) \/ untrack_callback(n, cb)
      PROVE  Stopped'
  BY <1>1, <1>2 DEF track, untrack_callback, receiving, answering, history
<1>3. ASSUME NEW n \in Name, untrack(n) \/ Notify(n) PROVE Stopped'
  BY <1>1, <1>3 DEF untrack, Notify, receiving, answering, history
<1>4. ASSUME Handle \/ UNCHANGED vars \/ call_next PROVE Stopped'
  BY <1>1, <1>4 DEF Handle, vars, call_next, receiving, history
<1>10. ASSUME set_namespace \/ \E c \in Counter : Greet(c) PROVE Stopped'
  BY <1>1, <1>10 DEF set_namespace, Greet, receiving, history
<1>5. ASSUME NEW n \in Name, NEW cb \in Callback, untrack_crashes(n, cb) PROVE Stopped'
  BY <1>5 DEF Stopped, untrack_crashes, history
<1>6. ASSUME stop PROVE Stopped'
  BY <1>6 DEF Stopped, stop
<1>7. ASSUME fetch \/ start_thread \/ run PROVE Stopped'
  BY <1>7 DEF Stopped, fetch, start_thread, run, history
<1>8. ASSUME run_loop \/ called_all PROVE Stopped'
  BY <1>8 DEF Stopped, run_loop, called_all, history
<1>9. ASSUME receive \/ find_listeners \/ processed_all PROVE Stopped'
  BY <1>9 DEF Stopped, receive, find_listeners, processed_all, history
<1> QED BY <1>2, <1>3, <1>4, <1>5, <1>6, <1>7, <1>8, <1>9, <1>10 DEF Next

LEMMA ReceivesNext ==
  ASSUME Stopped, ReceivesInv, [Next]_vars
  PROVE  ReceivesInv'
<1>1. ASSUME UNCHANGED <<stopping, receives>>, phase' = "recv" => phase = "recv"
      PROVE  ReceivesInv'
  BY <1>1 DEF ReceivesInv
<1>2. ASSUME NEW n \in Name, NEW cb \in Callback,
             track(n, cb) \/ untrack_callback(n, cb) \/ untrack_crashes(n, cb)
      PROVE  ReceivesInv'
  BY <1>1, <1>2 DEF track, untrack_callback, untrack_crashes, receiving, answering, history
<1>3. ASSUME NEW n \in Name, untrack(n) \/ Notify(n) PROVE ReceivesInv'
  BY <1>1, <1>3 DEF untrack, Notify, receiving, answering, history
<1>4. ASSUME Handle \/ UNCHANGED vars \/ start_thread \/ run PROVE ReceivesInv'
  BY <1>1, <1>4 DEF Handle, vars, start_thread, run, receiving, answering, history
<1>9. ASSUME set_namespace \/ \E c \in Counter : Greet(c) PROVE ReceivesInv'
  BY <1>1, <1>9 DEF set_namespace, Greet, receiving, history
<1>5. ASSUME find_listeners \/ call_next \/ called_all \/ processed_all PROVE ReceivesInv'
  BY <1>1, <1>5 DEF find_listeners, call_next, called_all, processed_all, history
<1>6. ASSUME stop PROVE ReceivesInv'
  <2>1. /\ receives = 0 /\ UNCHANGED <<receives, phase>> /\ stopping' # "no"
        /\ phase = "recv" => stopping' # "in_run"
    BY <1>6 DEF ReceivesInv, stop
  <2> QED BY <2>1 DEF ReceivesInv
<1>7. ASSUME fetch \/ run_loop PROVE ReceivesInv'
  <2>1. UNCHANGED <<stopping, receives>> /\ (phase' = "recv" => stopping \notin {"in_recv", "in_run"})
    BY <1>7 DEF fetch, run_loop, Stopped, history
  <2> QED BY <2>1 DEF ReceivesInv
<1>8. ASSUME receive PROVE ReceivesInv'
  <2>1. /\ phase = "recv" /\ phase' = "process" /\ stopping' = stopping
        /\ receives' = IF stopping = "no" \/ receives = 2 THEN receives ELSE receives + 1
    BY <1>8 DEF receive
  <2>2. CASE stopping = "in_recv"
    <3>1. receives' = 1
      BY <2>1, <2>2 DEF ReceivesInv
    <3> QED BY <2>1, <2>2, <3>1 DEF ReceivesInv
  <2>3. CASE stopping # "in_recv"
    BY <2>1, <2>3 DEF ReceivesInv
  <2> QED BY <2>2, <2>3
<1> QED BY <1>2, <1>3, <1>4, <1>5, <1>6, <1>7, <1>8, <1>9 DEF Next

\* stop, called from whatever thread while run is in its loop, lets it receive
\* nothing more, or once if it waits for that already; what it has received by then
\* it still processes.
THEOREM CppStops == Spec => []StopsInRun
<1>1. Stopped /\ ReceivesInv /\ [Next]_vars => (Stopped /\ ReceivesInv)'
  BY StoppedNext, ReceivesNext
<1>2. ReceivesInv => StopsInRun
  BY DEF ReceivesInv, StopsInRun
<1> QED BY <1>1, <1>2, StopInit, PTL DEF Spec

-----------------------------------------------------------------------------
(***************************************************************************)
(* Counters are told.                                                      *)
(***************************************************************************)
IsIn(s, x) == \E i \in DOMAIN s : s[i] = x

LEMMA IsInAppend ==
  ASSUME NEW S, NEW s \in Seq(S), NEW x \in S
  PROVE  IsIn(Append(s, x), x) /\ \A y \in S : IsIn(s, y) => IsIn(Append(s, x), y)
<1> DEFINE p == Append(s, x)
<1>1. /\ DOMAIN p = 1..Len(s) + 1 /\ DOMAIN s = 1..Len(s) /\ Len(s) \in Nat
      /\ p[Len(s) + 1] = x
      /\ \A i \in 1..Len(s) : p[i] = s[i]
  OBVIOUS
<1> HIDE DEF p
<1>2. Len(s) + 1 \in DOMAIN p
  BY <1>1
<1>3. \A i \in DOMAIN s : i \in DOMAIN p /\ p[i] = s[i]
  BY <1>1
<1>4. IsIn(p, x) /\ \A y \in S : IsIn(s, y) => IsIn(p, y)
  BY <1>1, <1>2, <1>3 DEF IsIn
<1> QED BY <1>4 DEF p

LEMMA IsInTail ==
  ASSUME NEW S, NEW s \in Seq(S), s # <<>>, NEW y, IsIn(s, y)
  PROVE  y = Head(s) \/ IsIn(Tail(s), y)
<1> DEFINE p == Tail(s)
<1>1. /\ DOMAIN p = 1..Len(s) - 1 /\ DOMAIN s = 1..Len(s) /\ Len(s) \in Nat \ {0}
      /\ Head(s) = s[1]
      /\ \A i \in 1..Len(s) - 1 : p[i] = s[i + 1]
  OBVIOUS
<1> HIDE DEF p
<1>2. PICK i \in DOMAIN s : s[i] = y
  BY DEF IsIn
<1>3. CASE i = 1
  BY <1>1, <1>2, <1>3
<1>4. CASE i # 1
  <2>1. i - 1 \in DOMAIN p /\ p[i - 1] = y
    BY <1>1, <1>2, <1>4
  <2> QED BY <2>1 DEF IsIn, p
<1> QED BY <1>3, <1>4

LEMMA IsInSplit ==
  ASSUME NEW s \in Seq(Name), NEW n \in 1..Len(s), NEW y, IsIn(s, y)
  PROVE  IsIn(SubSeq(s, 1, n), y) \/ IsIn(SubSeq(s, n + 1, Len(s)), y)
<1> DEFINE p == SubSeq(s, 1, n)
           q == SubSeq(s, n + 1, Len(s))
<1>1. Len(s) \in Nat /\ DOMAIN s = 1..Len(s) /\ n \in Nat /\ n <= Len(s)
  OBVIOUS
<1>2. DOMAIN p = 1..n /\ \A i \in 1..n : p[i] = s[i]
  BY <1>1
<1>3. DOMAIN q = 1..Len(s) - n /\ \A i \in 1..Len(s) - n : q[i] = s[n + i]
  BY <1>1
<1> HIDE DEF p, q
<1>4. PICK i \in DOMAIN s : s[i] = y
  BY DEF IsIn
<1>5. CASE i <= n
  <2>1. i \in DOMAIN p /\ p[i] = y
    BY <1>1, <1>2, <1>4, <1>5
  <2> QED BY <2>1 DEF IsIn, p
<1>6. CASE i > n
  <2>1. i - n \in 1..Len(s) - n /\ n + (i - n) = i
    BY <1>1, <1>4, <1>6
  <2>2. i - n \in DOMAIN q /\ q[i - n] = y
    BY <1>3, <1>4, <2>1
  <2> QED BY <2>2 DEF IsIn, q
<1> QED BY <1>1, <1>4, <1>5, <1>6

NewSpace == [op |-> "set_namespace", name |-> Space]

\* A packet that makes the server send the counter's value is on its way to it, it
\* is sending it, or the packet with the value is on its way to the program.
Pending(c) ==
  \/ IsIn(requests, [op |-> "track", name |-> c])
  \/ IsIn(requests, NewSpace)
  \/ c \in owed
  \/ IsIn(notices, c)
  \/ IsIn(arrived, c)

\* The packets that are processed are those that came last.
NothingLeft == phase \notin {"process", "call", "crashed"} => arrived = <<>>

\* The server has a namespace, or will have one.
Placing == placed \/ IsIn(requests, NewSpace)

ToldInv == NothingLeft /\ (Placing => \A c \in Keys \cap Counter : c \in told \/ Pending(c))

LEMMA ToldInit == Init => ToldInv /\ SubscriptionsAlternate
<1>1. Init => Keys = {}
  BY DEF Init, NoListeners, Keys
<1> QED BY <1>1, AlternateInit DEF Init, ToldInv, NothingLeft

LEMMA NothingLeftNext ==
  ASSUME NothingLeft, [Next]_vars
  PROVE  NothingLeft'
<1> USE DEF NothingLeft
<1>1. ASSUME NEW n \in Name, NEW cb \in Callback,
             track(n, cb) \/ untrack_callback(n, cb) \/ untrack_crashes(n, cb)
      PROVE  NothingLeft'
  BY <1>1 DEF track, untrack_callback, untrack_crashes, receiving
<1>6. ASSUME set_namespace \/ \E c \in Counter : Greet(c) PROVE NothingLeft'
  BY <1>6 DEF set_namespace, Greet, receiving
<1>2. ASSUME NEW n \in Name, untrack(n) \/ Notify(n) PROVE NothingLeft'
  BY <1>2 DEF untrack, Notify, receiving
<1>3. ASSUME stop \/ fetch \/ start_thread \/ run \/ run_loop PROVE NothingLeft'
  BY <1>3 DEF stop, fetch, start_thread, run, run_loop
<1>4. ASSUME receive \/ find_listeners \/ call_next \/ called_all \/ processed_all
      PROVE  NothingLeft'
  BY <1>4 DEF receive, find_listeners, call_next, called_all, processed_all
<1>5. ASSUME Handle \/ UNCHANGED vars PROVE NothingLeft'
  BY <1>5 DEF Handle, vars, receiving
<1> QED BY <1>1, <1>2, <1>3, <1>4, <1>5, <1>6 DEF Next

\* A packet that is sent is on its way, and so are those that were.
LEMMA AskedIsIn ==
  ASSUME SubscriptionsInv, NEW op, NEW n, [op |-> op, name |-> n] \in Request(Name), Ask(op, n)
  PROVE  /\ IsIn(requests', [op |-> op, name |-> n])
         /\ \A r \in Request(Name) : IsIn(requests, r) => IsIn(requests', r)
<1> DEFINE d == [op |-> op, name |-> n]
<1>1. d \in Request(Name) /\ requests' = Append(requests, d) /\ requests \in Seq(Request(Name))
  BY DEF Ask, SubscriptionsInv, QueueOK
<1> HIDE DEF d
<1>2. IsIn(requests', d) /\ \A r \in Request(Name) : IsIn(requests, r) => IsIn(requests', r)
  BY <1>1, IsInAppend
<1> QED BY <1>2 DEF d

\* When a namespace was chosen, or is about to be, it was before.
LEMMA PlacingBefore ==
  ASSUME Inv, [Next]_vars, Placing'
  PROVE  Placing \/ set_namespace
<1>1. NewSpace \in Request(Name) /\ requests \in Seq(Request(Name))
  BY IsRequest DEF NewSpace, Inv, SubscriptionsInv, QueueOK
<1>2. ASSUME NEW s \in Seq(Request(Name)), NEW op \in {"track", "untrack"}, NEW n \in Name,
             IsIn(Append(s, [op |-> op, name |-> n]), NewSpace)
      PROVE  IsIn(s, NewSpace)
  <2> DEFINE d == [op |-> op, name |-> n]
             p == Append(s, d)
  <2>1. d \in Request(Name) /\ d # NewSpace
    BY IsRequest DEF NewSpace
  <2> HIDE DEF d
  <2>2. /\ DOMAIN p = 1..Len(s) + 1 /\ DOMAIN s = 1..Len(s) /\ Len(s) \in Nat
        /\ p[Len(s) + 1] = d /\ \A i \in 1..Len(s) : p[i] = s[i]
    BY <2>1
  <2>3. PICK i \in DOMAIN p : p[i] = NewSpace
    BY <1>2 DEF IsIn, d
  <2>4. i \in DOMAIN s /\ s[i] = NewSpace
    BY <2>1, <2>2, <2>3
  <2> QED BY <2>4 DEF IsIn
<1>3. ASSUME NEW op \in {"track", "untrack"}, NEW n \in Name, Ask(op, n), placed' = placed
      PROVE  Placing
  BY <1>1, <1>2, <1>3 DEF Ask, Placing
<1>4. ASSUME UNCHANGED <<requests, placed>> PROVE Placing
  BY <1>4 DEF Placing
<1>5. ASSUME NEW n \in Name, NEW cb \in Callback, AddListener(n, cb) PROVE Placing
  BY <1>3, <1>4, <1>5 DEF AddListener
<1>6. ASSUME NEW n \in Name, NEW cb \in Callback, RemoveListener(n, cb) PROVE Placing
  BY <1>3, <1>4, <1>6 DEF RemoveListener
<1>7. ASSUME NEW n \in Name, RemoveAll(n) PROVE Placing
  BY <1>3, <1>7 DEF RemoveAll
<1>8. ASSUME HandleRequest PROVE Placing
  <2>1. /\ requests # <<>> /\ requests' = Tail(requests) /\ Head(requests) \in Request(Name)
        /\ placed' = (placed \/ Head(requests).op = "set_namespace")
        /\ Head(requests) = requests[1] /\ 1 \in DOMAIN requests
        /\ \A i \in DOMAIN Tail(requests) : i + 1 \in DOMAIN requests
                                          /\ Tail(requests)[i] = requests[i + 1]
    BY <1>1, <1>8 DEF HandleRequest
  <2>2. CASE Head(requests).op = "set_namespace"
    <3>1. Head(requests) = NewSpace
      BY <2>1, <2>2 DEF Request, NewSpace
    <3> QED BY <2>1, <3>1 DEF Placing, IsIn
  <2>3. CASE Head(requests).op # "set_namespace" /\ ~placed
    <3>1. IsIn(requests', NewSpace)
      BY <2>1, <2>3 DEF Placing
    <3> QED BY <2>1, <3>1 DEF Placing, IsIn
  <2> QED BY <2>2, <2>3 DEF Placing
<1>9. CASE UNCHANGED subscriptions
  BY <1>4, <1>9 DEF subscriptions
<1>10. [SubscriptionStep]_subscriptions
  BY NextSubscriptions
<1>11. ASSUME SetNamespace PROVE set_namespace \/ Placing
  <2>1. CASE \E n \in Name : \E cb \in Callback : track(n, cb) \/ untrack_callback(n, cb)
    BY <1>5, <1>6, <2>1 DEF track, untrack_callback
  <2>2. CASE \E n \in Name : untrack(n)
    BY <1>7, <2>2 DEF untrack
  <2>3. CASE Handle
    BY <1>8, <2>3 DEF Handle
  <2>4. CASE \/ \E n \in Name : Notify(n) \/ \E cb \in Callback : untrack_crashes(n, cb)
             \/ \E c \in Counter : Greet(c)
    BY <1>9, <2>4 DEF Notify, untrack_crashes, Greet
  <2>5. CASE stop \/ fetch \/ start_thread \/ run \/ run_loop \/ receive
    BY <1>9, <2>5 DEF stop, fetch, start_thread, run, run_loop, receive
  <2>6. CASE find_listeners \/ call_next \/ called_all \/ processed_all \/ UNCHANGED vars
    BY <1>9, <2>6 DEF find_listeners, call_next, called_all, processed_all, vars
  <2> QED BY <2>1, <2>2, <2>3, <2>4, <2>5, <2>6 DEF Next
<1> QED BY <1>5, <1>6, <1>7, <1>8, <1>9, <1>10, <1>11 DEF SubscriptionStep

\* Packets on their way stay there, or the listeners are told.
LEMMA PendingNext ==
  ASSUME Inv, SubscriptionsAlternate, ToldInv, [Next]_vars, Placing',
         NEW c \in Keys' \cap Counter
  PROVE  c \in told' \/ Pending(c)'
<1> DEFINE r == [op |-> "track", name |-> c]
<1>0. /\ requests \in Seq(Request(Name)) /\ notices \in Seq(Name) /\ arrived \in Seq(Name)
      /\ c \in Name /\ r \in Request(Name) /\ NewSpace \in Request(Name)
  BY IsRequest DEF Inv, SubscriptionsInv, QueueOK, ProgramTypeOK, Name, NewSpace
<1> HIDE DEF r
<1>1. c \in Keys /\ ~set_namespace => c \in told \/ Pending(c)
  BY PlacingBefore DEF ToldInv
<1>2. ASSUME NEW n \in Name, NEW op \in {"track", "untrack"}, Ask(op, n)
      PROVE  /\ IsIn(requests, r) => IsIn(requests', r)
             /\ IsIn(requests, NewSpace) => IsIn(requests', NewSpace)
             /\ IsIn(requests', [op |-> op, name |-> n])
  BY <1>0, <1>2, AskedIsIn, IsRequest DEF Inv
<1>3. ASSUME c \in Keys, c \in told => c \in told', IsIn(requests, r) => IsIn(requests', r),
             IsIn(requests, NewSpace) => IsIn(requests', NewSpace),
             UNCHANGED <<arrived, owed, notices>>, ~set_namespace
      PROVE  c \in told' \/ Pending(c)'
  BY <1>1, <1>3 DEF Pending, r
<1>14. CASE set_namespace
  <2>1. IsIn(requests', NewSpace)
    BY <1>14, AskedIsIn, IsRequest DEF set_namespace, SetNamespace, NewSpace, Inv
  <2> QED BY <2>1 DEF Pending
<1>4. ASSUME NEW n \in Name, NEW cb \in Callback, track(n, cb), ~set_namespace
      PROVE  c \in told' \/ Pending(c)'
  <2>0. UNCHANGED <<arrived, owed, notices>> /\ AddListener(n, cb)
    BY <1>4 DEF track, receiving, answering
  <2>1. CASE n \in Keys
    <3>1. Keys' = Keys /\ UNCHANGED <<requests, told>>
      BY <1>4, <2>0, <2>1 DEF AddListener, Keys, track
    <3> QED BY <1>3, <1>4, <2>0, <3>1
  <2>2. CASE n \notin Keys
    <3>1. Keys' = Keys \cup {n} /\ Ask("track", n) /\ told' = told \ {n}
      BY <1>4, <2>0, <2>2 DEF AddListener, Keys, track
    <3>2. CASE c = n
      BY <1>2, <3>1, <3>2 DEF Pending
    <3>3. CASE c # n
      BY <1>2, <1>3, <1>4, <2>0, <3>1, <3>3
    <3> QED BY <3>2, <3>3
  <2> QED BY <2>1, <2>2
<1>5. ASSUME NEW n \in Name, untrack(n), ~set_namespace PROVE c \in told' \/ Pending(c)'
  <2>1. Keys' = Keys \ {n} /\ Ask("untrack", n) /\ UNCHANGED <<arrived, owed, notices, told>>
    BY <1>5 DEF untrack, RemoveAll, Without, Keys, receiving, answering, history
  <2> QED BY <1>2, <1>3, <1>5, <2>1
<1>6. ASSUME NEW n \in Name, NEW cb \in Callback, untrack_callback(n, cb), ~set_namespace
      PROVE  c \in told' \/ Pending(c)'
  <2> DEFINE rest == Erased(listeners[n], Position(listeners[n], cb))
  <2>0. UNCHANGED <<arrived, owed, notices, told>> /\ RemoveListener(n, cb)
    BY <1>6 DEF untrack_callback, receiving, answering, history
  <2>1. CASE rest = <<>>
    <3>1. Keys' = Keys \ {n} /\ Ask("untrack", n)
      BY <2>0, <2>1 DEF RemoveListener, Without, Keys
    <3> QED BY <1>2, <1>3, <1>6, <2>0, <3>1
  <2>2. CASE rest # <<>>
    <3>1. listeners' = [listeners EXCEPT ![n] = rest] /\ requests' = requests
      BY <2>0, <2>2 DEF RemoveListener
    <3> QED BY <1>3, <1>6, <2>0, <3>1 DEF Keys
  <2> QED BY <2>1, <2>2
<1>7. ASSUME NEW n \in Name, Notify(n), ~set_namespace PROVE c \in told' \/ Pending(c)'
  <2>1. UNCHANGED <<arrived, owed, requests, told, Keys>> /\ notices' = Append(notices, n)
    BY <1>7 DEF Notify, subscriptions, receiving, history, Keys
  <2>2. IsIn(notices, c) => IsIn(notices', c)
    BY <1>0, <2>1, IsInAppend
  <2> QED BY <1>1, <1>7, <2>1, <2>2 DEF Pending
<1>8. ASSUME NEW n \in Name, NEW cb \in Callback, untrack_crashes(n, cb), ~set_namespace
      PROVE  c \in told' \/ Pending(c)'
  BY <1>3, <1>8 DEF untrack_crashes, subscriptions, answering, history, Keys
<1>9. ASSUME stop \/ fetch \/ start_thread \/ run \/ run_loop, ~set_namespace
      PROVE  c \in told' \/ Pending(c)'
  BY <1>3, <1>9
  DEF stop, fetch, start_thread, run, run_loop, subscriptions, answering, history, Keys
<1>10. ASSUME call_next \/ called_all \/ processed_all \/ UNCHANGED vars, ~set_namespace
       PROVE  c \in told' \/ Pending(c)'
  BY <1>3, <1>10
  DEF call_next, called_all, processed_all, vars, subscriptions, receiving, answering, history, Keys
<1>11. ASSUME receive, ~set_namespace PROVE c \in told' \/ Pending(c)'
  <2>1. /\ UNCHANGED <<requests, owed, told, Keys>> /\ arrived = <<>>
        /\ \E n \in 1..Len(notices) : /\ arrived' = SubSeq(notices, 1, n)
                                      /\ notices' = SubSeq(notices, n + 1, Len(notices))
    BY <1>11 DEF receive, subscriptions, ToldInv, NothingLeft, Keys
  <2>2. IsIn(notices, c) => IsIn(arrived', c) \/ IsIn(notices', c)
    BY <1>0, <2>1, IsInSplit
  <2>3. ~IsIn(arrived, c)
    BY <2>1 DEF IsIn
  <2> QED BY <1>1, <1>11, <2>1, <2>2, <2>3 DEF Pending
<1>12. ASSUME find_listeners, ~set_namespace PROVE c \in told' \/ Pending(c)'
  <2>1. /\ UNCHANGED <<requests, owed, notices, Keys>> /\ arrived # <<>> /\ arrived' = Tail(arrived)
        /\ told \subseteq told' /\ (Head(arrived) = c => c \in told')
    BY <1>12 DEF find_listeners, subscriptions, answering, Keys
  <2>2. IsIn(arrived, c) => c = Head(arrived) \/ IsIn(arrived', c)
    BY <1>0, <2>1, IsInTail
  <2> QED BY <1>1, <1>12, <2>1, <2>2 DEF Pending
<1>15. ASSUME NEW d \in Counter, Greet(d), ~set_namespace PROVE c \in told' \/ Pending(c)'
  <2>1. /\ UNCHANGED <<arrived, requests, told, Keys>> /\ notices' = Append(notices, d)
        /\ owed' = owed \ {d} /\ d \in Name
    BY <1>15 DEF Greet, subscriptions, receiving, history, Keys, Name
  <2>2. (IsIn(notices, c) => IsIn(notices', c)) /\ IsIn(notices', d)
    BY <1>0, <2>1, IsInAppend
  <2> QED BY <1>1, <1>15, <2>1, <2>2 DEF Pending
<1>13. ASSUME Handle, ~set_namespace PROVE c \in told' \/ Pending(c)'
  <2>1. /\ UNCHANGED <<arrived, notices, told, Keys>> /\ requests # <<>>
        /\ requests' = Tail(requests) /\ owed = {} /\ owed' = Greeted
        /\ placed' = (placed \/ Head(requests).op = "set_namespace")
    BY <1>13 DEF Handle, HandleRequest, receiving, history, Keys
  <2>2. \A d : IsIn(requests, d) => d = Head(requests) \/ IsIn(requests', d)
    BY <1>0, <2>1, IsInTail
  <2>3. ASSUME r = Head(requests) PROVE Pending(c)'
    <3>1. Head(requests).op = "track" /\ Head(requests).name = c
      BY <2>3 DEF r
    <3>2. CASE placed
      <4>1. c \in Greeted
        BY <2>1, <3>1, <3>2, OldestIsNew DEF Greeted, Inv
      <4> QED BY <2>1, <4>1 DEF Pending
    <3>3. CASE ~placed
      <4>1. IsIn(requests', NewSpace)
        BY <2>1, <3>1, <3>3 DEF Placing
      <4> QED BY <4>1 DEF Pending
    <3> QED BY <3>2, <3>3
  <2>4. ASSUME NewSpace = Head(requests) PROVE Pending(c)'
    <3>1. Head(requests).op = "set_namespace"
      BY <2>4 DEF NewSpace
    <3>2. CASE c \in tracked
      <4>1. c \in Greeted
        BY <3>1, <3>2 DEF Greeted
      <4> QED BY <2>1, <4>1 DEF Pending
    <3>3. CASE c \notin tracked
      <4>1. PICK i \in DOMAIN requests : requests[i] = r
        BY <1>0, <2>1, <3>3, TrackOnItsWay DEF Inv, r
      <4>2. IsIn(requests, r) /\ r # Head(requests)
        BY <3>1, <4>1 DEF IsIn, r
      <4> QED BY <2>2, <4>2 DEF Pending, r
    <3> QED BY <3>2, <3>3
  <2> QED BY <1>1, <1>13, <2>1, <2>2, <2>3, <2>4 DEF Pending, r
<1> QED
  BY <1>4, <1>5, <1>6, <1>7, <1>8, <1>9, <1>10, <1>11, <1>12, <1>13, <1>14, <1>15 DEF Next

LEMMA ToldNext ==
  Inv /\ SubscriptionsAlternate /\ ToldInv /\ [Next]_vars => ToldInv'
BY PendingNext, NothingLeftNext DEF ToldInv

LEMMA ToldInvImplies == ToldInv => CountersTold
BY DEF ToldInv, Placing, Pending, IsIn, CountersTold, Settled

\* Once nothing is on its way, every counter that has listeners has told its present
\* ones a value since the program last chose a namespace, if it ever did, however
\* often the counter was tracked and untracked before and after.
THEOREM CppCountersTold == Spec => []CountersTold
<1>1. Inv /\ SubscriptionsAlternate /\ [Next]_vars => SubscriptionsAlternate'
  BY NextSubscriptions, AlternateNext DEF Inv
<1> QED BY <1>1, InvInit, InvNext, ToldInit, ToldNext, ToldInvImplies, PTL DEF Spec

===============================================================================
