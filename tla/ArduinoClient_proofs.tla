------------------------- MODULE ArduinoClient_proofs -------------------------
(***************************************************************************)
(* A theorem about module ArduinoClient.                                   *)
(***************************************************************************)
EXTENDS ArduinoClient, Subscriptions_proofs, FiniteSetTheorems

\* What the sketch calls, and what the server does with it.
LEMMA MethodsAreSubscriptions ==
  ASSUME Methods \/ Handle
  PROVE  [SubscriptionStep]_subscriptions
<1>1. ASSUME NEW n \in Name, untrack(n) PROVE SubscriptionStep
  BY <1>1 DEF untrack, SubscriptionStep
<1>2. ASSUME NEW n \in Name, NEW cb \in Callback, track(n, cb) \/ untrack_callback(n, cb)
      PROVE  SubscriptionStep
  BY <1>2 DEF track, untrack_callback, SubscriptionStep
<1>3. ASSUME fetch_again PROVE UNCHANGED subscriptions
  BY <1>3 DEF fetch_again, Called
<1>4. ASSUME Handle PROVE SubscriptionStep
  BY <1>4 DEF Handle, SubscriptionStep
<1>5. ASSUME set_namespace PROVE SubscriptionStep
  BY <1>5 DEF set_namespace, SubscriptionStep
<1> QED BY <1>1, <1>2, <1>3, <1>4, <1>5 DEF Methods

\* The steps of process() leave the map, the packets and the server alone.
LEMMA StepsKeepSubscriptions ==
  ASSUME Step
  PROVE  UNCHANGED subscriptions
<1>1. ASSUME NEW s, Processing(s) PROVE UNCHANGED subscriptions
  BY <1>1 DEF Processing
<1>2. ASSUME NEW s, Reading(s) PROVE UNCHANGED subscriptions
  BY <1>1, <1>2 DEF Reading
<1>3. ASSUME process_header \/ process_version \/ process_name_length PROVE UNCHANGED subscriptions
  BY <1>2, <1>3 DEF process_header, process_version, process_name_length
<1>4. ASSUME process_counter_value \/ process_payload_length PROVE UNCHANGED subscriptions
  BY <1>2, <1>4 DEF process_counter_value, process_payload_length
<1>5. ASSUME process_name \/ process_payload PROVE UNCHANGED subscriptions
  BY <1>2, <1>5 DEF process_name, process_payload
<1>6. ASSUME call_event_listeners \/ call_counter_listeners PROVE UNCHANGED subscriptions
  BY <1>1, <1>6 DEF call_event_listeners, call_counter_listeners
<1>7. ASSUME fetch \/ listener_returns \/ process_returns PROVE UNCHANGED subscriptions
  BY <1>7 DEF fetch, Called, listener_returns, process_returns
<1> QED BY <1>3, <1>4, <1>5, <1>6, <1>7 DEF Step

\* Every step is one of Subscriptions, or leaves its variables alone.
LEMMA NextSubscriptions == [Next]_vars => [SubscriptionStep]_subscriptions
<1>1. ASSUME Arrive \/ Break PROVE UNCHANGED subscriptions
  BY <1>1 DEF Arrive, Break
<1>2. ASSUME NEW notice, Notify(notice) \/ Greet(notice) PROVE UNCHANGED subscriptions
  BY <1>2 DEF Notify, Greet
<1> QED
  BY <1>1, <1>2, MethodsAreSubscriptions, StepsKeepSubscriptions DEF Next, vars

\* Once it has handled what is on its way, the server tracks exactly the names
\* that have listeners in the sketch, wherever its callbacks fetch, track and
\* untrack; for any number of names, callbacks, packets and calls of fetch inside
\* each other.
THEOREM ArduinoSubscriptions == Spec => []SubscriptionsAgree
<1>1. Init => SubscriptionsInv
  BY SubscriptionsInit DEF Init
<1>2. SubscriptionsInv /\ [Next]_vars => SubscriptionsInv'
  BY NextSubscriptions, SubscriptionsNext
<1>3. SubscriptionsInv => SubscriptionsAgree
  BY SubscriptionsAgreeIsAgrees DEF SubscriptionsInv
<1> QED BY <1>1, <1>2, <1>3, PTL DEF Spec

-----------------------------------------------------------------------------
(***************************************************************************)
(* Packets: the libraries' loops put together what the server took apart.  *)
(***************************************************************************)
LEMMA ByteIsNat == \A b \in Byte : b \in Nat /\ b < 256
BY DEF Byte

LEMMA NumberOfTwo ==
  ASSUME NEW b \in Seq(Byte), Len(b) = 2
  PROVE  Number(b) = b[1] * 256 + b[2] /\ Number(b) \in Nat /\ Number(b) < 65536
<1> DEFINE F(g) == [i \in 0..Len(b) |-> IF i = 0 THEN 0 ELSE g[i - 1] * 256 + b[i]]
           w == [i \in 0..2 |-> IF i = 0 THEN 0 ELSE IF i = 1 THEN b[1] ELSE b[1] * 256 + b[2]]
           left == CHOOSE g : g = F(g)
<1>1. b[1] \in Byte /\ b[2] \in Byte
  OBVIOUS
<1>2. b[1] \in Nat /\ b[2] \in Nat /\ b[1] < 256 /\ b[2] < 256
  BY <1>1, ByteIsNat
<1>3. w = F(w)
  BY <1>2
<1>4. left = F(left)
  BY <1>3
<1>5. \A i \in 0..2 : left[i] = IF i = 0 THEN 0 ELSE left[i - 1] * 256 + b[i]
  <2> HIDE DEF left
  <2> QED BY <1>4
<1>6. Number(b) = left[2]
  BY DEF Number
<1> HIDE DEF left
<1>7. left[0] = 0 /\ left[1] = left[0] * 256 + b[1] /\ left[2] = left[1] * 256 + b[2]
  BY <1>5
<1> QED BY <1>2, <1>6, <1>7

LEMMA NumberOfFour ==
  ASSUME NEW b \in Seq(Byte), Len(b) = 4
  PROVE  Number(b) = ((b[1] * 256 + b[2]) * 256 + b[3]) * 256 + b[4] /\ Number(b) \in Nat
<1> DEFINE F(g) == [i \in 0..Len(b) |-> IF i = 0 THEN 0 ELSE g[i - 1] * 256 + b[i]]
           w == [i \in 0..4 |->
                  IF i = 0 THEN 0 ELSE IF i = 1 THEN b[1] ELSE IF i = 2 THEN b[1] * 256 + b[2]
                  ELSE IF i = 3 THEN (b[1] * 256 + b[2]) * 256 + b[3]
                  ELSE ((b[1] * 256 + b[2]) * 256 + b[3]) * 256 + b[4]]
           left == CHOOSE g : g = F(g)
<1>1. b[1] \in Byte /\ b[2] \in Byte /\ b[3] \in Byte /\ b[4] \in Byte
  <2>1. \A i \in 1..4 : b[i] \in Byte
    OBVIOUS
  <2> QED BY <2>1
<1>2. b[1] \in Nat /\ b[2] \in Nat /\ b[3] \in Nat /\ b[4] \in Nat
  BY <1>1, ByteIsNat
<1>3. w = F(w)
  BY <1>2
<1>4. left = F(left)
  BY <1>3
<1>5. \A i \in 0..4 : left[i] = IF i = 0 THEN 0 ELSE left[i - 1] * 256 + b[i]
  <2> HIDE DEF left
  <2> QED BY <1>4
<1>6. Number(b) = left[4]
  BY DEF Number
<1> HIDE DEF left
<1>7. /\ left[0] = 0 /\ left[1] = left[0] * 256 + b[1] /\ left[2] = left[1] * 256 + b[2]
      /\ left[3] = left[2] * 256 + b[3] /\ left[4] = left[3] * 256 + b[4]
  BY <1>5
<1> QED BY <1>2, <1>6, <1>7

LEMMA ShiftedOnce ==
  ASSUME NEW v \in Nat
  PROVE  Shifted(v, 0) = v /\ Shifted(v, 1) = v \div 256
<1> DEFINE F(g, k) == [j \in 0..k |-> IF j = 0 THEN v ELSE g[j - 1] \div 256]
           w(k) == [j \in 0..k |-> IF j = 0 THEN v ELSE v \div 256]
           right(k) == CHOOSE g : g = F(g, k)
<1>1. w(0) = F(w(0), 0) /\ w(1) = F(w(1), 1)
  OBVIOUS
<1>2. right(0) = F(right(0), 0) /\ right(1) = F(right(1), 1)
  BY <1>1
<1>3. Shifted(v, 0) = right(0)[0] /\ Shifted(v, 1) = right(1)[1]
  BY DEF Shifted
<1> HIDE DEF right
<1>4. right(0)[0] = v /\ right(1)[0] = v /\ right(1)[1] = right(1)[0] \div 256
  BY <1>2
<1> QED BY <1>3, <1>4

LEMMA ShiftedMore ==
  ASSUME NEW v \in Nat
  PROVE  Shifted(v, 2) = (v \div 256) \div 256 /\ Shifted(v, 3) = ((v \div 256) \div 256) \div 256
<1> DEFINE F(g, k) == [j \in 0..k |-> IF j = 0 THEN v ELSE g[j - 1] \div 256]
           w(k) == [j \in 0..k |->
                     IF j = 0 THEN v ELSE IF j = 1 THEN v \div 256
                     ELSE IF j = 2 THEN (v \div 256) \div 256
                     ELSE ((v \div 256) \div 256) \div 256]
           right(k) == CHOOSE g : g = F(g, k)
<1>1. w(2) = F(w(2), 2) /\ w(3) = F(w(3), 3)
  OBVIOUS
<1>2. right(2) = F(right(2), 2) /\ right(3) = F(right(3), 3)
  BY <1>1
<1>3. Shifted(v, 2) = right(2)[2] /\ Shifted(v, 3) = right(3)[3]
  BY DEF Shifted
<1> HIDE DEF right
<1>4. /\ right(2)[0] = v /\ right(2)[1] = right(2)[0] \div 256
      /\ right(2)[2] = right(2)[1] \div 256
      /\ right(3)[0] = v /\ right(3)[1] = right(3)[0] \div 256
      /\ right(3)[2] = right(3)[1] \div 256 /\ right(3)[3] = right(3)[2] \div 256
  BY <1>2
<1> QED BY <1>3, <1>4

LEMMA Halves ==
  ASSUME NEW v \in Nat
  PROVE  /\ v \div 256 \in Nat /\ v % 256 \in Nat /\ v % 256 < 256
         /\ ((v \div 256) * 256) + (v % 256) = v
         /\ v < 256 => v % 256 = v
OBVIOUS

LEMMA IsByte == \A b \in Nat : b < 256 => b \in Byte
BY DEF Byte

\* The bytes of a number, of which the libraries send and read one, two or four.
LEMMA BytesOfNumber ==
  ASSUME NEW v \in Nat, NEW n \in {1, 2, 4}
  PROVE  /\ BigEndian(v, n) \in Seq(Byte) /\ Len(BigEndian(v, n)) = n
         /\ \A i \in 1..n : BigEndian(v, n)[i] = Shifted(v, n - i) % 256
<1>1. \A k \in 0..3 : Shifted(v, k) \in Nat
  <2>1. v \div 256 \in Nat /\ (v \div 256) \div 256 \in Nat
        /\ ((v \div 256) \div 256) \div 256 \in Nat
    BY Halves
  <2>2. \A k \in 0..3 : k = 0 \/ k = 1 \/ k = 2 \/ k = 3
    OBVIOUS
  <2> QED BY <2>1, <2>2, ShiftedOnce, ShiftedMore
<1>2. \A i \in 1..n : Shifted(v, n - i) \in Nat
  <2>1. \A i \in 1..n : n - i \in 0..3
    OBVIOUS
  <2> QED BY <1>1, <2>1
<1>3. \A i \in 1..n : Shifted(v, n - i) % 256 \in Byte
  BY <1>2, Halves, IsByte
<1>4. BigEndian(v, n) = [i \in 1..n |-> Shifted(v, n - i) % 256]
  BY DEF BigEndian
<1> QED BY <1>3, <1>4

\* Two bytes give the length that the server took apart, four the value.
LEMMA LengthArrives ==
  ASSUME NEW v \in Nat, Shifted(v, 1) < 256, NEW b \in Seq(Byte), Len(b) = 2,
         \A i \in 1..2 : b[i] = BigEndian(v, 2)[i]
  PROVE  Number(b) = v
<1>1. b[1] = Shifted(v, 1) % 256 /\ b[2] = Shifted(v, 0) % 256
  <2>1. \A i \in 1..2 : b[i] = Shifted(v, 2 - i) % 256
    BY BytesOfNumber
  <2> QED BY <2>1
<1>2. Shifted(v, 1) = v \div 256 /\ Shifted(v, 0) = v
  BY ShiftedOnce
<1>3. v \div 256 \in Nat /\ ((v \div 256) * 256) + (v % 256) = v
  BY Halves
<1>4. (v \div 256) % 256 = v \div 256
  BY <1>2, <1>3, Halves
<1>5. b[1] = v \div 256 /\ b[2] = v % 256
  BY <1>1, <1>2, <1>4
<1> QED BY <1>3, <1>5, NumberOfTwo

LEMMA ValueArrives ==
  ASSUME NEW v \in Nat, Shifted(v, 3) < 256, NEW b \in Seq(Byte), Len(b) = 4,
         \A i \in 1..4 : b[i] = BigEndian(v, 4)[i]
  PROVE  Number(b) = v
<1> DEFINE x == v \div 256
           y == x \div 256
           z == y \div 256
<1>1. Shifted(v, 3) = z /\ Shifted(v, 2) = y /\ Shifted(v, 1) = x /\ Shifted(v, 0) = v
  BY ShiftedOnce, ShiftedMore
<1>2. x \in Nat /\ (x * 256) + (v % 256) = v
  BY Halves
<1> HIDE DEF x
<1>3. y \in Nat /\ (y * 256) + (x % 256) = x
  BY <1>2, Halves
<1> HIDE DEF y
<1>4. z \in Nat /\ (z * 256) + (y % 256) = y
  BY <1>3, Halves
<1> HIDE DEF z
<1>5. z % 256 = z
  BY <1>1, <1>4, Halves
<1>6. \A i \in 1..4 : b[i] = Shifted(v, 4 - i) % 256
  BY BytesOfNumber
<1>7. /\ b[1] = Shifted(v, 3) % 256 /\ b[2] = Shifted(v, 2) % 256
      /\ b[3] = Shifted(v, 1) % 256 /\ b[4] = Shifted(v, 0) % 256
  BY <1>6
<1>8. b[1] = z /\ b[2] = y % 256 /\ b[3] = x % 256 /\ b[4] = v % 256
  BY <1>1, <1>5, <1>7
<1>9. Number(b) = ((b[1] * 256 + b[2]) * 256 + b[3]) * 256 + b[4]
  BY NumberOfFour
<1>10. ((z * 256) + (y % 256)) = y /\ ((y * 256) + (x % 256)) = x
  BY <1>3, <1>4
<1> QED BY <1>2, <1>8, <1>9, <1>10

LEMMA ConcatBytes ==
  ASSUME NEW a \in Seq(Byte), NEW b \in Seq(Byte)
  PROVE  /\ a \o b \in Seq(Byte)
         /\ Len(a \o b) = Len(a) + Len(b)
         /\ \A i \in 1..Len(a) : (a \o b)[i] = a[i]
         /\ \A i \in 1..Len(b) : (a \o b)[Len(a) + i] = b[i]
OBVIOUS

\* p is a header of k bytes, and what follows it.
Joined(p, h, k, a) ==
  /\ p \in Seq(Byte) /\ Len(p) = k + Len(a)
  /\ \A i \in 1..k : p[i] = h[i]
  /\ \A i \in 1..Len(a) : p[k + i] = a[i]

LEMMA AfterHeader ==
  ASSUME NEW k \in Nat, NEW h \in Seq(Byte), Len(h) = k, NEW a \in Seq(Byte)
  PROVE  Joined(h \o a, h, k, a)
BY ConcatBytes DEF Joined

\* The opcode and the length of the name.
Start(op, name) == <<op>> \o BigEndian(Len(name), 1)

LEMMA StartOfPacket ==
  ASSUME NEW op \in Byte, NEW name \in Seq(Byte), Len(name) < 256
  PROVE  /\ Start(op, name) \in Seq(Byte) /\ Len(Start(op, name)) = 2
         /\ Start(op, name)[1] = op /\ Start(op, name)[2] = Len(name)
<1> DEFINE l == BigEndian(Len(name), 1)
           n == Len(name)
<1>1. n \in Nat /\ n < 256
  OBVIOUS
<1>2. l \in Seq(Byte) /\ Len(l) = 1 /\ l[1] = n
  <2> HIDE DEF n
  <2>1. \A i \in 1..1 : BigEndian(n, 1)[i] = Shifted(n, 1 - i) % 256
    BY <1>1, BytesOfNumber
  <2>2. BigEndian(n, 1)[1] = Shifted(n, 0) % 256
    BY <2>1
  <2>3. Shifted(n, 0) % 256 = n
    BY <1>1, ShiftedOnce, Halves
  <2>4. BigEndian(n, 1) \in Seq(Byte) /\ Len(BigEndian(n, 1)) = 1
    BY <1>1, BytesOfNumber
  <2> QED BY <2>2, <2>3, <2>4 DEF n
<1> HIDE DEF l
<1>3. <<op>> \in Seq(Byte) /\ Len(<<op>>) = 1 /\ <<op>>[1] = op
  OBVIOUS
<1> DEFINE s == <<op>>
<1>4. s \in Seq(Byte) /\ Len(s) = 1 /\ s[1] = op
  BY <1>3
<1> HIDE DEF s
<1>5. /\ s \o l \in Seq(Byte) /\ Len(s \o l) = 2
      /\ (s \o l)[1] = s[1] /\ (s \o l)[2] = l[1]
  <2>1. Joined(s \o l, s, 1, l)
    BY <1>2, <1>4, AfterHeader
  <2> QED BY <1>2, <2>1 DEF Joined
<1> QED BY <1>2, <1>4, <1>5 DEF Start, s, l

EventLayout(p, name, payload) ==
  /\ p \in Seq(Byte)
  /\ Len(p) = 4 + Len(name) + Len(payload)
  /\ p[1] = event_triggered /\ p[2] = Len(name)
  /\ \A i \in 1..2 : p[2 + i] = BigEndian(Len(payload), 2)[i]
  /\ \A i \in 1..Len(name) : p[4 + i] = name[i]
  /\ \A i \in 1..Len(payload) : p[4 + Len(name) + i] = payload[i]

LEMMA EventPacket ==
  ASSUME NEW n, n.op = event_triggered, NEW name \in Seq(Byte), n.name = name,
         NEW payload \in Seq(Byte), n.payload = payload, Len(name) < 256
  PROVE  EventLayout(packet(n), name, payload)
<1> DEFINE s == Start(event_triggered, name)
           l == BigEndian(Len(payload), 2)
           h == s \o l
           g == h \o name
           p == g \o payload
<1>1. packet(n) = p
  BY DEF packet, Start
<1>2. Len(name) \in Nat /\ Len(payload) \in Nat /\ event_triggered \in Byte
  BY IsByte DEF event_triggered
<1>3. s \in Seq(Byte) /\ Len(s) = 2 /\ s[1] = event_triggered /\ s[2] = Len(name)
  BY <1>2, StartOfPacket
<1>4. l \in Seq(Byte) /\ Len(l) = 2
  BY <1>2, BytesOfNumber
<1> HIDE DEF s, l
<1>5. /\ h \in Seq(Byte) /\ Len(h) = 4
      /\ \A i \in 1..2 : h[i] = s[i]
      /\ \A i \in 1..2 : h[2 + i] = l[i]
  <2>1. Joined(h, s, 2, l)
    BY <1>3, <1>4, AfterHeader
  <2> HIDE DEF h
  <2> QED BY <1>4, <2>1 DEF Joined
<1> HIDE DEF h
<1>6. /\ g \in Seq(Byte) /\ Len(g) = 4 + Len(name)
      /\ \A i \in 1..4 : g[i] = h[i]
      /\ \A i \in 1..Len(name) : g[4 + i] = name[i]
  <2>1. Joined(g, h, 4, name)
    BY <1>5, AfterHeader
  <2> HIDE DEF g
  <2> QED BY <2>1 DEF Joined
<1> HIDE DEF g
<1> DEFINE k == 4 + Len(name)
<1>7. k \in Nat /\ Len(g) = k
  BY <1>2, <1>6
<1>8. /\ p \in Seq(Byte) /\ Len(p) = k + Len(payload)
      /\ \A i \in 1..k : p[i] = g[i]
      /\ \A i \in 1..Len(payload) : p[k + i] = payload[i]
  <2> HIDE DEF k
  <2>1. Joined(p, g, k, payload)
    BY <1>6, <1>7, AfterHeader
  <2> HIDE DEF p
  <2> QED BY <2>1 DEF Joined
<1> HIDE DEF p
<1>9. /\ p[1] = s[1] /\ p[2] = s[2]
      /\ \A i \in 1..2 : p[2 + i] = l[i]
      /\ \A i \in 1..Len(name) : p[4 + i] = name[i]
  <2>1. \A i \in 1..4 : p[i] = h[i]
    BY <1>2, <1>6, <1>8
  <2>2. \A i \in 1..Len(name) : p[4 + i] = g[4 + i]
    BY <1>2, <1>8
  <2>3. \A i \in 1..2 : p[i] = s[i] /\ p[2 + i] = l[i]
    BY <1>5, <2>1
  <2> QED BY <1>6, <2>2, <2>3
<1> QED BY <1>1, <1>3, <1>8, <1>9 DEF EventLayout, l

CounterLayout(p, name, value) ==
  /\ p \in Seq(Byte)
  /\ Len(p) = 6 + Len(name)
  /\ p[1] = counter_changed /\ p[2] = Len(name)
  /\ \A i \in 1..4 : p[2 + i] = BigEndian(value, 4)[i]
  /\ \A i \in 1..Len(name) : p[6 + i] = name[i]

LEMMA CounterPacket ==
  ASSUME NEW n, n.op = counter_changed, NEW name \in Seq(Byte), n.name = name,
         NEW value \in Nat, n.value = value, Len(name) < 256
  PROVE  CounterLayout(packet(n), name, value)
<1> DEFINE s == Start(counter_changed, name)
           v == BigEndian(value, 4)
           h == s \o v
           p == h \o name
<1>1. packet(n) = p
  <2>1. n.op # event_triggered
    BY DEF event_triggered, counter_changed
  <2> QED BY <2>1 DEF packet, Start
<1>2. Len(name) \in Nat /\ counter_changed \in Byte
  BY IsByte DEF counter_changed
<1>3. s \in Seq(Byte) /\ Len(s) = 2 /\ s[1] = counter_changed /\ s[2] = Len(name)
  BY <1>2, StartOfPacket
<1>4. v \in Seq(Byte) /\ Len(v) = 4
  BY BytesOfNumber
<1> HIDE DEF s, v
<1>5. /\ h \in Seq(Byte) /\ Len(h) = 6
      /\ \A i \in 1..2 : h[i] = s[i]
      /\ \A i \in 1..4 : h[2 + i] = v[i]
  <2>1. Joined(h, s, 2, v)
    BY <1>3, <1>4, AfterHeader
  <2> HIDE DEF h
  <2> QED BY <1>4, <2>1 DEF Joined
<1> HIDE DEF h
<1>6. /\ p \in Seq(Byte) /\ Len(p) = 6 + Len(name)
      /\ \A i \in 1..6 : p[i] = h[i]
      /\ \A i \in 1..Len(name) : p[6 + i] = name[i]
  <2>1. Joined(p, h, 6, name)
    BY <1>5, AfterHeader
  <2> HIDE DEF p
  <2> QED BY <2>1 DEF Joined
<1> HIDE DEF p
<1>7. p[1] = s[1] /\ p[2] = s[2] /\ \A i \in 1..4 : p[2 + i] = v[i]
  BY <1>5, <1>6
<1> QED BY <1>1, <1>3, <1>6, <1>7 DEF CounterLayout, v

-----------------------------------------------------------------------------
(***************************************************************************)
(* The variables' types.                                                   *)
(***************************************************************************)
Steps == {"header", "protocol_version", "name_length", "counter_value", "payload_length",
          "name", "payload", "call_counter_listeners", "call_event_listeners"}

NoticeSteps == {"name_length", "counter_value", "payload_length", "name", "payload"}

Details == [step : Steps, opcode : Nat, name_length : Byte, counter_value : Nat,
            payload_length : Nat, name : Seq(Byte), payload : Seq(Byte)]

\* In two bytes.
Fits(length) == length < 65536

DetailsOK ==
  /\ details \in Details
  /\ Fits(details.payload_length)
  /\ details.step \in NoticeSteps => details.opcode \in {event_triggered, counter_changed}

Noticed ==
  [op : {event_triggered}, name : Seq(Byte), payload : Seq(Byte)]
  \cup [op : {counter_changed}, name : Seq(Byte), value : Nat]

StreamOK ==
  /\ stream \in Seq(Byte)
  /\ arrived \in Nat /\ arrived <= Len(stream)
  /\ taken \in Nat /\ taken <= arrived
  /\ arrived - taken <= Window

StackOK == stack \in Seq(Seq(Callback)) /\ Len(stack) <= MaxDepth

HistoryOK == sent \in Seq(Notice) /\ processed \in Seq([notice : Noticed, at : Nat])

SketchOK == DetailsOK /\ StreamOK /\ StackOK /\ HistoryOK

Flags == linked \in BOOLEAN /\ nested \in BOOLEAN /\ cut \in BOOLEAN

\* The server's part.
ServerOK == placed \in BOOLEAN /\ owed \subseteq Counter

LEMMA SketchIsTypeOK ==
  SubscriptionsInv /\ SketchOK /\ Flags /\ ServerOK => TypeOK
<1> SUFFICES ASSUME SubscriptionsInv, SketchOK, Flags, ServerOK PROVE TypeOK
  OBVIOUS
<1>1. SubscriptionsTypeOK
  BY SubscriptionsInvImplies DEF ServerOK
<1>2. stream \in Seq(Byte) /\ arrived \in 0..Len(stream) /\ taken \in 0..arrived
      /\ available <= Window
  BY DEF SketchOK, StreamOK, available
<1>3. /\ details.step \in Steps
      /\ details.step \in NoticeSteps => details.opcode \in {event_triggered, counter_changed}
      /\ details.name_length \in Byte
      /\ details.payload_length \in Nat /\ details.payload_length < 65536
  BY DEF SketchOK, DetailsOK, Details, Fits
<1>4. stack \in Seq(Seq(Callback)) /\ Len(stack) <= MaxDepth /\ sent \in Seq(Notice)
  BY DEF SketchOK, StackOK, HistoryOK
<1> QED BY <1>1, <1>2, <1>3, <1>4 DEF TypeOK, Flags, ServerOK, Steps, NoticeSteps

\* What a step waits for.
LEMMA NeededIs ==
  /\ details.step \in {"header", "protocol_version", "name_length"} => Needed = 1
  /\ details.step = "payload_length" => Needed = 2
  /\ details.step = "counter_value"  => Needed = 4
  /\ details.step = "name"           => Needed = details.name_length
  /\ details.step = "payload"        => Needed = details.payload_length
  /\ details.step \in {"call_counter_listeners", "call_event_listeners"} => Needed = 0
BY DEF Needed

LEMMA NeededNat ==
  ASSUME DetailsOK
  PROVE  Needed \in Nat
<1>1. details.step \in Steps /\ details.name_length \in Nat /\ details.payload_length \in Nat
  BY ByteIsNat DEF DetailsOK, Details
<1> QED BY <1>1, NeededIs DEF Steps

\* What it reads: the next bytes of the stream.
LEMMA InputIs ==
  ASSUME DetailsOK, StreamOK, can_process_input
  PROVE  /\ Input \in Seq(Byte) /\ Len(Input) = Needed
         /\ \A i \in 1..Needed : Input[i] = stream[taken + i]
         /\ taken + Needed <= arrived
<1> DEFINE n == Needed
<1>1. n \in Nat /\ n <= arrived - taken
  BY NeededNat DEF can_process_input, available
<1>2. Input = SubSeq(stream, taken + 1, taken + n)
  BY <1>1 DEF Input, can_process_input
<1> HIDE DEF n
<1>3. taken \in Nat /\ arrived \in Nat /\ taken + n <= arrived /\ arrived <= Len(stream)
      /\ stream \in Seq(Byte)
  BY <1>1 DEF StreamOK
<1>4. /\ SubSeq(stream, taken + 1, taken + n) \in Seq(Byte)
      /\ Len(SubSeq(stream, taken + 1, taken + n)) = n
      /\ \A i \in 1..n : SubSeq(stream, taken + 1, taken + n)[i] = stream[taken + i]
  BY <1>1, <1>3
<1> QED BY <1>2, <1>3, <1>4 DEF n

LEMMA ReadingTypes ==
  ASSUME SketchOK, NEW s, Reading(s), DetailsOK'
  PROVE  SketchOK'
<1>1. can_process_input /\ UNCHANGED network /\ UNCHANGED history
  BY DEF Reading, Processing
<1>2. taken' = taken + Needed /\ taken + Needed <= arrived /\ Needed \in Nat
  BY <1>1, InputIs, NeededNat DEF Reading, SketchOK
<1>3. StreamOK'
  BY <1>1, <1>2, WindowNatural DEF SketchOK, StreamOK, network
<1> QED BY <1>1, <1>3 DEF Reading, history, SketchOK, StackOK, HistoryOK

\* The fields that a step sets.
LEMMA SetOpcode ==
  ASSUME details \in Details, NEW t \in Steps, NEW o \in Nat,
         details' = [details EXCEPT !.opcode = o, !.step = t]
  PROVE  /\ details' \in Details /\ details'.step = t /\ details'.opcode = o
         /\ details'.payload_length = details.payload_length
BY DEF Details

LEMMA SetStep ==
  ASSUME details \in Details, NEW t \in Steps, details' = [details EXCEPT !.step = t]
  PROVE  /\ details' \in Details /\ details'.step = t /\ details'.opcode = details.opcode
         /\ details'.name_length = details.name_length /\ details'.counter_value = details.counter_value
         /\ details'.payload_length = details.payload_length /\ details'.name = details.name /\ details'.payload = details.payload
BY DEF Details

LEMMA SetNameLength ==
  ASSUME details \in Details, NEW t \in Steps, NEW l \in Byte,
         details' = [details EXCEPT !.name_length = l, !.step = t]
  PROVE  /\ details' \in Details /\ details'.step = t /\ details'.opcode = details.opcode
         /\ details'.name_length = l /\ details'.payload_length = details.payload_length
BY DEF Details

LEMMA SetCounterValue ==
  ASSUME details \in Details, NEW t \in Steps, NEW v \in Nat,
         details' = [details EXCEPT !.counter_value = v, !.step = t]
  PROVE  /\ details' \in Details /\ details'.step = t /\ details'.opcode = details.opcode
         /\ details'.name_length = details.name_length /\ details'.counter_value = v
         /\ details'.payload_length = details.payload_length
BY DEF Details

LEMMA SetPayloadLength ==
  ASSUME details \in Details, NEW t \in Steps, NEW l \in Nat,
         details' = [details EXCEPT !.payload_length = l, !.step = t]
  PROVE  /\ details' \in Details /\ details'.step = t /\ details'.opcode = details.opcode
         /\ details'.name_length = details.name_length /\ details'.payload_length = l
BY DEF Details

LEMMA SetName ==
  ASSUME details \in Details, NEW t \in Steps, NEW n \in Seq(Byte),
         details' = [details EXCEPT !.name = n, !.step = t]
  PROVE  /\ details' \in Details /\ details'.step = t /\ details'.opcode = details.opcode
         /\ details'.name_length = details.name_length /\ details'.counter_value = details.counter_value
         /\ details'.payload_length = details.payload_length /\ details'.name = n
BY DEF Details

LEMMA SetPayload ==
  ASSUME details \in Details, NEW t \in Steps, NEW p \in Seq(Byte),
         details' = [details EXCEPT !.payload = p, !.step = t]
  PROVE  /\ details' \in Details /\ details'.step = t /\ details'.opcode = details.opcode
         /\ details'.payload_length = details.payload_length /\ details'.name = details.name /\ details'.payload = p
BY DEF Details

LEMMA StepNames ==
  /\ NoticeSteps \subseteq Steps
  /\ "header" \in Steps \ NoticeSteps
  /\ "protocol_version" \in Steps \ NoticeSteps
  /\ "call_counter_listeners" \in Steps \ NoticeSteps
  /\ "call_event_listeners" \in Steps \ NoticeSteps
  /\ "name_length" \in NoticeSteps
  /\ "counter_value" \in NoticeSteps
  /\ "payload_length" \in NoticeSteps
  /\ "name" \in NoticeSteps
  /\ "payload" \in NoticeSteps
BY DEF Steps, NoticeSteps

LEMMA ReadingFields ==
  ASSUME SketchOK,
         \/ process_header \/ process_version \/ process_name_length \/ process_counter_value
         \/ process_payload_length \/ process_name \/ process_payload
  PROVE  DetailsOK'
<1> USE StepNames
<1>0. details \in Details /\ Fits(details.payload_length)
      /\ (details.step \in NoticeSteps => details.opcode \in {event_triggered, counter_changed})
  BY DEF DetailsOK, SketchOK
<1>1. ASSUME NEW s, Reading(s)
      PROVE  /\ details.step = s /\ Input \in Seq(Byte) /\ Len(Input) = Needed
             /\ Len(Input) > 0 => Input[1] \in Byte /\ Input[1] \in Nat
  <2>1. details.step = s /\ can_process_input
    BY <1>1 DEF Reading, Processing
  <2>2. Input \in Seq(Byte) /\ Len(Input) = Needed
    BY <2>1, InputIs DEF SketchOK
  <2>3. Len(Input) > 0 => Input[1] \in Byte
    BY <2>2
  <2> QED BY <2>1, <2>2, <2>3, ByteIsNat
<1>2. ASSUME details' \in Details, Fits(details'.payload_length),
             details'.step \in NoticeSteps => details'.opcode \in {event_triggered, counter_changed}
      PROVE  DetailsOK'
  BY <1>2 DEF DetailsOK
<1>3. ASSUME details' \in Details, details'.opcode = details.opcode,
             details'.payload_length = details.payload_length,
             details.step \in NoticeSteps
      PROVE  DetailsOK'
  BY <1>0, <1>2, <1>3
<1>4. ASSUME process_header PROVE DetailsOK'
  <2> DEFINE o == Input[1] % 16
             t == CASE o = version -> "protocol_version"
                    [] o \in {event_triggered, counter_changed} -> "name_length"
                    [] OTHER -> "header"
  <2>1. Input[1] \in Nat
    BY <1>1, <1>4, NeededIs DEF process_header
  <2>2. o \in Nat
    BY <2>1
  <2>3. details' = [details EXCEPT !.opcode = o, !.step = t]
    BY <1>4 DEF process_header
  <2>4. t \in Steps /\ (t \in NoticeSteps => o \in {event_triggered, counter_changed})
    <3> HIDE DEF o
    <3>1. o = version => t = "protocol_version"
      BY DEF version, event_triggered, counter_changed
    <3>2. o # version /\ o \in {event_triggered, counter_changed} => t = "name_length"
      OBVIOUS
    <3>3. o # version /\ o \notin {event_triggered, counter_changed} => t = "header"
      OBVIOUS
    <3> HIDE DEF t
    <3> QED BY <3>1, <3>2, <3>3
  <2> HIDE DEF o, t
  <2>5. details' \in Details /\ details'.step = t /\ details'.opcode = o
        /\ details'.payload_length = details.payload_length
    BY <1>0, <2>2, <2>3, <2>4, SetOpcode
  <2> QED BY <1>0, <1>2, <2>4, <2>5
<1>5. ASSUME process_version PROVE DetailsOK'
  <2>1. details' = [details EXCEPT !.step = "header"]
    BY <1>5 DEF process_version
  <2>2. details' \in Details /\ details'.step = "header"
        /\ details'.payload_length = details.payload_length
    BY <1>0, <2>1, SetStep
  <2> QED BY <1>0, <1>2, <2>2
<1>6. ASSUME process_name_length PROVE DetailsOK'
  <2>1. Input[1] \in Byte /\ details.step \in NoticeSteps
    BY <1>1, <1>6, NeededIs DEF process_name_length
  <2>2. PICK t \in {"payload_length", "counter_value"} :
          details' = [details EXCEPT !.name_length = Input[1], !.step = t]
    BY <1>6 DEF process_name_length
  <2>3. t \in Steps
    BY <2>2
  <2>4. details' \in Details /\ details'.opcode = details.opcode
        /\ details'.payload_length = details.payload_length
    BY <1>0, <2>1, <2>2, <2>3, SetNameLength
  <2> QED BY <1>3, <2>1, <2>4
<1>7. ASSUME process_counter_value PROVE DetailsOK'
  <2>1. details.step = "counter_value" /\ Input \in Seq(Byte) /\ Len(Input) = 4
    BY <1>1, <1>7, NeededIs DEF process_counter_value
  <2>2. Number(Input) \in Nat
    BY <2>1, NumberOfFour
  <2>3. details' = [details EXCEPT !.counter_value = Number(Input), !.step = "name"]
    BY <1>7 DEF process_counter_value
  <2>4. details' \in Details /\ details'.opcode = details.opcode
        /\ details'.payload_length = details.payload_length
    BY <1>0, <2>2, <2>3, SetCounterValue
  <2> QED BY <1>3, <2>1, <2>4
<1>8. ASSUME process_payload_length PROVE DetailsOK'
  <2>1. details.step = "payload_length" /\ Input \in Seq(Byte) /\ Len(Input) = 2
    BY <1>1, <1>8, NeededIs DEF process_payload_length
  <2>2. Number(Input) \in Nat /\ Fits(Number(Input))
    BY <2>1, NumberOfTwo DEF Fits
  <2>3. details' = [details EXCEPT !.payload_length = Number(Input), !.step = "name"]
    BY <1>8 DEF process_payload_length
  <2>4. details' \in Details /\ details'.opcode = details.opcode
        /\ details'.payload_length = Number(Input)
    BY <1>0, <2>2, <2>3, SetPayloadLength
  <2> QED BY <1>0, <1>2, <2>1, <2>2, <2>4
<1>9. ASSUME process_name PROVE DetailsOK'
  <2>1. details.step \in NoticeSteps /\ Input \in Seq(Byte)
    BY <1>1, <1>9 DEF process_name
  <2>2. PICK t \in {"payload", "call_counter_listeners"} :
          details' = [details EXCEPT !.name = Input, !.step = t]
    BY <1>9 DEF process_name
  <2>3. t \in Steps
    BY <2>2
  <2>4. details' \in Details /\ details'.opcode = details.opcode
        /\ details'.payload_length = details.payload_length
    BY <1>0, <2>1, <2>2, <2>3, SetName
  <2> QED BY <1>3, <2>1, <2>4
<1>10. ASSUME process_payload PROVE DetailsOK'
  <2>1. details.step = "payload" /\ Input \in Seq(Byte)
    BY <1>1, <1>10 DEF process_payload
  <2>2. details' = [details EXCEPT !.payload = Input, !.step = "call_event_listeners"]
    BY <1>10 DEF process_payload
  <2>3. details' \in Details /\ details'.opcode = details.opcode
        /\ details'.payload_length = details.payload_length
    BY <1>0, <2>1, <2>2, SetPayload
  <2> QED BY <1>3, <2>1, <2>3
<1> QED BY <1>4, <1>5, <1>6, <1>7, <1>8, <1>9, <1>10

\* What happens to the calls of process().
LEMMA StackTop ==
  ASSUME StackOK, stack # <<>>
  PROVE  Len(stack) \in Nat \ {0} /\ Top = stack[Len(stack)] /\ Top \in Seq(Callback)
BY DEF StackOK, Top

LEMMA StackReplaced ==
  ASSUME StackOK, stack # <<>>, NEW list \in Seq(Callback), stack' = Replaced(list)
  PROVE  StackOK' /\ Len(stack') = Len(stack) /\ stack' # <<>> /\ Top' = list
<1>1. Len(stack) \in Nat \ {0} /\ stack \in [1..Len(stack) -> Seq(Callback)]
  BY DEF StackOK
<1>2. stack' \in Seq(Seq(Callback)) /\ Len(stack') = Len(stack) /\ stack'[Len(stack)] = list
  BY <1>1 DEF StackOK, Replaced
<1>3. stack' # <<>>
  BY <1>1, <1>2
<1> QED BY <1>2, <1>3 DEF StackOK, Top

LEMMA StackPushed ==
  ASSUME StackOK, stack' = Append(stack, <<>>), Len(stack) < MaxDepth
  PROVE  StackOK' /\ Len(stack') = Len(stack) + 1 /\ stack' # <<>> /\ Top' = <<>>
<1>1. <<>> \in Seq(Callback) /\ Len(stack) \in Nat
  BY DEF StackOK
<1>2. stack' \in Seq(Seq(Callback)) /\ Len(stack') = Len(stack) + 1
      /\ stack'[Len(stack) + 1] = <<>>
  BY <1>1 DEF StackOK
<1>3. stack' # <<>>
  BY <1>1, <1>2
<1>4. Len(stack') <= MaxDepth
  BY <1>1, <1>2, WindowNatural
<1> QED BY <1>2, <1>3, <1>4 DEF StackOK, Top

LEMMA ButLast ==
  ASSUME NEW S, NEW s \in Seq(S), s # <<>>
  PROVE  SubSeq(s, 1, Len(s) - 1) \in Seq(S) /\ Len(SubSeq(s, 1, Len(s) - 1)) = Len(s) - 1
<1> DEFINE n == Len(s) - 1
<1>1. n \in Nat /\ n <= Len(s)
  OBVIOUS
<1> HIDE DEF n
<1>2. SubSeq(s, 1, n) \in Seq(S) /\ Len(SubSeq(s, 1, n)) = n
  BY <1>1
<1> QED BY <1>2 DEF n

LEMMA StackPopped ==
  ASSUME StackOK, stack # <<>>, stack' = SubSeq(stack, 1, Len(stack) - 1)
  PROVE  StackOK' /\ Len(stack') = Len(stack) - 1
<1>1. Len(stack) \in Nat \ {0} /\ stack \in Seq(Seq(Callback))
  BY DEF StackOK
<1>2. stack' \in Seq(Seq(Callback)) /\ Len(stack') = Len(stack) - 1
  BY <1>1, ButLast
<1>3. Len(stack') <= MaxDepth
  BY <1>1, <1>2, WindowNatural DEF StackOK
<1> QED BY <1>2, <1>3 DEF StackOK

\* What the server may send, and its packet.
EventNotice(n) ==
  /\ n \in [op : {event_triggered}, name : Event, payload : Seq(Byte)]
  /\ n.name \in Seq(Byte)
  /\ Shifted(Len(n.payload), 1) < 256
  /\ EventLayout(packet(n), n.name, n.payload)

CounterNotice(n) ==
  /\ n \in [op : {counter_changed}, name : Counter, value : Nat]
  /\ n.name \in Seq(Byte)
  /\ Shifted(n.value, 3) < 256
  /\ CounterLayout(packet(n), n.name, n.value)

LEMMA NoticeIs ==
  ASSUME NEW n \in Notice
  PROVE  EventNotice(n) \/ CounterNotice(n)
<1>1. n.name \in Seq(Byte) /\ Len(n.name) < 256
  BY NoticesFit
<1>2. CASE n \in [op : {event_triggered}, name : Event, payload : Seq(Byte)]
           /\ Shifted(Len(n.payload), 1) < 256
  <2>1. n.op = event_triggered /\ n.payload \in Seq(Byte)
    BY <1>2
  <2>2. EventLayout(packet(n), n.name, n.payload)
    BY <1>1, <2>1, EventPacket
  <2> QED BY <1>1, <1>2, <2>2 DEF EventNotice
<1>3. CASE n \in [op : {counter_changed}, name : Counter, value : Nat]
           /\ Shifted(n.value, 3) < 256
  <2>1. n.op = counter_changed /\ n.value \in Nat
    BY <1>3
  <2>2. CounterLayout(packet(n), n.name, n.value)
    BY <1>1, <2>1, CounterPacket
  <2> QED BY <1>1, <1>3, <2>2 DEF CounterNotice
<1> QED BY <1>2, <1>3, NoticesFit

LEMMA PacketBytes ==
  ASSUME NEW n \in Notice
  PROVE  packet(n) \in Seq(Byte) /\ Len(packet(n)) \in Nat \ {0}
<1>1. CASE EventNotice(n)
  <2>1. Len(n.name) \in Nat /\ Len(n.payload) \in Nat
    BY <1>1 DEF EventNotice
  <2> QED BY <1>1, <2>1 DEF EventNotice, EventLayout
<1>2. CASE CounterNotice(n)
  <2>1. Len(n.name) \in Nat
    BY <1>2 DEF CounterNotice
  <2> QED BY <1>2, <2>1 DEF CounterNotice, CounterLayout
<1> QED BY <1>1, <1>2, NoticeIs

LEMMA SendTypes ==
  ASSUME SketchOK, NEW n \in Notice, Send(n), UNCHANGED <<arrived, taken>>
  PROVE  /\ StreamOK' /\ sent' \in Seq(Notice)
         /\ Len(stream') = Len(stream) + Len(packet(n))
<1>1. stream \in Seq(Byte) /\ stream' = stream \o packet(n) /\ packet(n) \in Seq(Byte)
  BY PacketBytes DEF SketchOK, StreamOK, Send
<1>2. stream' \in Seq(Byte) /\ Len(stream') = Len(stream) + Len(packet(n))
  BY <1>1, ConcatBytes
<1>3. Len(stream) \in Nat /\ Len(packet(n)) \in Nat
  BY <1>1
<1>4. StreamOK'
  BY <1>2, <1>3 DEF SketchOK, StreamOK
<1>5. sent' \in Seq(Notice)
  BY DEF SketchOK, HistoryOK, Send
<1> QED BY <1>2, <1>4, <1>5

\* The notice that a step looks up.
EventAsked   == [op |-> event_triggered, name |-> details.name, payload |-> details.payload]
CounterAsked == [op |-> counter_changed, name |-> details.name, value |-> details.counter_value]

LEMMA AskedTypes ==
  ASSUME DetailsOK
  PROVE  /\ EventAsked \in Noticed /\ CounterAsked \in Noticed
         /\ EventAsked.name = details.name /\ CounterAsked.name = details.name
BY DEF DetailsOK, Details, EventAsked, CounterAsked, Noticed

LEMMA CallingTypes ==
  ASSUME SubscriptionsInv, SketchOK, AtLoop, NEW notice \in Noticed, NEW N,
         Calling(notice, N), UNCHANGED <<network, sent>>
  PROVE  /\ SketchOK'
         /\ processed' = Append(processed, [notice |-> notice, at |-> taken]) /\ taken' = taken
         /\ Len(stack') = Len(stack) /\ stack' # <<>>
         /\ \/ details' = details /\ Top' # <<>>
            \/ details' = [details EXCEPT !.step = "header"] /\ stack' = stack
<1>0. stack # <<>> /\ taken' = taken
      /\ processed' = Append(processed, [notice |-> notice, at |-> taken])
  BY DEF AtLoop, Calling
<1>1. StreamOK' /\ HistoryOK'
  <2>1. taken \in Nat /\ UNCHANGED <<stream, arrived, taken, sent>>
    BY <1>0 DEF SketchOK, StreamOK, network
  <2>2. [notice |-> notice, at |-> taken] \in [notice : Noticed, at : Nat]
    BY <2>1
  <2>3. processed' \in Seq([notice : Noticed, at : Nat])
    BY <1>0, <2>2 DEF SketchOK, HistoryOK
  <2> QED BY <2>1, <2>3 DEF SketchOK, StreamOK, HistoryOK
<1>2. CASE notice.name \in Keys \cap N
  <2>1. stack' = Replaced(listeners[notice.name]) /\ details' = details
    BY <1>2 DEF Calling
  <2>2. listeners[notice.name] \in Seq(Callback) /\ listeners[notice.name] # <<>>
    BY <1>2 DEF SubscriptionsInv, Callbacks
  <2>3. StackOK' /\ Len(stack') = Len(stack) /\ stack' # <<>> /\ Top' # <<>>
    BY <1>0, <2>1, <2>2, StackReplaced DEF SketchOK
  <2>4. DetailsOK'
    BY <2>1 DEF SketchOK, DetailsOK
  <2> QED BY <1>0, <1>1, <2>1, <2>3, <2>4 DEF SketchOK
<1>3. CASE notice.name \notin Keys \cap N
  <2>1. stack' = stack /\ details' = [details EXCEPT !.step = "header"]
    BY <1>3 DEF Calling
  <2>2. details' \in Details /\ details'.step = "header"
        /\ details'.payload_length = details.payload_length
    BY <2>1, SetStep, StepNames DEF SketchOK, DetailsOK
  <2>3. DetailsOK'
    BY <2>2, StepNames DEF SketchOK, DetailsOK
  <2>4. StackOK'
    BY <2>1 DEF SketchOK, StackOK
  <2> QED BY <1>0, <1>1, <2>1, <2>3, <2>4 DEF SketchOK
<1> QED BY <1>2, <1>3

LEMMA ReturnTypes ==
  ASSUME SketchOK, listener_returns
  PROVE  /\ SketchOK'
         /\ Len(stack') = Len(stack) /\ stack' # <<>> /\ Top' = Tail(Top)
<1>1. stack # <<>> /\ Top # <<>>
  BY DEF listener_returns, Top
<1>2. Top \in Seq(Callback)
  BY <1>1, StackTop DEF SketchOK
<1>3. Tail(Top) \in Seq(Callback)
  BY <1>1, <1>2
<1>4. stack' = Replaced(Tail(Top)) /\ UNCHANGED <<network, taken, history, processed>>
  BY DEF listener_returns
<1>5. StackOK' /\ Len(stack') = Len(stack) /\ stack' # <<>> /\ Top' = Tail(Top)
  BY <1>1, <1>3, <1>4, StackReplaced DEF SketchOK
<1>6. StreamOK' /\ HistoryOK'
  BY <1>4 DEF SketchOK, StreamOK, HistoryOK, network, history
<1>7. DetailsOK'
  <2>1. CASE details' = details
    BY <2>1 DEF SketchOK, DetailsOK
  <2>2. CASE details' = [details EXCEPT !.step = "header"]
    <3>1. details' \in Details /\ details'.step = "header"
          /\ details'.payload_length = details.payload_length
      BY <2>2, SetStep, StepNames DEF SketchOK, DetailsOK
    <3> QED BY <3>1, StepNames DEF SketchOK, DetailsOK
  <2> QED BY <2>1, <2>2 DEF listener_returns
<1> QED BY <1>5, <1>6, <1>7 DEF SketchOK

\* What fetch does, of the loop or of a callback.
LEMMA CalledTypes ==
  ASSUME SketchOK, fetch \/ fetch_again
  PROVE  /\ SketchOK' /\ Len(stack') = Len(stack) + 1 /\ stack' # <<>> /\ Top' = <<>>
         /\ UNCHANGED <<subscriptions, network, taken, details, sent, processed, cut>>
<1>1. PICK depth : /\ Called(depth) /\ depth \in Nat /\ depth < MaxDepth
  BY WindowNatural DEF fetch, fetch_again
<1>2. Len(stack) < MaxDepth /\ stack' = Append(stack, <<>>)
      /\ UNCHANGED <<subscriptions, network, taken, details, sent, processed, cut>>
  BY <1>1 DEF Called
<1>3. StackOK' /\ Len(stack') = Len(stack) + 1 /\ stack' # <<>> /\ Top' = <<>>
  BY <1>2, StackPushed DEF SketchOK
<1>4. DetailsOK' /\ StreamOK' /\ HistoryOK'
  BY <1>2 DEF SketchOK, DetailsOK, StreamOK, HistoryOK, network
<1> QED BY <1>2, <1>3, <1>4 DEF SketchOK

\* What leaves the library, the stream and the history alone.
LEMMA UntouchedTypes ==
  ASSUME SketchOK, UNCHANGED untouched
  PROVE  SketchOK'
BY DEF SketchOK, DetailsOK, StreamOK, StackOK, HistoryOK, untouched, network, history

LEMMA SketchNext ==
  ASSUME SubscriptionsInv, SketchOK, [Next]_vars
  PROVE  SketchOK'
<1>1. ASSUME Methods PROVE SketchOK'
  <2>1. ASSUME NEW n \in Name, NEW cb \in Callback, untrack(n) \/ track(n, cb) \/ untrack_callback(n, cb)
        PROVE  SketchOK'
    BY <2>1, UntouchedTypes DEF untrack, track, untrack_callback
  <2>2. ASSUME NEW n \in Name, untrack(n) PROVE SketchOK'
    BY <2>2, UntouchedTypes DEF untrack
  <2>3. ASSUME set_namespace PROVE SketchOK'
    BY <2>3, UntouchedTypes DEF set_namespace
  <2> QED BY <1>1, <2>1, <2>2, <2>3, CalledTypes DEF Methods
<1>2. ASSUME \/ process_header \/ process_version \/ process_name_length \/ process_counter_value
             \/ process_payload_length \/ process_name \/ process_payload
      PROVE  SketchOK'
  <2>1. DetailsOK'
    BY <1>2, ReadingFields
  <2>2. PICK s : Reading(s)
    BY <1>2 DEF process_header, process_version, process_name_length, process_counter_value,
                process_payload_length, process_name, process_payload
  <2> QED BY <2>1, <2>2, ReadingTypes
<1>3. ASSUME call_event_listeners PROVE SketchOK'
  <2>1. AtLoop /\ Calling(EventAsked, Event) /\ UNCHANGED <<network, sent>>
    BY <1>3 DEF call_event_listeners, Processing, EventAsked, history
  <2> QED BY <2>1, AskedTypes, CallingTypes DEF SketchOK
<1>4. ASSUME call_counter_listeners PROVE SketchOK'
  <2>1. AtLoop /\ Calling(CounterAsked, Counter) /\ UNCHANGED <<network, sent>>
    BY <1>4 DEF call_counter_listeners, Processing, CounterAsked, history
  <2> QED BY <2>1, AskedTypes, CallingTypes DEF SketchOK
<1>5. ASSUME process_returns PROVE SketchOK'
  <2>1. stack # <<>> /\ stack' = SubSeq(stack, 1, Len(stack) - 1)
        /\ UNCHANGED <<network, taken, details, history, processed>>
    BY <1>5 DEF process_returns, AtLoop
  <2>2. StackOK'
    BY <2>1, StackPopped DEF SketchOK
  <2> QED BY <2>1, <2>2 DEF SketchOK, DetailsOK, StreamOK, HistoryOK, network, history
<1>6. ASSUME Step PROVE SketchOK'
  BY <1>2, <1>3, <1>4, <1>5, <1>6, CalledTypes, ReturnTypes DEF Step
<1>7. ASSUME Arrive PROVE SketchOK'
  <2>1. UNCHANGED <<stream, taken, details, stack, sent, processed>>
    BY <1>7 DEF Arrive, history
  <2>2. PICK n \in 1..Window - available : arrived + n <= Len(stream) /\ arrived' = arrived + n
    BY <1>7 DEF Arrive
  <2>3. StreamOK'
    BY <2>1, <2>2, WindowNatural DEF SketchOK, StreamOK, available
  <2> QED BY <2>1, <2>3 DEF SketchOK, DetailsOK, StackOK, HistoryOK
<1>8. ASSUME Break PROVE SketchOK'
  BY <1>8 DEF Break, SketchOK, DetailsOK, StreamOK, StackOK, HistoryOK, history
<1>9. ASSUME NEW n \in Notice, Send(n), UNCHANGED unheard PROVE SketchOK'
  <2>1. UNCHANGED <<arrived, taken, details, stack, processed>>
    BY <1>9 DEF unheard
  <2>2. StreamOK' /\ sent' \in Seq(Notice)
    BY <1>9, <2>1, SendTypes
  <2> QED BY <2>1, <2>2 DEF SketchOK, DetailsOK, StackOK, HistoryOK
<1>10. ASSUME NEW n \in Notice, Notify(n) \/ Greet(n) PROVE SketchOK'
  BY <1>9, <1>10 DEF Notify, Greet
<1>11. ASSUME Handle PROVE SketchOK'
  <2>1. UNCHANGED <<stream, sent, arrived, taken, details, stack, processed>>
    BY <1>11 DEF Handle, unheard
  <2> QED BY <2>1 DEF SketchOK, DetailsOK, StreamOK, StackOK, HistoryOK
<1>12. ASSUME UNCHANGED vars PROVE SketchOK'
  BY <1>12, UntouchedTypes DEF vars, untouched
<1> QED BY <1>1, <1>6, <1>7, <1>8, <1>10, <1>11, <1>12 DEF Next

\* linked, nested and cut are set to truth values only.
LEMMA FlagsNext ==
  ASSUME Flags, [Next]_vars
  PROVE  Flags'
<1> USE DEF Flags
<1>1. ASSUME UNCHANGED <<linked, nested, cut>> PROVE Flags'
  BY <1>1
<1>2. ASSUME UNCHANGED <<network, history, cut>> PROVE Flags'
  BY <1>1, <1>2 DEF network, history
<1>3. ASSUME Methods PROVE Flags'
  <2>1. ASSUME NEW n \in Name, untrack(n) PROVE Flags'
    BY <1>2, <2>1 DEF untrack, untouched
  <2>2. ASSUME NEW n \in Name, NEW cb \in Callback, track(n, cb) \/ untrack_callback(n, cb)
        PROVE  Flags'
    BY <1>2, <2>2 DEF track, untrack_callback, untouched
  <2>3. ASSUME fetch_again PROVE Flags'
    BY <2>3 DEF fetch_again, Called, network
  <2>4. ASSUME set_namespace PROVE Flags'
    BY <1>2, <2>4 DEF set_namespace, untouched
  <2> QED BY <1>3, <2>1, <2>2, <2>3, <2>4 DEF Methods
<1>4. ASSUME NEW s, Reading(s) PROVE Flags'
  BY <1>2, <1>4 DEF Reading, Processing
<1>5. ASSUME \/ process_header \/ process_version \/ process_name_length \/ process_counter_value
             \/ process_payload_length \/ process_name \/ process_payload
      PROVE  Flags'
  BY <1>4, <1>5 DEF process_header, process_version, process_name_length, process_counter_value,
                    process_payload_length, process_name, process_payload
<1>6. ASSUME call_event_listeners \/ call_counter_listeners PROVE Flags'
  BY <1>2, <1>6 DEF call_event_listeners, call_counter_listeners, Processing, Calling
<1>7. ASSUME listener_returns PROVE Flags'
  BY <1>7 DEF listener_returns, network, history
<1>8. ASSUME process_returns PROVE Flags'
  BY <1>2, <1>8 DEF process_returns
<1>9. ASSUME fetch PROVE Flags'
  BY <1>9 DEF fetch, Called, network
<1>10. ASSUME Arrive \/ Break PROVE Flags'
  BY <1>10 DEF Arrive, Break, history
<1>11. ASSUME Handle \/ \E n \in Notice : Notify(n) \/ Greet(n) PROVE Flags'
  BY <1>1, <1>11 DEF Handle, Notify, Greet, unheard
<1>12. ASSUME UNCHANGED vars PROVE Flags'
  BY <1>2, <1>12 DEF vars
<1> QED BY <1>3, <1>5, <1>6, <1>7, <1>8, <1>9, <1>10, <1>11, <1>12 DEF Next, Step

\* The server answers for counters only.
LEMMA ServerNext ==
  ASSUME ServerOK, [Next]_vars
  PROVE  ServerOK'
<1>1. placed' \in BOOLEAN
  BY NextSubscriptions, PlacedNext DEF ServerOK
<1>2. ASSUME owed' \subseteq Counter PROVE ServerOK'
  BY <1>1, <1>2 DEF ServerOK
<1>3. ASSUME UNCHANGED network PROVE ServerOK'
  BY <1>2, <1>3 DEF ServerOK, network
<1>4. ASSUME Methods PROVE UNCHANGED network
  <2>1. ASSUME NEW n \in Name, untrack(n) PROVE UNCHANGED network
    BY <2>1 DEF untrack, untouched
  <2>2. ASSUME NEW n \in Name, NEW cb \in Callback, track(n, cb) \/ untrack_callback(n, cb)
        PROVE  UNCHANGED network
    BY <2>2 DEF track, untrack_callback, untouched
  <2>3. ASSUME set_namespace \/ fetch_again PROVE UNCHANGED network
    BY <2>3 DEF set_namespace, untouched, fetch_again, Called
  <2> QED BY <1>4, <2>1, <2>2, <2>3 DEF Methods
<1>5. ASSUME NEW s, Reading(s) PROVE UNCHANGED network
  BY <1>5 DEF Reading, Processing
<1>6. ASSUME \/ process_header \/ process_version \/ process_name_length \/ process_counter_value
             \/ process_payload_length \/ process_name \/ process_payload
      PROVE  UNCHANGED network
  BY <1>5, <1>6 DEF process_header, process_version, process_name_length, process_counter_value,
                    process_payload_length, process_name, process_payload
<1>7. ASSUME \/ call_event_listeners \/ call_counter_listeners
             \/ listener_returns \/ process_returns \/ fetch \/ UNCHANGED vars
      PROVE  UNCHANGED network
  BY <1>7 DEF call_event_listeners, call_counter_listeners, Processing, listener_returns,
              process_returns, fetch, Called, vars
<1>8. ASSUME Arrive \/ Break \/ \E n \in Notice : Notify(n) PROVE ServerOK'
  BY <1>2, <1>8 DEF Arrive, Break, Notify, ServerOK
<1>9. ASSUME Handle PROVE ServerOK'
  BY <1>2, <1>9 DEF Handle, Greeted
<1>10. ASSUME NEW n \in Notice, Greet(n) PROVE ServerOK'
  BY <1>2, <1>10 DEF Greet, ServerOK
<1> QED BY <1>3, <1>4, <1>6, <1>7, <1>8, <1>9, <1>10 DEF Next, Step

LEMMA SketchInit == Init => SubscriptionsInv /\ SketchOK /\ Flags /\ ServerOK
<1> SUFFICES ASSUME Init PROVE SubscriptionsInv /\ SketchOK /\ Flags /\ ServerOK
  OBVIOUS
<1>1. SubscriptionsInv
  BY SubscriptionsInit DEF Init
<1>2. Flags /\ ServerOK
  BY DEF Init, Flags, ServerOK
<1>3. stream \in Seq(Byte) /\ Len(stream) = 2
  <2>1. version \in Byte /\ protocol_version \in Byte
    BY IsByte DEF version, protocol_version
  <2> QED BY <2>1 DEF Init, version_packet
<1>4. StreamOK
  BY <1>3, WindowNatural DEF Init, StreamOK
<1>5. DetailsOK
  <2>1. 0 \in Byte /\ <<>> \in Seq(Byte)
    BY IsByte
  <2>2. details \in Details /\ details.step = "header" /\ details.payload_length = 0
    BY <2>1, StepNames DEF Init, Details, version
  <2>3. Fits(0)
    BY DEF Fits
  <2> QED BY <2>2, <2>3, StepNames DEF DetailsOK
<1>6. StackOK
  BY WindowNatural DEF Init, StackOK
<1>7. HistoryOK
  BY DEF Init, HistoryOK
<1> QED BY <1>1, <1>2, <1>4, <1>5, <1>6, <1>7 DEF SketchOK

SketchInv == SubscriptionsInv /\ SketchOK

LEMMA SketchInvNext == SketchInv /\ [Next]_vars => SketchInv'
BY NextSubscriptions, SubscriptionsNext, SketchNext DEF SketchInv

\* Every variable keeps its type, and no step reads more than the WiFiClient holds,
\* also when a callback that fetches has made the library lose the packets' bounds;
\* for any names, notices, window and depth.
THEOREM ArduinoTypeCorrect == Spec => []TypeOK
<1>1. Init => SketchInv /\ Flags /\ ServerOK
  BY SketchInit DEF SketchInv
<1>2. SketchInv /\ Flags /\ ServerOK /\ [Next]_vars => (SketchInv /\ Flags /\ ServerOK)'
  BY SketchInvNext, FlagsNext, ServerNext
<1>3. SketchInv /\ Flags /\ ServerOK => TypeOK
  BY SketchIsTypeOK DEF SketchInv
<1> QED BY <1>1, <1>2, <1>3, PTL DEF Spec

-----------------------------------------------------------------------------
(***************************************************************************)
(* The order of notices.  Done of them have had their listeners looked up. *)
(***************************************************************************)
Done == Place(Len(processed))

LEMMA PlaceIs ==
  ASSUME NEW i \in Nat
  PROVE  /\ IsFiniteSet({j \in 1..i : First(j)}) /\ Place(i) \in Nat
         /\ i = 0 => Place(i) = 0
         /\ i > 0 => Place(i) > 0
<1> DEFINE S == {j \in 1..i : First(j)}
<1>1. IsFiniteSet(1..i) /\ S \subseteq 1..i
  BY FS_Interval
<1>2. IsFiniteSet(S) /\ Cardinality(S) \in Nat
  BY <1>1, FS_Subset, FS_CardinalityType
<1>3. i = 0 => S = {}
  OBVIOUS
<1>4. i > 0 => 1 \in S
  BY DEF First
<1>5. Cardinality(S) = 0 <=> S = {}
  BY <1>2, FS_EmptySet
<1>6. Place(i) = Cardinality(S)
  BY DEF Place
<1> HIDE DEF S
<1>7. i > 0 => S # {}
  BY <1>4
<1> QED BY <1>2, <1>3, <1>5, <1>6, <1>7 DEF S

\* A notice is added to those processed.
LEMMA PlaceNext ==
  ASSUME HistoryOK, NEW r, processed' = Append(processed, r),
         NEW n \in Nat, n = Len(processed)
  PROVE  /\ \A i \in 1..n : First(i)' = First(i) /\ Place(i)' = Place(i)
         /\ Done' = IF First(n + 1)' THEN Done + 1 ELSE Done
         /\ First(n + 1)' <=> (n = 0 \/ r.at # processed[n].at)
<1> DEFINE S(i) == {j \in 1..i : First(j)}
           T(i) == {j \in 1..i : First(j)'}
<1>1. n \in Nat /\ Len(processed') = n + 1 /\ processed'[n + 1] = r
      /\ \A i \in 1..n : processed'[i] = processed[i]
  BY DEF HistoryOK
<1>2. ASSUME NEW i \in 1..n PROVE First(i)' <=> First(i)
  <2>1. i = 1 \/ i - 1 \in 1..n
    BY <1>1
  <2> QED BY <1>1, <2>1 DEF First
<1>3. \A i \in 1..n : T(i) = S(i)
  <2> SUFFICES ASSUME NEW i \in 1..n, NEW j \in 1..i PROVE First(j)' <=> First(j)
    OBVIOUS
  <2>1. j \in 1..n
    BY <1>1
  <2> QED BY <1>2, <2>1
<1>4. \A i \in 1..n : Place(i)' = Place(i)
  BY <1>3 DEF Place
<1>5. First(n + 1)' <=> (n = 0 \/ r.at # processed[n].at)
  <2>1. CASE n = 0
    BY <2>1 DEF First
  <2>2. CASE n > 0
    <3>1. n + 1 # 1 /\ n + 1 - 1 = n /\ n \in 1..n /\ n # 0
      BY <1>1, <2>2
    <3>2. First(n + 1)' <=> processed'[n + 1].at # processed'[n + 1 - 1].at
      BY <3>1 DEF First
    <3>3. processed'[n + 1 - 1] = processed[n]
      BY <1>1, <3>1
    <3> QED BY <1>1, <3>1, <3>2, <3>3
  <2> QED BY <1>1, <2>1, <2>2
<1>6. Done' = Cardinality(T(n + 1)) /\ Done = Cardinality(S(n))
  BY <1>1 DEF Done, Place
<1>7. T(n + 1) = S(n) \cup (IF First(n + 1)' THEN {n + 1} ELSE {})
  <2>1. \A j : j \in 1..n + 1 <=> j \in 1..n \/ j = n + 1
    BY <1>1
  <2>2. \A j : j \in T(n + 1) <=> (j \in 1..n /\ First(j)) \/ (j = n + 1 /\ First(n + 1)')
    BY <1>2, <2>1
  <2>3. \A j : j \in S(n) <=> j \in 1..n /\ First(j)
    OBVIOUS
  <2> HIDE DEF T, S
  <2>4. CASE First(n + 1)'
    BY <2>2, <2>3, <2>4
  <2>5. CASE ~First(n + 1)'
    BY <2>2, <2>3, <2>5
  <2> QED BY <2>4, <2>5
<1>8. IsFiniteSet(S(n)) /\ Cardinality(S(n)) \in Nat /\ n + 1 \notin S(n)
  <2>1. IsFiniteSet(S(n)) /\ Place(n) \in Nat
    BY <1>1, PlaceIs
  <2>2. n + 1 \notin 1..n
    BY <1>1
  <2> QED BY <2>1, <2>2 DEF Place
<1>9. Cardinality(S(n) \cup {n + 1}) = Cardinality(S(n)) + 1
  <2> HIDE DEF S
  <2> QED BY <1>8, FS_AddElement
<1>10. Done' = IF First(n + 1)' THEN Done + 1 ELSE Done
  <2>1. CASE First(n + 1)'
    BY <1>6, <1>7, <1>9, <2>1
  <2>2. CASE ~First(n + 1)'
    BY <1>6, <1>7, <2>2
  <2> QED BY <2>1, <2>2
<1>11. \A i \in 1..n : First(i)' = First(i)
  BY <1>2 DEF First
<1> QED BY <1>4, <1>5, <1>10, <1>11

LEMMA DoneKept ==
  ASSUME UNCHANGED processed
  PROVE  Done' = Done /\ \A i : Place(i)' = Place(i) /\ First(i)' = First(i)
<1>1. \A i : First(i)' = First(i)
  BY DEF First
<1> QED BY <1>1 DEF Done, Place, First

\* While no callback calls fetch, one process() runs, and what is called are the
\* listeners of the notice read last.
CallSteps == {"call_counter_listeners", "call_event_listeners"}

NestInv ==
  /\ cut => nested
  /\ nested \/ Len(stack) <= 1
  /\ nested \/ Top = <<>> \/ details.step \in CallSteps
  /\ details.step \in CallSteps => stack # <<>>

LEMMA NestKept ==
  ASSUME NestInv, UNCHANGED <<stack, details, nested, cut>>
  PROVE  NestInv'
BY DEF NestInv, Top

LEMMA CallNeedsNothing ==
  ASSUME SketchOK, details.step \in CallSteps
  PROVE  can_process_input
BY NeededIs DEF CallSteps, can_process_input, available, SketchOK, StreamOK

LEMMA CallStepNames ==
  /\ CallSteps \subseteq Steps /\ "header" \notin CallSteps
  /\ NoticeSteps \cap CallSteps = {}
BY DEF CallSteps, NoticeSteps, Steps

LEMMA NestReading ==
  ASSUME SketchOK, NestInv, NEW s, Reading(s)
  PROVE  NestInv'
<1>1. UNCHANGED <<stack, nested, cut>> /\ stack # <<>> /\ Top = <<>>
  BY DEF Reading, Processing, AtLoop, history
<1>2. Top' = <<>>
  BY <1>1 DEF Top
<1> QED BY <1>1, <1>2 DEF NestInv

LEMMA NestCalling ==
  ASSUME SketchInv, NestInv, AtLoop, details.step \in CallSteps, NEW notice \in Noticed, NEW N,
         Calling(notice, N), UNCHANGED <<network, history>>
  PROVE  NestInv'
<1>1. /\ Len(stack') = Len(stack) /\ stack' # <<>>
      /\ \/ details' = details /\ Top' # <<>>
         \/ details' = [details EXCEPT !.step = "header"] /\ stack' = stack
  BY CallingTypes DEF SketchInv, history
<1>2. UNCHANGED <<nested, cut>> /\ stack # <<>> /\ Top = <<>>
  BY DEF AtLoop, Calling, history
<1>3. CASE details' = details
  BY <1>1, <1>2, <1>3 DEF NestInv
<1>4. CASE details' = [details EXCEPT !.step = "header"] /\ stack' = stack
  <2>1. Top' = <<>>
    BY <1>2, <1>4 DEF Top
  <2> QED BY <1>1, <1>2, <2>1 DEF NestInv
<1> QED BY <1>1, <1>3, <1>4

LEMMA NestReturns ==
  ASSUME SketchInv, NestInv, listener_returns
  PROVE  NestInv' /\ (details.step \in {"header"} \cup CallSteps \/ Tail(Top) # <<>> \/ cut')
<1>1. Len(stack') = Len(stack) /\ stack' # <<>> /\ Top' = Tail(Top)
  BY ReturnTypes DEF SketchInv
<1>2. UNCHANGED nested /\ Top # <<>>
  BY DEF listener_returns, history
<1>3. CASE Tail(Top) = <<>>
  <2>1. cut' = (cut \/ details.step \notin {"header"} \cup CallSteps)
    BY <1>3 DEF listener_returns, CallSteps
  <2>2. nested \/ details.step \in CallSteps
    BY <1>2 DEF NestInv
  <2>3. cut' => nested
    BY <2>1, <2>2 DEF NestInv
  <2> QED BY <1>1, <1>2, <1>3, <2>1, <2>3 DEF NestInv
<1>4. CASE Tail(Top) # <<>>
  <2>1. details' = details /\ cut' = cut
    BY <1>4 DEF listener_returns
  <2> QED BY <1>1, <1>2, <1>4, <2>1 DEF NestInv
<1> QED BY <1>3, <1>4

LEMMA NestNext ==
  ASSUME SketchInv, NestInv, [Next]_vars
  PROVE  NestInv'
<1>1. ASSUME Methods PROVE NestInv'
  <2>1. ASSUME NEW n \in Name, NEW cb \in Callback, untrack(n) \/ track(n, cb) \/ untrack_callback(n, cb)
        PROVE  NestInv'
    BY <2>1, NestKept DEF untrack, track, untrack_callback, untouched, history
  <2>2. ASSUME NEW n \in Name, untrack(n) PROVE NestInv'
    BY <2>2, NestKept DEF untrack, untouched, history
  <2>3. ASSUME fetch_again PROVE NestInv'
    <3>1. stack' # <<>> /\ Top' = <<>> /\ UNCHANGED <<details, cut>>
      BY <2>3, CalledTypes DEF SketchInv
    <3>2. PICK depth \in 1..MaxDepth - 1 : nested' = (nested \/ depth > 0)
      BY <2>3 DEF fetch_again, Called
    <3>3. depth > 0
      BY <3>2, WindowNatural
    <3>4. nested'
      BY <3>2, <3>3, Zenon
    <3> QED BY <3>1, <3>4 DEF NestInv
  <2>4. ASSUME set_namespace PROVE NestInv'
    BY <2>4, NestKept DEF set_namespace, untouched, history
  <2> QED BY <1>1, <2>1, <2>2, <2>3, <2>4 DEF Methods
<1>2. ASSUME NEW s, Reading(s) PROVE NestInv'
  BY <1>2, NestReading DEF SketchInv
<1>3. ASSUME \/ process_header \/ process_version \/ process_name_length \/ process_counter_value
             \/ process_payload_length \/ process_name \/ process_payload
      PROVE  NestInv'
  BY <1>2, <1>3 DEF process_header, process_version, process_name_length, process_counter_value,
                    process_payload_length, process_name, process_payload
<1>4. ASSUME call_event_listeners PROVE NestInv'
  <2>1. AtLoop /\ Calling(EventAsked, Event) /\ UNCHANGED <<network, history>>
        /\ details.step \in CallSteps
    BY <1>4 DEF call_event_listeners, Processing, EventAsked, CallSteps
  <2> QED BY <2>1, AskedTypes, NestCalling DEF SketchOK, SketchInv
<1>5. ASSUME call_counter_listeners PROVE NestInv'
  <2>1. AtLoop /\ Calling(CounterAsked, Counter) /\ UNCHANGED <<network, history>>
        /\ details.step \in CallSteps
    BY <1>5 DEF call_counter_listeners, Processing, CounterAsked, CallSteps
  <2> QED BY <2>1, AskedTypes, NestCalling DEF SketchOK, SketchInv
<1>6. ASSUME listener_returns PROVE NestInv'
  BY <1>6, NestReturns
<1>7. ASSUME process_returns PROVE NestInv'
  <2>1. /\ stack # <<>> /\ stack' = SubSeq(stack, 1, Len(stack) - 1)
        /\ UNCHANGED <<details, nested, cut>> /\ ~can_process_input
    BY <1>7 DEF process_returns, AtLoop, history
  <2>2. StackOK' /\ Len(stack') = Len(stack) - 1 /\ Len(stack) \in Nat
    BY <2>1, StackPopped DEF SketchInv, SketchOK, StackOK
  <2>3. details.step \notin CallSteps
    BY <2>1, CallNeedsNothing DEF SketchInv
  <2>4. nested \/ stack' = <<>>
    BY <2>2 DEF NestInv, StackOK
  <2>5. stack' = <<>> => Top' = <<>>
    BY DEF Top
  <2>6. nested \/ Len(stack') <= 1
    BY <2>2 DEF NestInv
  <2> QED BY <2>1, <2>3, <2>4, <2>5, <2>6 DEF NestInv
<1>8. ASSUME fetch PROVE NestInv'
  <2>1. Len(stack') = 1 /\ stack' # <<>> /\ Top' = <<>> /\ UNCHANGED <<details, cut>>
    BY <1>8, CalledTypes DEF SketchInv, fetch, Called
  <2>2. nested => nested'
    BY <1>8, Zenon DEF fetch, Called
  <2> QED BY <2>1, <2>2 DEF NestInv
<1>9. ASSUME Arrive \/ Break PROVE NestInv'
  BY <1>9, NestKept DEF Arrive, Break, history
<1>10. ASSUME Handle \/ \E n \in Notice : Notify(n) \/ Greet(n) PROVE NestInv'
  BY <1>10, NestKept DEF Handle, Notify, Greet, unheard
<1>11. ASSUME UNCHANGED vars PROVE NestInv'
  BY <1>11, NestKept DEF vars, history
<1> QED BY <1>1, <1>3, <1>4, <1>5, <1>6, <1>7, <1>8, <1>9, <1>10, <1>11 DEF Next, Step

(***************************************************************************)
(* B gives where each packet of the stream ends.  As long as no step was   *)
(* set back, the notices processed are those that end at B[1], B[2], ...,  *)
(* and the step, the fields read and the place in the stream are those of  *)
(* the packet after them: the bytes that a step reads are the field that   *)
(* the server wrote there.                                                 *)
(***************************************************************************)
Frames(B) ==
  /\ B \in [0..Len(sent) -> 2..Len(stream)]
  /\ B[0] = 2 /\ B[Len(sent)] = Len(stream)
  /\ stream[1] = version
  /\ \A i \in 0..Len(sent) - 1 :
       /\ B[i + 1] = B[i] + Len(packet(sent[i + 1]))
       /\ \A j \in 1..Len(packet(sent[i + 1])) : stream[B[i] + j] = packet(sent[i + 1])[j]

Past(B) ==
  /\ \A i \in 1..Len(processed) :
       Place(i) \in 1..Len(sent) /\ processed[i] = [notice |-> sent[Place(i)], at |-> B[Place(i)]]
  /\ nested \/ \A i \in 1..Len(processed) : First(i)

Now == sent[Done + 1]

Within(B, o) == Done < Len(sent) /\ taken = B[Done] + o

NameKnown == details.opcode = Now.op /\ details.name_length = Len(Now.name)

\* Where the m-th notice has been read and waits for its lookup, or its listeners
\* are called.
Read(B, m) ==
  /\ m \in 1..Len(sent) /\ taken = B[m]
  /\ details.step = "call_event_listeners" => sent[m] = EventAsked
  /\ details.step = "call_counter_listeners" => sent[m] = CounterAsked
  /\ \/ m = Done /\ (nested \/ ~AtLoop)
     \/ m = Done + 1 /\ AtLoop

Here(B) ==
  /\ details.step = "header" => (taken = B[Done] \/ (taken = 0 /\ Done = 0))
  /\ details.step = "protocol_version" => taken = 1 /\ Done = 0
  /\ details.step = "name_length" => Within(B, 1) /\ details.opcode = Now.op
  /\ details.step = "counter_value" => Within(B, 2) /\ NameKnown /\ Now.op = counter_changed
  /\ details.step = "payload_length" => Within(B, 2) /\ NameKnown /\ Now.op = event_triggered
  /\ details.step = "name" =>
       /\ NameKnown
       /\ \/ /\ Now.op = event_triggered /\ Within(B, 4)
             /\ details.payload_length = Len(Now.payload)
          \/ /\ Now.op = counter_changed /\ Within(B, 6)
             /\ details.counter_value = Now.value
  /\ details.step = "payload" =>
       /\ Now.op = event_triggered /\ Within(B, 4 + Len(Now.name))
       /\ details.payload_length = Len(Now.payload) /\ details.name = Now.name
  /\ details.step \in CallSteps => \E m \in {Done, Done + 1} : Read(B, m)

OrderInv == \E B : Frames(B) /\ (cut \/ (Past(B) /\ Here(B)))

LEMMA DoneBound ==
  ASSUME SketchOK, NEW B, Frames(B), Past(B)
  PROVE  /\ Done \in 0..Len(sent) /\ B[Done] \in Nat
         /\ Len(processed) = 0 => Done = 0
         /\ Len(processed) # 0 =>
              Done \in 1..Len(sent) /\ processed[Len(processed)].at = B[Done]
<1> DEFINE n == Len(processed)
<1>1. n \in Nat /\ Len(sent) \in Nat
  BY DEF SketchOK, HistoryOK
<1>2. Done = Place(n)
  BY DEF Done
<1> HIDE DEF n
<1>3. CASE n = 0
  <2>1. Done = 0
    BY <1>2, <1>3, PlaceIs
  <2>2. 0 \in 0..Len(sent)
    BY <1>1
  <2> QED BY <1>3, <2>1, <2>2 DEF Frames, n
<1>4. CASE n # 0
  <2>1. n \in 1..n
    BY <1>1, <1>4
  <2>2. Place(n) \in 1..Len(sent)
        /\ processed[n] = [notice |-> sent[Place(n)], at |-> B[Place(n)]]
    BY <2>1 DEF Past, n
  <2>3. Place(n) \in 0..Len(sent)
    BY <1>1, <2>2
  <2> QED BY <1>2, <1>4, <2>2, <2>3 DEF Frames, n
<1> QED BY <1>3, <1>4

\* A step that reads inside the next packet reads what the server wrote there.
LEMMA FieldRead ==
  ASSUME SketchOK, can_process_input, NEW B, Frames(B), Past(B),
         NEW o \in Nat, Within(B, o), o + Needed <= Len(packet(Now))
  PROVE  /\ Now \in Notice
         /\ Input \in Seq(Byte) /\ Len(Input) = Needed
         /\ \A i \in 1..Needed : Input[i] = packet(Now)[o + i]
<1>1. Done \in 0..Len(sent) - 1 /\ Done \in Nat /\ Len(sent) \in Nat
  BY DoneBound DEF Within, SketchOK, HistoryOK
<1>2. Now \in Notice
  BY <1>1 DEF Now, SketchOK, HistoryOK
<1>3. Len(packet(Now)) \in Nat /\ Needed \in Nat /\ taken = B[Done] + o /\ B[Done] \in Nat
  BY <1>2, PacketBytes, NeededNat, DoneBound DEF SketchOK, Within
<1>4. Input \in Seq(Byte) /\ Len(Input) = Needed
      /\ \A i \in 1..Needed : Input[i] = stream[taken + i]
  BY InputIs DEF SketchOK
<1>5. \A j \in 1..Len(packet(Now)) : stream[B[Done] + j] = packet(Now)[j]
  BY <1>1 DEF Frames, Now
<1>6. ASSUME NEW i \in 1..Needed PROVE stream[taken + i] = packet(Now)[o + i]
  <2>1. o + i \in 1..Len(packet(Now)) /\ taken + i = B[Done] + (o + i)
    BY <1>3
  <2> QED BY <1>5, <2>1
<1> QED BY <1>2, <1>4, <1>6

LEMMA OrderKept ==
  ASSUME NEW B, UNCHANGED <<stream, sent, processed, taken, details>>,
         nested => nested', details.step \in CallSteps => UNCHANGED stack
  PROVE  /\ Frames(B) => Frames(B)'
         /\ Past(B) => Past(B)'
         /\ Past(B) /\ Here(B) => Here(B)'
<1>1. Done' = Done /\ \A i : Place(i)' = Place(i) /\ First(i)' = First(i)
  BY DoneKept
<1>2. Frames(B) => Frames(B)'
  BY DEF Frames
<1>3. Past(B) => Past(B)'
  BY <1>1 DEF Past
<1>4. Now' = Now /\ NameKnown' = NameKnown /\ \A o : Within(B, o)' = Within(B, o)
  BY <1>1 DEF Now, NameKnown, Within
<1>5. ASSUME details.step \in CallSteps, NEW m, Read(B, m) PROVE Read(B, m)'
  <2>1. AtLoop' = AtLoop
    BY <1>5 DEF AtLoop, Top
  <2> QED BY <1>1, <1>5, <2>1 DEF Read, EventAsked, CounterAsked
<1>6. Here(B) => Here(B)'
  BY <1>1, <1>4, <1>5 DEF Here
<1> QED BY <1>2, <1>3, <1>6

LEMMA Appended ==
  ASSUME NEW S, NEW s \in Seq(S), NEW x \in S, NEW k \in Nat, k = Len(s)
  PROVE  /\ Append(s, x) \in Seq(S) /\ Len(Append(s, x)) = k + 1
         /\ Append(s, x)[k + 1] = x
         /\ \A i \in 1..k : Append(s, x)[i] = s[i]
OBVIOUS

\* A packet is sent: it ends where the stream does.
Extended(B, k, l) == [i \in 0..k + 1 |-> IF i <= k THEN B[i] ELSE B[k] + l]

LEMMA FramesSent ==
  ASSUME SketchOK, NEW n \in Notice, Send(n), NEW B, Frames(B),
         NEW k \in Nat, k = Len(sent), NEW C, C = Extended(B, k, Len(packet(n)))
  PROVE  /\ Frames(C)'
         /\ \A i \in 0..k : C[i] = B[i]
         /\ Len(sent') = k + 1 /\ \A i \in 1..k : sent'[i] = sent[i]
<1> DEFINE p == packet(n)
           l == Len(p)
           e == Len(stream)
<1>1. p \in Seq(Byte) /\ l \in Nat /\ e \in Nat /\ stream \in Seq(Byte) /\ stream' = stream \o p
  BY PacketBytes DEF SketchOK, StreamOK, Send
<1>2. /\ Len(sent') = k + 1 /\ sent'[k + 1] = n
      /\ \A i \in 1..k : sent'[i] = sent[i]
  BY Appended DEF SketchOK, HistoryOK, Send
<1>3. /\ Len(stream') = e + l
      /\ \A i \in 1..e : stream'[i] = stream[i]
      /\ \A i \in 1..l : stream'[e + i] = p[i]
  BY <1>1, ConcatBytes
<1>4. /\ B \in [0..k -> 2..e] /\ B[0] = 2 /\ B[k] = e /\ stream[1] = version
      /\ \A i \in 0..k - 1 : /\ B[i + 1] = B[i] + Len(packet(sent[i + 1]))
                             /\ \A j \in 1..Len(packet(sent[i + 1])) :
                                  stream[B[i] + j] = packet(sent[i + 1])[j]
  BY DEF Frames
<1>5. \A i \in 1..k : sent[i] \in Notice
  BY DEF SketchOK, HistoryOK
<1> HIDE DEF p, l, e
<1>6. C = [i \in 0..k + 1 |-> IF i <= k THEN B[i] ELSE B[k] + l]
  BY DEF Extended, l, p
<1>7. \A i \in 0..k : C[i] = B[i] /\ B[i] \in 2..e
  <2>1. \A i \in 0..k : i \in 0..k + 1 /\ i <= k
    OBVIOUS
  <2> QED BY <1>4, <1>6, <2>1
<1>8. C[k + 1] = e + l
  <2>1. k + 1 \in 0..k + 1 /\ ~(k + 1 <= k)
    OBVIOUS
  <2> QED BY <1>4, <1>6, <2>1
<1>9. C \in [0..k + 1 -> 2..e + l]
  <2>1. e >= 2
    BY <1>1, <1>7
  <2>2. \A i \in 0..k + 1 : i \in 0..k \/ i = k + 1
    OBVIOUS
  <2>3. e \in Nat /\ l \in Nat
    BY <1>1
  <2>4. \A x \in 2..e : x \in 2..e + l
    BY <2>3
  <2>5. \A i \in 0..k : C[i] \in 2..e + l
    BY <1>7, <2>4
  <2>6. C[k + 1] \in 2..e + l
    BY <1>8, <2>1, <2>3
  <2>7. \A i \in 0..k + 1 : C[i] \in 2..e + l
    BY <2>2, <2>5, <2>6
  <2> QED BY <1>6, <2>7
<1>10. C[0] = 2 /\ stream'[1] = version
  BY <1>1, <1>3, <1>4, <1>7
<1>11. ASSUME NEW i \in 0..k
       PROVE  /\ C[i + 1] = C[i] + Len(packet(sent'[i + 1]))
              /\ \A j \in 1..Len(packet(sent'[i + 1])) : stream'[C[i] + j] = packet(sent'[i + 1])[j]
  <2>1. CASE i = k
    <3>1. C[i] = e /\ sent'[i + 1] = n /\ packet(n) = p
      BY <1>2, <1>4, <1>7, <2>1 DEF p
    <3> QED BY <1>3, <1>8, <2>1, <3>1 DEF l
  <2>2. CASE i # k
    <3>1. i \in 0..k - 1 /\ i + 1 \in 1..k /\ i + 1 \in 0..k
      BY <2>2
    <3>2. sent'[i + 1] = sent[i + 1] /\ C[i] = B[i] /\ C[i + 1] = B[i + 1]
          /\ sent[i + 1] \in Notice
      BY <1>2, <1>5, <1>7, <3>1
    <3> DEFINE q == packet(sent[i + 1])
               b == B[i]
    <3>3. Len(q) \in Nat /\ b \in Nat /\ b + Len(q) <= e
      <4>1. Len(q) \in Nat
        BY <3>2, PacketBytes
      <4>2. B[i + 1] = b + Len(q) /\ B[i + 1] \in 2..e /\ b \in 2..e
        BY <1>4, <1>7, <3>1
      <4> HIDE DEF q, b
      <4> QED BY <1>1, <4>1, <4>2
    <3>4. \A j \in 1..Len(q) : stream[b + j] = q[j]
      BY <1>4, <3>1
    <3> HIDE DEF q, b
    <3>5. \A j \in 1..Len(q) : b + j \in 1..e
      BY <1>1, <3>3
    <3>6. \A j \in 1..Len(q) : stream'[b + j] = q[j]
      BY <1>3, <3>4, <3>5
    <3> QED BY <1>4, <3>1, <3>2, <3>6 DEF q, b
  <2> QED BY <2>1, <2>2
<1>12. Frames(C)'
  <2>1. k + 1 - 1 = k
    OBVIOUS
  <2> QED BY <1>2, <1>3, <1>8, <1>9, <1>10, <1>11, <2>1 DEF Frames
<1> QED BY <1>2, <1>7, <1>12

LEMMA OrderSent ==
  ASSUME SketchOK, NEW n \in Notice, Send(n), UNCHANGED unheard, NEW B, Frames(B)
  PROVE  \E C : Frames(C)' /\ (Past(B) /\ Here(B) => Past(C)' /\ Here(C)')
<1>1. PICK k \in Nat : k = Len(sent)
  BY DEF SketchOK, HistoryOK
<1>2. PICK C : C = Extended(B, k, Len(packet(n)))
  OBVIOUS
<1>3. /\ Frames(C)'
      /\ \A i \in 0..k : C[i] = B[i]
      /\ Len(sent') = k + 1 /\ \A i \in 1..k : sent'[i] = sent[i]
  BY <1>1, <1>2, FramesSent
<1> SUFFICES ASSUME Past(B), Here(B) PROVE Past(C)' /\ Here(C)'
  BY <1>3
<1>4. UNCHANGED <<taken, details, stack, processed, nested>>
  BY DEF unheard
<1>5. Done' = Done /\ \A i : Place(i)' = Place(i) /\ First(i)' = First(i)
  BY <1>4, DoneKept
<1>6. Done \in 0..k
  BY <1>1, DoneBound
<1>7. Past(C)'
  <2>1. ASSUME NEW i \in 1..Len(processed)
        PROVE  Place(i)' \in 1..k + 1 /\ sent'[Place(i)'] = sent[Place(i)] /\ C[Place(i)'] = B[Place(i)]
    <3>1. Place(i) \in 1..k
      BY <1>1 DEF Past
    <3> QED BY <1>3, <1>5, <3>1
  <2> QED BY <1>3, <1>4, <1>5, <2>1 DEF Past
<1>8. C[Done] = B[Done]
  BY <1>3, <1>6
<1>9. \A o : Within(B, o) => Within(C, o)' /\ Now' = Now /\ NameKnown' = NameKnown
  <2>1. Done < k => Done' < Len(sent') /\ sent'[Done + 1] = sent[Done + 1]
    BY <1>1, <1>3, <1>5, <1>6
  <2> QED BY <1>1, <1>4, <1>5, <1>8, <2>1 DEF Within, Now, NameKnown
<1>10. ASSUME NEW m, Read(B, m) PROVE Read(C, m)'
  <2>1. m \in 1..k
    BY <1>1, <1>10 DEF Read
  <2>2. m \in 1..k + 1 /\ C[m] = B[m] /\ sent'[m] = sent[m]
    BY <1>3, <2>1
  <2>3. AtLoop' = AtLoop
    BY <1>4 DEF AtLoop, Top
  <2> QED BY <1>3, <1>4, <1>5, <1>10, <2>2, <2>3 DEF Read, EventAsked, CounterAsked
<1>11. Here(C)'
  BY <1>4, <1>5, <1>8, <1>9, <1>10 DEF Here
<1> QED BY <1>7, <1>11

\* What the server writes of a notice, field by field.
LEMMA OpTells ==
  ASSUME NEW n \in Notice
  PROVE  /\ n.op \in {event_triggered, counter_changed}
         /\ n.op = event_triggered => EventNotice(n)
         /\ n.op = counter_changed => CounterNotice(n)
         /\ packet(n)[1] = n.op /\ packet(n)[2] = Len(n.name) /\ Len(n.name) \in Byte
         /\ Len(packet(n)) \in Nat /\ Len(packet(n)) >= 4
<1>0. Len(n.name) \in Nat /\ Len(n.name) < 256
  BY NoticesFit
<1>1. Len(n.name) \in Byte
  BY <1>0, IsByte
<1>2. EventNotice(n) => /\ n.op = event_triggered
                        /\ packet(n)[1] = n.op /\ packet(n)[2] = Len(n.name)
                        /\ Len(packet(n)) \in Nat /\ Len(packet(n)) >= 4
  BY <1>0 DEF EventNotice, EventLayout
<1>3. CounterNotice(n) => /\ n.op = counter_changed
                          /\ packet(n)[1] = n.op /\ packet(n)[2] = Len(n.name)
                          /\ Len(packet(n)) \in Nat /\ Len(packet(n)) >= 4
  BY <1>0 DEF CounterNotice, CounterLayout
<1>4. event_triggered # counter_changed
  BY DEF event_triggered, counter_changed
<1> QED BY <1>1, <1>2, <1>3, <1>4, NoticeIs

LEMMA ReadingMoves ==
  ASSUME SketchOK, NEW B, Frames(B), Past(B), NEW s, Reading(s)
  PROVE  /\ details.step = s /\ can_process_input /\ AtLoop' /\ nested' = nested
         /\ Needed \in Nat /\ taken \in Nat /\ taken' = taken + Needed
         /\ taken' <= Len(stream)
         /\ Frames(B)' /\ Past(B)' /\ Done' = Done /\ Now' = Now
         /\ \A o, k \in Nat : k = Needed /\ Within(B, o) => Within(B, o + k)'
<1>1. /\ details.step = s /\ can_process_input /\ AtLoop
      /\ UNCHANGED <<stream, arrived, sent, nested, stack, processed>>
  BY DEF Reading, Processing, network, history
<1>2. taken' = taken + Needed /\ taken + Needed <= arrived /\ Needed \in Nat /\ taken \in Nat
  BY <1>1, InputIs, NeededNat DEF Reading, SketchOK, StreamOK
<1>3. taken' <= Len(stream)
  BY <1>2 DEF SketchOK, StreamOK
<1>4. AtLoop'
  BY <1>1 DEF AtLoop, Top
<1>5. Done' = Done /\ \A i : Place(i)' = Place(i) /\ First(i)' = First(i)
  BY <1>1, DoneKept
<1>6. Frames(B)' /\ Past(B)' /\ Now' = Now
  BY <1>1, <1>5 DEF Frames, Past, Now
<1>7. ASSUME NEW o \in Nat, NEW k \in Nat, k = Needed, Within(B, o) PROVE Within(B, o + k)'
  <2>1. B[Done] \in Nat
    BY DoneBound
  <2> QED BY <1>1, <1>2, <1>5, <1>7, <2>1 DEF Within
<1> QED BY <1>1, <1>2, <1>3, <1>4, <1>5, <1>6, <1>7

LEMMA OrderHeader ==
  ASSUME SketchOK, NEW B, Frames(B), Past(B), Here(B), process_header
  PROVE  Here(B)'
<1> DEFINE o == Input[1] % 16
           t == CASE o = version -> "protocol_version"
                  [] o \in {event_triggered, counter_changed} -> "name_length"
                  [] OTHER -> "header"
<1>1. /\ details.step = "header" /\ can_process_input
      /\ Needed \in Nat /\ taken \in Nat /\ taken' = taken + Needed /\ taken' <= Len(stream)
      /\ Done' = Done /\ Now' = Now
      /\ \A i, k \in Nat : k = Needed /\ Within(B, i) => Within(B, i + k)'
  BY ReadingMoves DEF process_header
<1>2. Needed = 1
  BY <1>1, NeededIs
<1>3. details \in Details /\ details' = [details EXCEPT !.opcode = o, !.step = t]
  BY DEF process_header, SketchOK, DetailsOK
<1>4. Input \in Seq(Byte) /\ Len(Input) = 1 /\ Input[1] = stream[taken + 1]
  BY <1>1, <1>2, InputIs DEF SketchOK
<1>5. taken = B[Done] \/ (taken = 0 /\ Done = 0)
  BY <1>1 DEF Here
<1>6. CASE taken = B[Done]
  <2>1. Done < Len(sent) /\ Done \in Nat /\ taken = B[Done] + 0
    <3>1. Done \in 0..Len(sent) /\ Len(sent) \in Nat /\ B[Len(sent)] = Len(stream)
      <4>1. B[Len(sent)] = Len(stream)
        BY DEF Frames
      <4>2. Len(sent) \in Nat
        BY DEF SketchOK, HistoryOK
      <4> QED BY <4>1, <4>2, DoneBound
    <3>2. Done # Len(sent)
      BY <1>1, <1>2, <1>6, <3>1
    <3> QED BY <1>1, <1>6, <3>1, <3>2
  <2>2. Within(B, 0)
    BY <2>1 DEF Within
  <2>3. Now \in Notice
    BY <2>1 DEF Now, SketchOK, HistoryOK
  <2>4. Len(packet(Now)) \in Nat /\ 0 + Needed <= Len(packet(Now)) /\ packet(Now)[1] = Now.op
        /\ Now.op \in {event_triggered, counter_changed}
    BY <1>2, <2>3, OpTells
  <2>5. Input[1] = packet(Now)[0 + 1]
    BY <1>1, <1>2, <2>2, <2>4, FieldRead
  <2>6. Input[1] = Now.op
    BY <2>4, <2>5
  <2>7. o = Now.op
    BY <2>4, <2>6 DEF event_triggered, counter_changed
  <2>8. o # version /\ o \in Nat
    BY <2>4, <2>7 DEF version, event_triggered, counter_changed
  <2> HIDE DEF o
  <2>9. t = "name_length"
    BY <2>4, <2>7, <2>8
  <2> HIDE DEF t
  <2>10. details'.step = "name_length" /\ details'.opcode = Now.op
    BY <1>3, <2>7, <2>8, <2>9, SetOpcode, StepNames
  <2>11. Within(B, 1)'
    <3>1. Within(B, 0 + 1)'
      BY <1>1, <1>2, <2>2
    <3> QED BY <3>1
  <2> QED BY <1>1, <2>10, <2>11 DEF Here, CallSteps
<1>7. CASE taken = 0 /\ Done = 0
  <2>1. Input[1] = 0
    BY <1>4, <1>7 DEF Frames, version
  <2>2. o = version /\ o \in Nat
    BY <2>1 DEF version
  <2> HIDE DEF o
  <2>3. t = "protocol_version"
    BY <2>2 DEF version, event_triggered, counter_changed
  <2> HIDE DEF t
  <2>4. details'.step = "protocol_version"
    BY <1>3, <2>2, <2>3, SetOpcode, StepNames
  <2>5. taken' = 1 /\ Done' = 0
    BY <1>1, <1>2, <1>7
  <2> QED BY <2>4, <2>5 DEF Here, CallSteps
<1> QED BY <1>5, <1>6, <1>7

LEMMA OrderVersion ==
  ASSUME SketchOK, NEW B, Frames(B), Past(B), Here(B), process_version
  PROVE  Here(B)'
<1>1. /\ details.step = "protocol_version" /\ taken' = taken + Needed /\ Done' = Done
  BY ReadingMoves DEF process_version
<1>2. Needed = 1 /\ taken = 1 /\ Done = 0
  BY <1>1, NeededIs DEF Here
<1>3. taken' = B[Done']
  BY <1>1, <1>2 DEF Frames
<1>4. details'.step = "header"
  BY SetStep, StepNames DEF process_version, SketchOK, DetailsOK
<1> QED BY <1>3, <1>4 DEF Here, CallSteps

LEMMA OrderNameLength ==
  ASSUME SketchOK, NEW B, Frames(B), Past(B), Here(B), process_name_length
  PROVE  Here(B)'
<1>1. /\ details.step = "name_length" /\ can_process_input /\ Now' = Now
      /\ \A i, k \in Nat : k = Needed /\ Within(B, i) => Within(B, i + k)'
  BY ReadingMoves DEF process_name_length
<1>2. Needed = 1 /\ Within(B, 1) /\ details.opcode = Now.op
  BY <1>1, NeededIs DEF Here
<1>3. Now \in Notice
  <2>1. Done + 1 \in 1..Len(sent)
    BY <1>2, DoneBound DEF Within, SketchOK, HistoryOK
  <2> QED BY <2>1 DEF Now, SketchOK, HistoryOK
<1>4. Input[1] = packet(Now)[1 + 1]
  <2>1. 1 + Needed <= Len(packet(Now))
    BY <1>2, <1>3, OpTells
  <2> QED BY <1>1, <1>2, <2>1, FieldRead
<1>5. Input[1] = Len(Now.name) /\ Input[1] \in Byte
  BY <1>3, <1>4, OpTells
<1>6. Within(B, 2)'
  <2>1. Within(B, 1 + 1)'
    BY <1>1, <1>2
  <2> QED BY <2>1
<1> DEFINE t == IF details.opcode = event_triggered THEN "payload_length" ELSE "counter_value"
<1>7. details' = [details EXCEPT !.name_length = Input[1], !.step = t]
  BY DEF process_name_length
<1>8. /\ Now.op = event_triggered => t = "payload_length"
      /\ Now.op = counter_changed => t = "counter_value"
  BY <1>2 DEF event_triggered, counter_changed
<1>9. t \in Steps
  BY StepNames
<1> HIDE DEF t
<1>10. details'.step = t /\ details'.opcode = details.opcode /\ details'.name_length = Input[1]
  BY <1>5, <1>7, <1>9, SetNameLength DEF SketchOK, DetailsOK
<1>11. NameKnown'
  BY <1>1, <1>2, <1>5, <1>10 DEF NameKnown
<1> QED BY <1>1, <1>3, <1>6, <1>8, <1>10, <1>11, OpTells DEF Here, CallSteps

\* Inside the next packet there is a next notice.
LEMMA NowIs ==
  ASSUME SketchOK, NEW B, Frames(B), Past(B), NEW o, Within(B, o)
  PROVE  /\ Now \in Notice /\ Done \in Nat /\ Done + 1 \in 1..Len(sent)
         /\ B[Done] \in Nat /\ B[Done + 1] = B[Done] + Len(packet(Now))
<1>1. Len(sent) \in Nat /\ Done \in 0..Len(sent) /\ B[Done] \in Nat /\ Done < Len(sent)
  BY DoneBound DEF Within, SketchOK, HistoryOK
<1>2. Done \in 0..Len(sent) - 1 /\ Done + 1 \in 1..Len(sent)
  BY <1>1
<1>3. Now \in Notice
  BY <1>2 DEF Now, SketchOK, HistoryOK
<1> QED BY <1>1, <1>2, <1>3 DEF Frames, Now

LEMMA OrderCounterValue ==
  ASSUME SketchOK, NEW B, Frames(B), Past(B), Here(B), process_counter_value
  PROVE  Here(B)'
<1>1. /\ details.step = "counter_value" /\ can_process_input /\ Now' = Now
      /\ \A i, k \in Nat : k = Needed /\ Within(B, i) => Within(B, i + k)'
  BY ReadingMoves DEF process_counter_value
<1>2. Needed = 4 /\ Within(B, 2) /\ NameKnown /\ Now.op = counter_changed
  BY <1>1, NeededIs DEF Here
<1>3. CounterNotice(Now)
  BY <1>2, NowIs, OpTells
<1>4. /\ Now.value \in Nat /\ Shifted(Now.value, 3) < 256 /\ Len(packet(Now)) = 6 + Len(Now.name)
      /\ Len(Now.name) \in Nat
      /\ \A i \in 1..4 : packet(Now)[2 + i] = BigEndian(Now.value, 4)[i]
  BY <1>3 DEF CounterNotice, CounterLayout
<1>5. Input \in Seq(Byte) /\ Len(Input) = 4
      /\ \A i \in 1..4 : Input[i] = packet(Now)[2 + i]
  <2>1. 2 + Needed <= Len(packet(Now))
    BY <1>2, <1>4
  <2> QED BY <1>1, <1>2, <2>1, FieldRead
<1>6. Number(Input) = Now.value
  BY <1>4, <1>5, ValueArrives
<1>7. Within(B, 6)'
  <2>1. Within(B, 2 + 4)'
    BY <1>1, <1>2
  <2> QED BY <2>1
<1>8. /\ details'.step = "name" /\ details'.opcode = details.opcode
      /\ details'.name_length = details.name_length /\ details'.counter_value = Now.value
  <2>1. details' = [details EXCEPT !.counter_value = Now.value, !.step = "name"]
    BY <1>6 DEF process_counter_value
  <2> QED BY <1>4, <2>1, StepNames, SetCounterValue DEF SketchOK, DetailsOK
<1>9. NameKnown'
  BY <1>1, <1>2, <1>8 DEF NameKnown
<1> QED BY <1>1, <1>2, <1>7, <1>8, <1>9 DEF Here, CallSteps

LEMMA OrderPayloadLength ==
  ASSUME SketchOK, NEW B, Frames(B), Past(B), Here(B), process_payload_length
  PROVE  Here(B)'
<1>1. /\ details.step = "payload_length" /\ can_process_input /\ Now' = Now
      /\ \A i, k \in Nat : k = Needed /\ Within(B, i) => Within(B, i + k)'
  BY ReadingMoves DEF process_payload_length
<1>2. Needed = 2 /\ Within(B, 2) /\ NameKnown /\ Now.op = event_triggered
  BY <1>1, NeededIs DEF Here
<1>3. EventNotice(Now)
  BY <1>2, NowIs, OpTells
<1>4. /\ Now.payload \in Seq(Byte) /\ Shifted(Len(Now.payload), 1) < 256
      /\ Len(packet(Now)) = 4 + Len(Now.name) + Len(Now.payload)
      /\ Now.name \in Seq(Byte)
      /\ \A i \in 1..2 : packet(Now)[2 + i] = BigEndian(Len(Now.payload), 2)[i]
  BY <1>3 DEF EventNotice, EventLayout
<1>5. Len(Now.payload) \in Nat /\ Len(Now.name) \in Nat
  BY <1>4
<1>6. Input \in Seq(Byte) /\ Len(Input) = 2
      /\ \A i \in 1..2 : Input[i] = packet(Now)[2 + i]
  <2>1. 2 + Needed <= Len(packet(Now))
    <3>1. Len(packet(Now)) \in Nat /\ Len(packet(Now)) >= 4
      BY <1>2, NowIs, OpTells
    <3> QED BY <1>2, <3>1
  <2> QED BY <1>1, <1>2, <2>1, FieldRead
<1>7. Number(Input) = Len(Now.payload)
  <2> DEFINE v == Len(Now.payload)
  <2>1. v \in Nat /\ Shifted(v, 1) < 256 /\ \A i \in 1..2 : Input[i] = BigEndian(v, 2)[i]
    BY <1>4, <1>5, <1>6
  <2> HIDE DEF v
  <2>2. Number(Input) = v
    BY <1>6, <2>1, LengthArrives
  <2> QED BY <2>2 DEF v
<1>8. Within(B, 4)'
  <2>1. Within(B, 2 + 2)'
    BY <1>1, <1>2
  <2> QED BY <2>1
<1>9. /\ details'.step = "name" /\ details'.opcode = details.opcode
      /\ details'.name_length = details.name_length
      /\ details'.payload_length = Len(Now.payload)
  <2>1. details' = [details EXCEPT !.payload_length = Number(Input), !.step = "name"]
    BY DEF process_payload_length
  <2>2. Number(Input) \in Nat
    BY <1>5, <1>7
  <2> QED BY <1>7, <2>1, <2>2, StepNames, SetPayloadLength DEF SketchOK, DetailsOK
<1>10. NameKnown'
  BY <1>1, <1>2, <1>9 DEF NameKnown
<1> QED BY <1>1, <1>2, <1>8, <1>9, <1>10 DEF Here, CallSteps

\* The same bytes are the same string.
LEMMA SameBytes ==
  ASSUME NEW a \in Seq(Byte), NEW b \in Seq(Byte), Len(a) = Len(b),
         \A i \in 1..Len(b) : a[i] = b[i]
  PROVE  a = b
OBVIOUS

LEMMA OrderName ==
  ASSUME SketchOK, NEW B, Frames(B), Past(B), Here(B), process_name
  PROVE  Here(B)'
<1>1. /\ details.step = "name" /\ can_process_input /\ Now' = Now /\ Done' = Done /\ sent' = sent
      /\ \A i, k \in Nat : k = Needed /\ Within(B, i) => Within(B, i + k)'
      /\ AtLoop'
  BY ReadingMoves DEF process_name, Reading, Processing, history
<1>2. /\ Needed = Len(Now.name) /\ details.opcode = Now.op
      /\ Now.op = event_triggered \/ Now.op = counter_changed
      /\ Now.op = event_triggered => Within(B, 4) /\ details.payload_length = Len(Now.payload)
      /\ Now.op = counter_changed => Within(B, 6) /\ details.counter_value = Now.value
  BY <1>1, NeededIs DEF Here, NameKnown, event_triggered, counter_changed
<1>3. details \in Details
  BY DEF SketchOK, DetailsOK
<1>4. CASE Now.op = event_triggered
  <2>1. Within(B, 4) /\ details.payload_length = Len(Now.payload)
    BY <1>2, <1>4
  <2>2. EventNotice(Now)
    BY <1>4, <2>1, NowIs, OpTells
  <2>3. /\ Now.payload \in Seq(Byte) /\ Now.name \in Seq(Byte)
        /\ Len(packet(Now)) = 4 + Len(Now.name) + Len(Now.payload)
        /\ \A i \in 1..Len(Now.name) : packet(Now)[4 + i] = Now.name[i]
    BY <2>2 DEF EventNotice, EventLayout
  <2>4. Len(Now.payload) \in Nat /\ Len(Now.name) \in Nat
    BY <2>3
  <2>5. 4 + Needed <= Len(packet(Now))
    <3> DEFINE a == Len(Now.name)
               b == Len(Now.payload)
               c == Len(packet(Now))
    <3>1. a \in Nat /\ b \in Nat /\ c = 4 + a + b /\ Needed = a
      BY <1>2, <2>3, <2>4
    <3> HIDE DEF a, b, c
    <3>2. 4 + Needed <= c
      BY <3>1
    <3> QED BY <3>2 DEF c
  <2>6. Input \in Seq(Byte) /\ Len(Input) = Len(Now.name)
        /\ \A i \in 1..Len(Now.name) : Input[i] = packet(Now)[4 + i]
    BY <1>1, <1>2, <2>1, <2>5, FieldRead
  <2>7. Input = Now.name
    BY <2>3, <2>6, SameBytes
  <2>8. Within(B, 4 + Len(Now.name))'
    <3> DEFINE l == Len(Now.name)
    <3>1. l \in Nat /\ l = Needed /\ l' = l
      BY <1>1, <1>2, <2>4
    <3> HIDE DEF l
    <3>2. Within(B, 4 + l)'
      BY <1>1, <2>1, <3>1 DEF Within
    <3> QED BY <3>2 DEF l
  <2>9. details' = [details EXCEPT !.name = Now.name, !.step = "payload"]
    BY <1>2, <1>4, <2>7 DEF process_name
  <2>10. /\ details'.step = "payload" /\ details'.name = Now.name
         /\ details'.payload_length = Len(Now.payload)
    BY <1>3, <2>1, <2>3, <2>9, StepNames, SetName
  <2> QED BY <1>1, <1>4, <2>8, <2>10 DEF Here, CallSteps
<1>5. CASE Now.op = counter_changed
  <2>1. Within(B, 6) /\ details.counter_value = Now.value
    BY <1>2, <1>5
  <2>2. CounterNotice(Now)
    BY <1>5, <2>1, NowIs, OpTells
  <2>3. /\ Now.name \in Seq(Byte)
        /\ Len(packet(Now)) = 6 + Len(Now.name)
        /\ \A i \in 1..Len(Now.name) : packet(Now)[6 + i] = Now.name[i]
    BY <2>2 DEF CounterNotice, CounterLayout
  <2>4. Len(Now.name) \in Nat
    BY <2>3
  <2>5. 6 + Needed <= Len(packet(Now))
    BY <1>2, <2>3, <2>4
  <2>6. Input \in Seq(Byte) /\ Len(Input) = Len(Now.name)
        /\ \A i \in 1..Len(Now.name) : Input[i] = packet(Now)[6 + i]
    BY <1>1, <1>2, <2>1, <2>5, FieldRead
  <2>7. Input = Now.name
    BY <2>3, <2>6, SameBytes
  <2>8. details' = [details EXCEPT !.name = Now.name, !.step = "call_counter_listeners"]
    BY <1>2, <1>5, <2>7 DEF process_name, event_triggered, counter_changed
  <2>9. /\ details'.step = "call_counter_listeners" /\ details'.name = Now.name
        /\ details'.counter_value = Now.value
    BY <1>3, <2>1, <2>3, <2>8, StepNames, SetName
  <2>10. CounterAsked' = Now
    <3>1. CounterAsked' = [op |-> counter_changed, name |-> Now.name, value |-> Now.value]
      BY <2>9 DEF CounterAsked
    <3> QED BY <2>2, <3>1 DEF CounterNotice
  <2>11. taken' = B[Done + 1] /\ Done + 1 \in 1..Len(sent)
    <3>1. taken' = taken + Needed
      BY ReadingMoves DEF process_name
    <3>2. taken = B[Done] + 6
      BY <2>1 DEF Within
    <3>3. /\ B[Done] \in Nat /\ B[Done + 1] = B[Done] + Len(packet(Now))
          /\ Done + 1 \in 1..Len(sent)
      BY <2>1, NowIs
    <3> DEFINE b == B[Done]
               c == B[Done + 1]
               a == Len(Now.name)
    <3>4. b \in Nat /\ a \in Nat /\ c = b + (6 + a) /\ taken' = (b + 6) + a
      BY <1>2, <2>3, <2>4, <3>1, <3>2, <3>3
    <3> HIDE DEF a, b, c
    <3>5. taken' = c
      BY <3>4
    <3> QED BY <3>3, <3>5 DEF c
  <2>12. Read(B, Done + 1)'
    BY <1>1, <2>9, <2>10, <2>11 DEF Read, Now
  <2> QED BY <1>1, <2>9, <2>12 DEF Here, CallSteps
<1> QED BY <1>2, <1>4, <1>5

LEMMA OrderPayload ==
  ASSUME SketchOK, NEW B, Frames(B), Past(B), Here(B), process_payload
  PROVE  Here(B)'
<1>1. /\ details.step = "payload" /\ can_process_input /\ Done' = Done /\ sent' = sent
      /\ AtLoop' /\ taken' = taken + Needed
  BY ReadingMoves DEF process_payload, Reading, Processing, history
<1>2. /\ Needed = Len(Now.payload) /\ Now.op = event_triggered
      /\ Within(B, 4 + Len(Now.name)) /\ details.name = Now.name
  BY <1>1, NeededIs DEF Here
<1>3. EventNotice(Now)
  BY <1>2, NowIs, OpTells
<1>4. /\ Now.payload \in Seq(Byte) /\ Now.name \in Seq(Byte)
      /\ Len(packet(Now)) = 4 + Len(Now.name) + Len(Now.payload)
      /\ \A i \in 1..Len(Now.payload) : packet(Now)[4 + Len(Now.name) + i] = Now.payload[i]
  BY <1>3 DEF EventNotice, EventLayout
<1> DEFINE o == 4 + Len(Now.name)
<1>5. Len(Now.payload) \in Nat /\ o \in Nat
  BY <1>4
<1>6. Len(packet(Now)) = o + Len(Now.payload) /\ Within(B, o)
      /\ \A i \in 1..Len(Now.payload) : packet(Now)[o + i] = Now.payload[i]
  BY <1>2, <1>4
<1> HIDE DEF o
<1>7. o + Needed <= Len(packet(Now))
  BY <1>2, <1>5, <1>6
<1>8. Input \in Seq(Byte) /\ Len(Input) = Len(Now.payload)
      /\ \A i \in 1..Len(Now.payload) : Input[i] = packet(Now)[o + i]
  BY <1>1, <1>2, <1>5, <1>6, <1>7, FieldRead
<1>9. Input = Now.payload
  BY <1>4, <1>6, <1>8, SameBytes
<1>10. details' = [details EXCEPT !.payload = Now.payload, !.step = "call_event_listeners"]
  BY <1>9 DEF process_payload
<1>11. /\ details'.step = "call_event_listeners" /\ details'.name = Now.name
       /\ details'.payload = Now.payload
  BY <1>2, <1>4, <1>10, StepNames, SetPayload DEF SketchOK, DetailsOK
<1>12. EventAsked' = Now
  <2>1. EventAsked' = [op |-> event_triggered, name |-> Now.name, payload |-> Now.payload]
    BY <1>11 DEF EventAsked
  <2> QED BY <1>3, <2>1 DEF EventNotice
<1>13. taken' = B[Done + 1] /\ Done + 1 \in 1..Len(sent)
  <2>1. taken = B[Done] + o
    BY <1>6 DEF Within
  <2>2. /\ B[Done] \in Nat /\ B[Done + 1] = B[Done] + Len(packet(Now))
        /\ Done + 1 \in 1..Len(sent)
    BY <1>2, NowIs
  <2> DEFINE b == B[Done]
             c == B[Done + 1]
             a == Len(Now.payload)
  <2>3. b \in Nat /\ a \in Nat /\ c = b + (o + a) /\ taken' = (b + o) + a
    BY <1>1, <1>2, <1>5, <1>6, <2>1, <2>2
  <2> HIDE DEF a, b, c
  <2>4. taken' = c
    BY <1>5, <2>3
  <2> QED BY <2>2, <2>4 DEF c
<1>14. Read(B, Done + 1)'
  BY <1>1, <1>11, <1>12, <1>13 DEF Read, Now
<1> QED BY <1>1, <1>11, <1>14 DEF Here, CallSteps

\* A lookup: of the next notice, or of the last one again.
LEMMA OrderCalling ==
  ASSUME SketchInv, AtLoop, NEW B, Frames(B), Past(B), Here(B), details.step \in CallSteps,
         NEW notice \in Noticed, NEW N, Calling(notice, N), UNCHANGED <<network, history>>,
         details.step = "call_event_listeners" => notice = EventAsked,
         details.step = "call_counter_listeners" => notice = CounterAsked
  PROVE  Frames(B)' /\ Past(B)' /\ Here(B)'
<1> DEFINE r == [notice |-> notice, at |-> taken]
<1>1. /\ processed' = Append(processed, r)
      /\ UNCHANGED <<stream, sent, nested, taken>> /\ stack' # <<>>
      /\ \/ details' = details /\ Top' # <<>>
         \/ details' = [details EXCEPT !.step = "header"]
  BY CallingTypes DEF SketchInv, network, history
<1>2. PICK m \in {Done, Done + 1} : Read(B, m)
  BY DEF Here
<1>3. /\ m \in 1..Len(sent) /\ taken = B[m] /\ notice = sent[m]
      /\ (m = Done /\ nested) \/ m = Done + 1
  BY <1>2 DEF Read, CallSteps
<1>4. PICK n \in Nat : n = Len(processed)
  BY DEF SketchInv, SketchOK, HistoryOK
<1>5. /\ Len(processed') = n + 1 /\ processed'[n + 1] = r
      /\ \A i \in 1..n : processed'[i] = processed[i]
  BY <1>1, <1>4 DEF SketchInv, SketchOK, HistoryOK
<1>6. /\ \A i \in 1..n : First(i)' = First(i) /\ Place(i)' = Place(i)
      /\ Done' = IF First(n + 1)' THEN Done + 1 ELSE Done
      /\ First(n + 1)' <=> (n = 0 \/ taken # processed[n].at)
  <2>1. HistoryOK /\ r.at = taken
    BY DEF SketchInv, SketchOK
  <2> HIDE DEF r
  <2> QED BY <1>1, <1>4, <2>1, PlaceNext
<1>7. /\ Done \in 0..Len(sent) /\ Len(sent) \in Nat
      /\ n = 0 => Done = 0
      /\ n # 0 => Done \in 1..Len(sent) /\ processed[n].at = B[Done]
  BY <1>4, DoneBound DEF SketchInv, SketchOK, HistoryOK
<1>8. Done' = m /\ (m = Done + 1 => First(n + 1)')
  <2>1. CASE m = Done
    <3>1. n # 0
      BY <1>3, <1>7, <2>1
    <3>2. ~First(n + 1)'
      BY <1>3, <1>6, <1>7, <2>1, <3>1
    <3> QED BY <1>6, <1>7, <2>1, <3>2
  <2>2. CASE m = Done + 1
    <3>1. n # 0 => B[m] # B[Done]
      <4>1. Done \in 0..Len(sent) - 1 /\ sent[Done + 1] \in Notice
        BY <1>3, <1>7, <2>2 DEF SketchInv, SketchOK, HistoryOK
      <4>2. B[Done + 1] = B[Done] + Len(packet(sent[Done + 1])) /\ B[Done] \in Nat
        BY <4>1, DoneBound DEF Frames, SketchInv
      <4>3. Len(packet(sent[Done + 1])) \in Nat \ {0}
        BY <4>1, PacketBytes
      <4> QED BY <2>2, <4>2, <4>3
    <3>2. First(n + 1)'
      BY <1>3, <1>6, <1>7, <3>1
    <3> QED BY <1>6, <2>2, <3>2
  <2> QED BY <1>3, <2>1, <2>2
<1>9. Place(n + 1)' = Done'
  BY <1>5 DEF Done, Place
<1>10. Past(B)'
  <2>1. ASSUME NEW i \in 1..n + 1
        PROVE  /\ Place(i)' \in 1..Len(sent)
               /\ processed'[i] = [notice |-> sent[Place(i)'], at |-> B[Place(i)']]
               /\ nested \/ First(i)'
    <3>1. CASE i \in 1..n
      BY <1>4, <1>5, <1>6, <3>1 DEF Past
    <3>2. CASE i = n + 1
      BY <1>3, <1>5, <1>8, <1>9, <3>2
    <3> QED BY <3>1, <3>2
  <2> QED BY <1>1, <1>5, <2>1 DEF Past
<1>11. Frames(B)'
  BY <1>1 DEF Frames
<1>12. CASE details' = [details EXCEPT !.step = "header"]
  <2>1. details'.step = "header"
    BY <1>12, SetStep, StepNames DEF SketchInv, SketchOK, DetailsOK
  <2>2. taken' = B[Done']
    BY <1>1, <1>3, <1>8
  <2>3. Here(B)'
    BY <2>1, <2>2 DEF Here, CallSteps
  <2> QED BY <1>10, <1>11, <2>3
<1>13. CASE details' = details /\ Top' # <<>>
  <2>1. ~AtLoop'
    BY <1>13 DEF AtLoop
  <2>2. Read(B, m)'
    BY <1>1, <1>2, <1>3, <1>8, <1>13, <2>1 DEF Read, EventAsked, CounterAsked
  <2>3. Here(B)'
    BY <1>8, <1>13, <2>2 DEF Here, CallSteps
  <2> QED BY <1>10, <1>11, <2>3
<1> QED BY <1>1, <1>12, <1>13

LEMMA OrderReturns ==
  ASSUME SketchInv, NestInv, listener_returns, ~cut', NEW B, Frames(B), Past(B), Here(B)
  PROVE  Frames(B)' /\ Past(B)' /\ Here(B)'
<1>1. /\ UNCHANGED <<stream, sent, processed, taken, nested>> /\ Top # <<>>
      /\ Top' = Tail(Top)
  BY ReturnTypes DEF listener_returns, network, history, SketchInv
<1>2. Done' = Done /\ \A i : Place(i)' = Place(i) /\ First(i)' = First(i)
  BY <1>1, DoneKept
<1>3. Frames(B)' /\ Past(B)'
  BY <1>1, <1>2 DEF Frames, Past
<1>4. ~AtLoop
  BY <1>1 DEF AtLoop
<1>5. ASSUME details.step \in CallSteps PROVE Read(B, Done)
  BY <1>4, <1>5 DEF Here, Read
<1>6. CASE Tail(Top) # <<>>
  <2>1. details' = details /\ ~AtLoop'
    BY <1>1, <1>6 DEF listener_returns, AtLoop
  <2>2. details.step \in CallSteps => Read(B, Done)'
    BY <1>1, <1>2, <1>5, <2>1 DEF Read, EventAsked, CounterAsked
  <2>3. Now' = Now /\ NameKnown' = NameKnown /\ \A o : Within(B, o)' = Within(B, o)
    BY <1>1, <1>2, <2>1 DEF Now, NameKnown, Within
  <2> QED BY <1>1, <1>2, <1>3, <2>1, <2>2, <2>3 DEF Here
<1>7. CASE Tail(Top) = <<>>
  <2>1. details.step = "header" \/ details.step \in CallSteps
    BY <1>7, NestReturns
  <2>2. taken' = B[Done'] \/ (taken' = 0 /\ Done' = 0)
    BY <1>1, <1>2, <1>5, <2>1 DEF Here, Read
  <2>3. details' = [details EXCEPT !.step = "header"]
    BY <1>7 DEF listener_returns
  <2>4. details'.step = "header"
    BY <2>3, SetStep, StepNames DEF SketchInv, SketchOK, DetailsOK
  <2> QED BY <1>3, <2>2, <2>4 DEF Here, CallSteps
<1> QED BY <1>6, <1>7

\* The other steps leave the stream and the library's place in it alone.
LEMMA OrderUntouched ==
  ASSUME NestInv, [Next]_vars, NEW B, Frames(B),
         \/ UNCHANGED untouched \/ fetch \/ fetch_again \/ process_returns \/ Arrive \/ Break,
         SketchInv
  PROVE  UNCHANGED cut /\ Frames(B)' /\ (Past(B) /\ Here(B) => Past(B)' /\ Here(B)')
<1>1. ASSUME UNCHANGED <<stream, sent, processed, taken, details, cut>>,
             nested => nested', details.step \in CallSteps => UNCHANGED stack
      PROVE  UNCHANGED cut /\ Frames(B)' /\ (Past(B) /\ Here(B) => Past(B)' /\ Here(B)')
  BY <1>1, OrderKept
<1>2. CASE UNCHANGED untouched
  BY <1>1, <1>2 DEF untouched, network, history
<1>3. CASE fetch
  <2>1. UNCHANGED <<stream, sent, processed, taken, details, cut>>
    BY <1>3 DEF fetch, Called, network
  <2>2. nested => nested'
    BY <1>3, Zenon DEF fetch, Called
  <2>3. details.step \notin CallSteps
    <3>1. Len(stack) = 0
      BY <1>3 DEF fetch, Called
    <3>2. stack = <<>>
      BY <3>1 DEF SketchInv, SketchOK, StackOK
    <3> QED BY <3>2 DEF NestInv
  <2> QED BY <1>1, <2>1, <2>2, <2>3
<1>4. CASE process_returns
  <2>1. UNCHANGED <<stream, sent, processed, taken, details, cut, nested>>
    BY <1>4 DEF process_returns, network, history
  <2>2. details.step \notin CallSteps
    BY <1>4, CallNeedsNothing DEF process_returns, SketchInv
  <2> QED BY <1>1, <2>1, <2>2
<1>5. CASE Arrive \/ Break
  BY <1>1, <1>5 DEF Arrive, Break, history
<1>6. CASE fetch_again
  <2>1. UNCHANGED <<stream, sent, processed, taken, details, cut>>
    BY <1>6 DEF fetch_again, Called, network
  <2>2. nested'
    <3>1. PICK depth \in 1..MaxDepth - 1 : nested' = (nested \/ depth > 0)
      BY <1>6 DEF fetch_again, Called
    <3>2. depth > 0
      BY <3>1, WindowNatural
    <3> QED BY <3>1, <3>2, Zenon
  <2>3. Top # <<>>
    BY <1>6 DEF fetch_again
  <2> SUFFICES ASSUME Past(B), Here(B) PROVE Past(B)' /\ Here(B)'
    BY <2>1 DEF Frames
  <2>4. Done' = Done /\ \A i : Place(i)' = Place(i) /\ First(i)' = First(i)
    BY <2>1, DoneKept
  <2>5. Past(B)'
    BY <2>1, <2>2, <2>4 DEF Past
  <2>6. Now' = Now /\ NameKnown' = NameKnown /\ \A o : Within(B, o)' = Within(B, o)
    BY <2>1, <2>4 DEF Now, NameKnown, Within
  <2>7. details.step \in CallSteps => Read(B, Done)'
    <3>1. details.step \in CallSteps => Read(B, Done)
      BY <2>3 DEF Here, Read, AtLoop
    <3> QED BY <2>1, <2>2, <2>4, <3>1 DEF Read, EventAsked, CounterAsked
  <2>8. Here(B)'
    BY <2>1, <2>4, <2>6, <2>7 DEF Here
  <2> QED BY <2>5, <2>8
<1> QED BY <1>2, <1>3, <1>4, <1>5, <1>6

LEMMA OrderRead ==
  ASSUME SketchOK, NEW B, Frames(B),
         \/ process_header \/ process_version \/ process_name_length \/ process_counter_value
         \/ process_payload_length \/ process_name \/ process_payload
  PROVE  UNCHANGED cut /\ Frames(B)' /\ (Past(B) /\ Here(B) => Past(B)' /\ Here(B)')
<1>1. PICK s : Reading(s)
  BY DEF process_header, process_version, process_name_length, process_counter_value,
         process_payload_length, process_name, process_payload
<1>2. UNCHANGED <<cut, stream, sent>>
  BY <1>1 DEF Reading, Processing, network, history
<1>3. Frames(B)'
  BY <1>2 DEF Frames
<1>4. Past(B) => Past(B)'
  BY <1>1, ReadingMoves
<1>5. Past(B) /\ Here(B) => Here(B)'
  BY OrderHeader, OrderVersion, OrderNameLength, OrderCounterValue, OrderPayloadLength,
     OrderName, OrderPayload
<1> QED BY <1>2, <1>3, <1>4, <1>5

LEMMA OrderNext ==
  ASSUME SketchInv, NestInv, OrderInv, [Next]_vars
  PROVE  OrderInv'
<1>1. PICK B : Frames(B) /\ (cut \/ (Past(B) /\ Here(B)))
  BY DEF OrderInv
<1>2. ASSUME NEW C, Frames(C)', cut' \/ (Past(C)' /\ Here(C)') PROVE OrderInv'
  BY <1>2 DEF OrderInv
<1>3. ASSUME UNCHANGED cut, Frames(B)', Past(B) /\ Here(B) => Past(B)' /\ Here(B)'
      PROVE  OrderInv'
  BY <1>1, <1>2, <1>3
<1>4. ASSUME \/ UNCHANGED untouched \/ fetch \/ fetch_again \/ process_returns \/ Arrive \/ Break
      PROVE  OrderInv'
  BY <1>1, <1>3, <1>4, OrderUntouched
<1>5. ASSUME Methods PROVE OrderInv'
  <2>1. ASSUME NEW n \in Name, NEW cb \in Callback, track(n, cb) \/ untrack_callback(n, cb)
        PROVE  UNCHANGED untouched
    BY <2>1 DEF track, untrack_callback
  <2>2. ASSUME NEW n \in Name, untrack(n) PROVE UNCHANGED untouched
    BY <2>2 DEF untrack
  <2>3. ASSUME set_namespace PROVE UNCHANGED untouched
    BY <2>3 DEF set_namespace
  <2> QED BY <1>4, <1>5, <2>1, <2>2, <2>3 DEF Methods
<1>6. ASSUME \/ process_header \/ process_version \/ process_name_length \/ process_counter_value
             \/ process_payload_length \/ process_name \/ process_payload
      PROVE  OrderInv'
  BY <1>1, <1>3, <1>6, OrderRead DEF SketchInv
<1>7. ASSUME call_event_listeners \/ call_counter_listeners PROVE OrderInv'
  <2>1. ASSUME call_event_listeners, Past(B), Here(B)
        PROVE  Frames(B)' /\ Past(B)' /\ Here(B)'
    <3>1. AtLoop /\ Calling(EventAsked, Event) /\ UNCHANGED <<network, history>>
          /\ details.step = "call_event_listeners"
      BY <2>1 DEF call_event_listeners, Processing, EventAsked
    <3>2. EventAsked \in Noticed
      BY AskedTypes DEF SketchInv, SketchOK
    <3> QED BY <1>1, <2>1, <3>1, <3>2, OrderCalling DEF CallSteps
  <2>2. ASSUME call_counter_listeners, Past(B), Here(B)
        PROVE  Frames(B)' /\ Past(B)' /\ Here(B)'
    <3>1. AtLoop /\ Calling(CounterAsked, Counter) /\ UNCHANGED <<network, history>>
          /\ details.step = "call_counter_listeners"
      BY <2>2 DEF call_counter_listeners, Processing, CounterAsked
    <3>2. CounterAsked \in Noticed
      BY AskedTypes DEF SketchInv, SketchOK
    <3> QED BY <1>1, <2>2, <3>1, <3>2, OrderCalling DEF CallSteps
  <2>3. UNCHANGED <<stream, sent, cut>>
    BY <1>7 DEF call_event_listeners, call_counter_listeners, Processing, Calling, network, history
  <2>4. Frames(B)'
    BY <1>1, <2>3 DEF Frames
  <2> QED BY <1>3, <1>7, <2>1, <2>2, <2>3, <2>4
<1>8. ASSUME listener_returns PROVE OrderInv'
  <2>1. UNCHANGED <<stream, sent>> /\ (cut => cut')
    <3>1. cut => cut'
      BY <1>8, Zenon DEF listener_returns
    <3> QED BY <1>8, <3>1 DEF listener_returns, network, history
  <2>2. Frames(B)'
    BY <1>1, <2>1 DEF Frames
  <2>3. ~cut' => Past(B)' /\ Here(B)'
    BY <1>1, <1>8, <2>1, OrderReturns
  <2> QED BY <1>2, <2>2, <2>3
<1>9. ASSUME NEW n \in Notice, Send(n), UNCHANGED unheard PROVE OrderInv'
  <2>1. PICK C : Frames(C)' /\ (Past(B) /\ Here(B) => Past(C)' /\ Here(C)')
    BY <1>1, <1>9, OrderSent DEF SketchInv
  <2>2. cut' = cut
    BY <1>9 DEF unheard
  <2> QED BY <1>1, <1>2, <2>1, <2>2
<1>10. ASSUME Handle PROVE OrderInv'
  <2>1. UNCHANGED <<stream, sent, processed, taken, details, stack, nested, cut>>
    BY <1>10 DEF Handle, unheard
  <2> QED BY <1>1, <1>3, <2>1, OrderKept
<1>11. ASSUME NEW n \in Notice, Notify(n) \/ Greet(n) PROVE OrderInv'
  BY <1>9, <1>11 DEF Notify, Greet
<1>12. ASSUME UNCHANGED vars PROVE OrderInv'
  BY <1>4, <1>12 DEF vars, untouched
<1> QED BY <1>4, <1>5, <1>6, <1>7, <1>8, <1>10, <1>11, <1>12 DEF Next, Step

LEMMA OrderInit == Init => NestInv /\ OrderInv
<1> SUFFICES ASSUME Init PROVE NestInv /\ OrderInv
  OBVIOUS
<1>1. NestInv
  <2>1. ~cut /\ Len(stack) <= 1 /\ Top = <<>> /\ details.step = "header"
    BY DEF Init, Top
  <2> QED BY <2>1, CallStepNames DEF NestInv
<1>2. Len(sent) = 0 /\ Len(processed) = 0 /\ Len(stream) = 2 /\ stream[1] = version /\ taken = 0
      /\ details.step = "header"
  BY DEF Init, version_packet
<1>3. Frames([i \in 0..0 |-> 2])
  BY <1>2 DEF Frames
<1>4. Done = 0
  BY <1>2, PlaceIs DEF Done
<1>5. \A B : Past(B) /\ Here(B)
  BY <1>2, <1>4 DEF Past, Here, CallSteps
<1> QED BY <1>1, <1>3, <1>5 DEF OrderInv

LEMMA OrderIs ==
  ASSUME SketchInv, NestInv, OrderInv
  PROVE  NoticesInOrder
<1>1. PICK B : Frames(B) /\ (cut \/ (Past(B) /\ Here(B)))
  BY DEF OrderInv
<1>2. DOMAIN processed = 1..Len(processed) /\ DOMAIN sent = 1..Len(sent)
  BY DEF SketchInv, SketchOK, HistoryOK
<1>3. ~cut => \A i \in DOMAIN processed :
                Place(i) \in DOMAIN sent /\ processed[i].notice = sent[Place(i)]
  BY <1>1, <1>2 DEF Past
<1>4. ~nested => \A i \in DOMAIN processed : First(i)
  BY <1>1, <1>2 DEF Past, NestInv
<1> QED BY <1>3, <1>4 DEF NoticesInOrder, NestInv

NoticesInv == SketchInv /\ NestInv /\ OrderInv

LEMMA NoticesInvNext == NoticesInv /\ [Next]_vars => NoticesInv'
BY SketchInvNext, NestNext, OrderNext DEF NoticesInv

\* The library calls listeners for what the server sent, in order and each notice
\* once, apart from the one whose callback fetches again, and until such a callback
\* has had the step set back inside a packet; for any names, notices that fit their
\* packets, window, splitting of the stream and depth.
THEOREM ArduinoOrder == Spec => []NoticesInOrder
<1>1. Init => NoticesInv
  BY SketchInit, OrderInit DEF NoticesInv, SketchInv
<1>2. NoticesInv /\ [Next]_vars => NoticesInv'
  BY NoticesInvNext
<1>3. NoticesInv => NoticesInOrder
  BY OrderIs DEF NoticesInv
<1> QED BY <1>1, <1>2, <1>3, PTL DEF Spec

===============================================================================
