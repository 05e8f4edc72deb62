-------------------------- MODULE InputBuffer_proofs --------------------------
(***************************************************************************)
(* Theorems about modules InputBuffer, Receiver and Notifier: about the    *)
(* buffer, for every initial size that is a power of two, every set of     *)
(* streams and every user that waits with at most Limit unread bytes;      *)
(* about the connection, that the server's parser is such a user and what  *)
(* its handlers are called with; about the way back, what the listeners of *)
(* the C++ library are called with.                                        *)
(***************************************************************************)
EXTENDS Receiver, Notifier, SequenceTheorems, WellFoundedInduction, TLAPS

\* What the fields of the object must satisfy.
Buffer(b) ==
  /\ b = [size |-> b.size, memory |-> b.memory, read |-> b.read, write |-> b.write]
  /\ b.size \in Nat
  /\ b.memory \in [1..b.size -> Byte \cup {Junk}]
  /\ b.read \in 0..b.write
  /\ b.write \in 0..b.size

\* The unread bytes of b are those of stream s after the first m.
Holds(b, s, m) == \A i \in 1..avaliable(b) : b.memory[b.read + i] = s[m + i]

SizeFits(n) == n <= InitialSize \/ 5 * n <= 24 * Limit

\* Moving the unread bytes to an array with room for them keeps them.
LEMMA MovedKeeps ==
  ASSUME NEW b, NEW n \in Nat, NEW s, NEW m, Buffer(b), Holds(b, s, m), avaliable(b) <= n
  PROVE  /\ Buffer(Moved(b, n))
         /\ Holds(Moved(b, n), s, m)
         /\ Moved(b, n).size = n
         /\ Moved(b, n).read = 0
         /\ Moved(b, n).write = avaliable(b)
<1> DEFINE c == Moved(b, n)
           u == avaliable(b)
<1>1. u \in 0..b.size /\ u = b.write - b.read
  BY DEF Buffer, avaliable
<1>2. \A i \in 1..u : b.read + i \in 1..b.size
  BY <1>1 DEF Buffer
<1>3. c.memory \in [1..n -> Byte \cup {Junk}]
  BY <1>2 DEF Moved, Buffer
<1>4. c.size = n /\ c.read = 0 /\ c.write = u
  BY DEF Moved
<1>5. Buffer(c)
  BY <1>1, <1>3, <1>4 DEF Buffer, Moved
<1>6. Holds(c, s, m)
  <2>1. avaliable(c) = u
    BY <1>1, <1>4 DEF avaliable
  <2>2. \A i \in 1..u : c.memory[0 + i] = b.memory[b.read + i]
    BY <1>1 DEF Moved
  <2> QED BY <1>4, <2>1, <2>2 DEF Holds
<1> QED BY <1>4, <1>5, <1>6

\* An array of z cells with less than a quarter behind write_ptr, and at most a
\* third before read_ptr, has more than five twelfths unread.
LEMMA MostlyUnread ==
  ASSUME NEW z \in Nat, NEW w \in Nat, NEW r \in Nat, z - w < z \div 4, r <= z \div 3
  PROVE  5 * z < 12 * (w - r)
OBVIOUS

\* ensure_some_free_space keeps the unread bytes, leaves room for one more, and
\* doubles the array only if five twelfths of it are unread.
LEMMA EnsureKeeps ==
  ASSUME NEW b, NEW s, NEW m, Buffer(b), Holds(b, s, m)
  PROVE  LET c == ensure_some_free_space(b)
         IN  /\ Buffer(c) /\ Holds(c, s, m)
             /\ avaliable(c) = avaliable(b)
             /\ \/ c.size = b.size
                \/ c.size = 2 * b.size /\ 5 * b.size < 12 * avaliable(b)
             /\ b.size >= 4 => empty_space(c) > 0
<1> DEFINE g == Compacted(b)
           c == ensure_some_free_space(b)
<1>1. /\ Buffer(g) /\ Holds(g, s, m) /\ g.size = b.size
      /\ avaliable(g) = avaliable(b) /\ g.read <= b.size \div 3
  <2>1. CASE b.read > b.size \div 3
    <3>1. avaliable(b) \in 0..b.size
      BY DEF Buffer, avaliable
    <3>2. g = Moved(b, b.size)
      BY <2>1 DEF Compacted, collect_garbage
    <3> QED BY <3>1, <3>2, MovedKeeps DEF Buffer, avaliable
  <2>2. CASE ~(b.read > b.size \div 3)
    <3>1. g = b
      BY <2>2 DEF Compacted
    <3> QED BY <2>2, <3>1 DEF Buffer
  <2> QED BY <2>1, <2>2
<1>2. CASE empty_space(g) < b.size \div 4
  <2>1. c = Moved(g, b.size * 2)
    BY <1>2 DEF ensure_some_free_space, resize
  <2>2. avaliable(g) \in 0..b.size /\ b.size \in Nat
    BY <1>1 DEF Buffer, avaliable
  <2>3. /\ Buffer(c) /\ Holds(c, s, m) /\ c.size = b.size * 2 /\ c.read = 0
        /\ c.write = avaliable(g)
    BY <1>1, <2>1, <2>2, MovedKeeps
  <2>4. 5 * b.size < 12 * avaliable(b)
    <3>1. b.size \in Nat /\ g.write \in Nat /\ g.read \in Nat
      BY <1>1 DEF Buffer
    <3>2. b.size - g.write < b.size \div 4 /\ g.read <= b.size \div 3
      BY <1>1, <1>2 DEF empty_space
    <3>3. 5 * b.size < 12 * (g.write - g.read)
      BY <3>1, <3>2, MostlyUnread
    <3> QED BY <1>1, <3>3 DEF avaliable
  <2>5. avaliable(c) = avaliable(b) /\ (b.size >= 4 => empty_space(c) > 0)
    BY <1>1, <2>2, <2>3 DEF avaliable, empty_space
  <2> QED BY <2>2, <2>3, <2>4, <2>5
<1>3. CASE ~(empty_space(g) < b.size \div 4)
  <2>1. c = g
    BY <1>3 DEF ensure_some_free_space
  <2>2. b.size >= 4 => empty_space(g) > 0
    BY <1>1, <1>3 DEF Buffer, empty_space
  <2> QED BY <1>1, <2>1, <2>2
<1> QED BY <1>2, <1>3

\* shrink_if_mostly_unused halves the array only if the unread bytes fit.
LEMMA ShrinkKeeps ==
  ASSUME NEW b, NEW s, NEW m, Buffer(b), Holds(b, s, m)
  PROVE  LET c == shrink_if_mostly_unused(b)
         IN  /\ Buffer(c) /\ Holds(c, s, m)
             /\ avaliable(c) = avaliable(b)
             /\ \/ c.size = b.size
                \/ c.size = b.size \div 2 /\ 4 * b.write < b.size
<1> DEFINE c == shrink_if_mostly_unused(b)
<1>1. CASE empty_space(b) > (b.size * 3) \div 4
  <2>1. c = Moved(b, b.size \div 2)
    BY <1>1 DEF shrink_if_mostly_unused, resize
  <2>2. 4 * b.write < b.size /\ avaliable(b) \in 0..(b.size \div 2) /\ b.size \div 2 \in Nat
    BY <1>1 DEF Buffer, empty_space, avaliable
  <2> QED BY <2>1, <2>2, MovedKeeps DEF avaliable
<1>2. CASE ~(empty_space(b) > (b.size * 3) \div 4)
  BY <1>2 DEF shrink_if_mostly_unused
<1> QED BY <1>1, <1>2

\* A cell behind write_ptr is one of the n cells that recv writes, or it is not
\* unread afterwards.
LEMMA NewCell ==
  ASSUME NEW r \in Nat, NEW w \in Nat, NEW n \in Nat, NEW i \in Nat,
         ~(r + i <= w), i <= (w + n) - r
  PROVE  (r + i) - w \in 1..n
OBVIOUS

\* The cell that recv writes holds the byte of the stream that belongs there.
LEMMA SameCell ==
  ASSUME NEW r \in Nat, NEW w \in Nat, NEW m \in Nat, NEW k \in Nat, NEW i \in Nat,
         w = (r + m) - k
  PROVE  m + ((r + i) - w) = k + i
OBVIOUS

\* recv appends the next n bytes of the stream.
LEMMA FilledKeeps ==
  ASSUME NEW b, NEW n \in Nat, NEW m \in Nat, NEW k \in Nat, NEW s \in Seq(Byte),
         Buffer(b), Holds(b, s, k), avaliable(b) = m - k,
         n <= empty_space(b), m + n <= Len(s)
  PROVE  LET c == filled(b, s, m, n)
         IN  /\ Buffer(c) /\ Holds(c, s, k)
             /\ avaliable(c) = avaliable(b) + n
             /\ c.size = b.size /\ c.write = b.write + n
<1> DEFINE c == filled(b, s, m, n)
<1>1. c.size = b.size /\ c.read = b.read /\ c.write = b.write + n
  BY DEF filled, Buffer
<1>2. b.write + n <= b.size /\ b.write \in Nat /\ b.read \in 0..b.write /\ b.size \in Nat
  BY DEF Buffer, empty_space
<1>3. c.memory = [i \in 1..b.size |->
                   IF i - b.write \in 1..n THEN s[m + i - b.write] ELSE b.memory[i]]
  BY DEF filled, Buffer
<1>4. c.memory \in [1..b.size -> Byte \cup {Junk}]
  <2>1. ASSUME NEW i \in 1..b.size, i - b.write \in 1..n
        PROVE  s[m + i - b.write] \in Byte
    <3> DEFINE j == i - b.write
    <3>1. j \in 1..n
      BY <2>1
    <3> HIDE DEF j
    <3>2. m + j \in 1..Len(s)
      BY <3>1
    <3>3. s[m + j] \in Byte
      BY <3>2
    <3> QED BY <3>3 DEF j
  <2>2. ASSUME NEW i \in 1..b.size PROVE c.memory[i] \in Byte \cup {Junk}
    BY <1>3, <2>1 DEF Buffer
  <2> QED BY <1>3, <2>2
<1>5. Buffer(c)
  BY <1>1, <1>2, <1>4 DEF Buffer, filled
<1>6. avaliable(c) = (b.write + n) - b.read
  BY <1>1, <1>2 DEF avaliable
<1>7. ASSUME NEW i \in 1..((b.write + n) - b.read)
      PROVE  c.memory[b.read + i] = s[k + i]
  <2>1. /\ b.read \in Nat /\ b.write \in Nat /\ b.size \in Nat /\ i \in Nat /\ i >= 1
        /\ i <= (b.write + n) - b.read /\ b.write + n <= b.size
    BY <1>2
  <2>2. i \in Nat /\ i >= 1 /\ b.read + i \in 1..b.size
    BY <2>1
  <2>3. b.write = (b.read + m) - k
    <3> DEFINE r == b.read
               w == b.write
    <3>1. w - r = m - k /\ r \in Nat /\ w \in Nat
      BY <2>1 DEF avaliable
    <3> HIDE DEF r, w
    <3>2. w = (r + m) - k
      BY <3>1
    <3> QED BY <3>2 DEF r, w
  <2>4. CASE b.read + i <= b.write
    <3>1. ~((b.read + i) - b.write \in 1..n)
      BY <2>1, <2>4
    <3>2. c.memory[b.read + i] = b.memory[b.read + i]
      BY <1>3, <2>2, <3>1
    <3>3. i \in 1..avaliable(b)
      BY <2>1, <2>4 DEF avaliable
    <3> QED BY <3>2, <3>3 DEF Holds
  <2>5. CASE ~(b.read + i <= b.write)
    <3>1. (b.read + i) - b.write \in 1..n
      BY <2>1, <2>5, NewCell
    <3>2. m + ((b.read + i) - b.write) = k + i
      <4> DEFINE r == b.read
                 w == b.write
      <4>1. r \in Nat /\ w \in Nat /\ w = (r + m) - k /\ i \in Nat
        BY <2>1, <2>3
      <4> HIDE DEF r, w
      <4>2. m + ((r + i) - w) = k + i
        BY <4>1, SameCell
      <4> QED BY <4>2 DEF r, w
    <3> QED BY <1>3, <2>2, <3>1, <3>2
  <2> QED BY <2>4, <2>5
<1>8. Holds(c, s, k)
  BY <1>1, <1>6, <1>7 DEF Holds
<1> QED BY <1>1, <1>2, <1>5, <1>6, <1>8 DEF avaliable

\* get passes over the first n unread bytes.
LEMMA ConsumedKeeps ==
  ASSUME NEW b, NEW n \in Nat, NEW m \in Nat, NEW s, Buffer(b), Holds(b, s, m),
         n <= avaliable(b)
  PROVE  LET c == consumed(b, n)
         IN  /\ Buffer(c) /\ Holds(c, s, m + n)
             /\ avaliable(c) = avaliable(b) - n
             /\ c.size = b.size
<1> DEFINE c == consumed(b, n)
<1>1. c.size = b.size /\ c.read = b.read + n /\ c.write = b.write
  BY DEF consumed, Buffer
<1>2. b.write \in 0..b.size /\ b.read \in 0..b.write /\ b.size \in Nat
  BY DEF Buffer
<1>3. c.memory = [i \in 1..b.size |-> IF i <= b.read + n THEN Junk ELSE b.memory[i]]
  BY DEF consumed, Buffer
<1>4. Buffer(c)
  BY <1>1, <1>2, <1>3 DEF Buffer, consumed, avaliable
<1>5. Holds(c, s, m + n)
  <2> SUFFICES ASSUME NEW i \in 1..avaliable(c)
               PROVE  c.memory[c.read + i] = s[m + n + i]
    BY DEF Holds
  <2>0. avaliable(c) = b.write - (b.read + n)
    BY <1>1 DEF avaliable
  <2>1. n + i \in 1..avaliable(b) /\ b.read + n + i \in 1..b.size /\ i \in Nat /\ i >= 1
    BY <1>2, <2>0 DEF avaliable
  <2>2. c.memory[b.read + n + i] = b.memory[b.read + n + i]
    BY <1>2, <1>3, <2>1
  <2>3. b.memory[b.read + (n + i)] = s[m + (n + i)]
    BY <2>1 DEF Holds
  <2>4. b.read + (n + i) = b.read + n + i /\ m + (n + i) = m + n + i
    BY <1>2, <2>1
  <2> QED BY <1>1, <2>2, <2>3, <2>4
<1> QED BY <1>1, <1>2, <1>4, <1>5 DEF avaliable

(***************************************************************************)
(* The inductive invariant.  The size stays a power of two, at least 4,    *)
(* as long as recv does not fail: halving 8 gives 4, and an array of 4     *)
(* cells with a byte in it is not mostly unused.  Were 6 a size, it would  *)
(* become 3, then 1, and recv would be called with no room.                *)
(***************************************************************************)
BufferInv ==
  /\ Buffer(buffer)
  /\ peer \in {"open", "closed", "reset", "dead"}
  /\ connected \in BOOLEAN
  /\ stream \in Seq(Byte)
  /\ received \in 0..Len(stream)
  /\ taken \in 0..received
  /\ avaliable(buffer) = received - taken
  /\ Holds(buffer, stream, taken)
  /\ SizeFits(buffer.size)
  /\ peer # "dead" => buffer.size \in Sizes
  /\ ~connected => peer # "open"

\* A stream may also grow, as that of module Notifier does; here it is given.
GivenInv == BufferInv /\ stream \in Streams

\* The invariant is what the runs check and the sizes.
LEMMA BufferInvImplies ==
  /\ BufferInv => UnreadIsNext /\ OnlyLeaversDisconnected /\ MemoryBounded
  /\ GivenInv => BufferTypeOK
BY DEF GivenInv, BufferInv, BufferTypeOK, UnreadIsNext, OnlyLeaversDisconnected, MemoryBounded,
       Buffer, Holds, SizeFits

\* A doubled array is no larger than what Limit allows, and its size a power of 2.
LEMMA DoubledFits ==
  ASSUME NEW n \in Nat, NEW u \in Nat, u <= Limit, 5 * n < 12 * u
  PROVE  SizeFits(2 * n) /\ (n \in Sizes => 2 * n \in Sizes)
<1>1. Limit \in Nat /\ Limit <= 65535
  BY LimitHas16Bits DEF UINT16_MAX
<1>2. SizeFits(2 * n)
  BY <1>1 DEF SizeFits
<1>3. n < 262144 /\ (n \in Sizes => n # 262144)
  BY <1>1
<1>4. ASSUME n \in Sizes PROVE 2 * n \in Sizes
  BY <1>3, <1>4 DEF Sizes
<1> QED BY <1>2, <1>4

\* Halving a power of two above 4 gives one.
LEMMA HalvedIsPower ==
  ASSUME NEW n \in Sizes, n > 4
  PROVE  n \div 2 \in Sizes
BY DEF Sizes

\* A halved array fits where the whole one did.
LEMMA HalvedFits ==
  ASSUME NEW n \in Nat, SizeFits(n)
  PROVE  SizeFits(n \div 2)
<1>1. InitialSize \in Nat /\ Limit \in Nat
  BY SizeIsPower, LimitHas16Bits DEF Sizes
<1>2. n \div 2 \in Nat /\ n \div 2 <= n
  OBVIOUS
<1> QED BY <1>1, <1>2 DEF SizeFits

\* Before recv: the array after ensure_some_free_space.
LEMMA EnsureInv ==
  ASSUME BufferInv, Receiving
  PROVE  LET c == ensure_some_free_space(buffer)
         IN  /\ Buffer(c) /\ Holds(c, stream, taken)
             /\ avaliable(c) = avaliable(buffer)
             /\ SizeFits(c.size)
             /\ peer # "dead" => c.size \in Sizes /\ empty_space(c) > 0
<1> DEFINE c == ensure_some_free_space(buffer)
<1>1. /\ Buffer(c) /\ Holds(c, stream, taken) /\ avaliable(c) = avaliable(buffer)
      /\ \/ c.size = buffer.size
         \/ c.size = 2 * buffer.size /\ 5 * buffer.size < 12 * avaliable(buffer)
      /\ buffer.size >= 4 => empty_space(c) > 0
  BY EnsureKeeps DEF BufferInv
<1>2. avaliable(buffer) \in Nat /\ avaliable(buffer) <= Limit /\ buffer.size \in Nat
  BY DEF BufferInv, Buffer, avaliable, Receiving
<1>3. SizeFits(c.size) /\ (buffer.size \in Sizes => c.size \in Sizes)
  BY <1>1, <1>2, DoubledFits DEF BufferInv
<1>4. buffer.size \in Sizes => buffer.size >= 4
  BY DEF Sizes
<1> QED BY <1>1, <1>3, <1>4 DEF BufferInv

\* An array with a byte in it stays a power of two when it is halved.
LEMMA ShrinkInv ==
  ASSUME NEW b, NEW s, NEW m, Buffer(b), Holds(b, s, m), SizeFits(b.size)
  PROVE  LET c == shrink_if_mostly_unused(b)
         IN  /\ Buffer(c) /\ Holds(c, s, m) /\ avaliable(c) = avaliable(b)
             /\ SizeFits(c.size)
             /\ b.size \in Sizes /\ b.write >= 1 => c.size \in Sizes
<1> DEFINE c == shrink_if_mostly_unused(b)
<1>1. /\ Buffer(c) /\ Holds(c, s, m) /\ avaliable(c) = avaliable(b)
      /\ c.size = b.size \/ (c.size = b.size \div 2 /\ 4 * b.write < b.size)
  BY ShrinkKeeps
<1>2. b.size \in Nat /\ b.write \in Nat
  BY DEF Buffer
<1>3. SizeFits(c.size)
  BY <1>1, <1>2, HalvedFits
<1>4. ASSUME b.size \in Sizes, b.write >= 1 PROVE c.size \in Sizes
  BY <1>1, <1>2, <1>4, HalvedIsPower
<1> QED BY <1>1, <1>3, <1>4

\* The empty array of the constructor.
LEMMA BufferInitInv == BufferInit => GivenInv
<1> SUFFICES ASSUME BufferInit PROVE GivenInv
  OBVIOUS
<1>1. buffer = NewBuffer /\ InitialSize \in Nat
  BY SizeIsPower DEF BufferInit, Sizes
<1>2. Buffer(buffer) /\ avaliable(buffer) = 0
  BY <1>1 DEF Buffer, NewBuffer, NewMemory, avaliable
<1>3. buffer.size = InitialSize
  BY <1>1 DEF NewBuffer
<1>4. stream \in Seq(Byte)
  BY StreamsOfBytes DEF BufferInit
<1>5. Holds(buffer, stream, taken) /\ SizeFits(buffer.size)
  BY <1>1, <1>2, <1>3 DEF Holds, SizeFits
<1>6. received \in 0..Len(stream) /\ taken \in 0..received /\ received - taken = 0
  BY <1>4 DEF BufferInit
<1> QED
  BY <1>2, <1>3, <1>4, <1>5, <1>6, SizeIsPower DEF BufferInit, BufferInv, GivenInv

\* recv returned n bytes.
LEMMA ReceiveInv ==
  ASSUME BufferInv, NEW n \in 1..Len(stream), Receive(n)
  PROVE  BufferInv'
<1> DEFINE e == ensure_some_free_space(buffer)
           f == filled(e, stream, received, n)
           c == shrink_if_mostly_unused(f)
<1>1. stream \in Seq(Byte) /\ n \in Nat /\ n >= 1 /\ received \in Nat /\ taken \in Nat
  BY StreamsOfBytes DEF BufferInv
<1>2. /\ Buffer(e) /\ Holds(e, stream, taken) /\ avaliable(e) = received - taken
      /\ SizeFits(e.size) /\ e.size \in Sizes
  BY EnsureInv DEF Receive, BufferInv
<1>3. n <= empty_space(e) /\ received + n <= Len(stream) /\ buffer' = c
      /\ received' = received + n /\ UNCHANGED <<peer, connected, stream, taken>>
  BY DEF Receive
<1>4. /\ Buffer(f) /\ Holds(f, stream, taken) /\ avaliable(f) = avaliable(e) + n
      /\ f.size = e.size /\ f.write = e.write + n
  BY <1>1, <1>2, <1>3, FilledKeeps
<1>5. f.write >= 1
  BY <1>1, <1>2, <1>4 DEF Buffer
<1>6. /\ Buffer(c) /\ Holds(c, stream, taken) /\ avaliable(c) = avaliable(f)
      /\ SizeFits(c.size) /\ c.size \in Sizes
  BY <1>2, <1>4, <1>5, ShrinkInv
<1>7. avaliable(c) = received' - taken'
  BY <1>1, <1>2, <1>3, <1>4, <1>6
<1> HIDE DEF e, f, c
<1> QED BY <1>1, <1>3, <1>6, <1>7 DEF BufferInv

\* recv returned -1.
LEMMA ReceiveErrorInv ==
  ASSUME BufferInv, ReceiveError
  PROVE  BufferInv'
<1> DEFINE e == ensure_some_free_space(buffer)
           c == shrink_if_mostly_unused(e)
<1>1. /\ Buffer(e) /\ Holds(e, stream, taken) /\ avaliable(e) = avaliable(buffer)
      /\ SizeFits(e.size)
  BY EnsureInv DEF ReceiveError
<1>2. Buffer(c) /\ Holds(c, stream, taken) /\ avaliable(c) = avaliable(e) /\ SizeFits(c.size)
  BY <1>1, ShrinkInv
<1>3. buffer' = c /\ peer' = "dead" /\ UNCHANGED <<connected, stream, received, taken>>
  BY DEF ReceiveError
<1> HIDE DEF e, c
<1> QED BY <1>1, <1>2, <1>3 DEF BufferInv

\* recv returned 0: as long as the peer is there, there is room, so it has left.
LEMMA ReceiveNothingInv ==
  ASSUME BufferInv, ReceiveNothing
  PROVE  BufferInv'
<1> DEFINE e == ensure_some_free_space(buffer)
<1>1. /\ Buffer(e) /\ Holds(e, stream, taken) /\ avaliable(e) = avaliable(buffer)
      /\ SizeFits(e.size) /\ (peer # "dead" => e.size \in Sizes /\ empty_space(e) > 0)
  BY EnsureInv DEF ReceiveNothing
<1>2. /\ buffer' = e /\ connected' = FALSE /\ UNCHANGED <<peer, stream, received, taken>>
      /\ peer \in {"closed", "dead"} \/ empty_space(e) = 0
  BY DEF ReceiveNothing
<1>3. peer # "open"
  BY <1>1, <1>2
<1> HIDE DEF e
<1> QED BY <1>1, <1>2, <1>3 DEF BufferInv

\* The parser took n bytes.
LEMMA GetInv ==
  ASSUME BufferInv, NEW n \in Nat, Get(n)
  PROVE  BufferInv'
<1> DEFINE c == consumed(buffer, n)
<1>1. n \in Nat /\ received \in Nat /\ taken \in Nat
  BY DEF BufferInv
<1>2. /\ Buffer(c) /\ Holds(c, stream, taken + n)
      /\ avaliable(c) = avaliable(buffer) - n /\ c.size = buffer.size
  BY <1>1, ConsumedKeeps DEF BufferInv, Get
<1>3. n <= avaliable(buffer) /\ buffer' = c /\ taken' = taken + n
      /\ UNCHANGED <<peer, connected, stream, received>>
  BY DEF Get
<1> HIDE DEF c
<1>4. taken + n \in 0..received /\ avaliable(c) = received - (taken + n)
  BY <1>1, <1>2, <1>3 DEF BufferInv
<1> QED BY <1>2, <1>3, <1>4 DEF BufferInv

\* Every step keeps the invariant.
LEMMA BufferNextInv == GivenInv /\ [BufferNext]_bufferVars => GivenInv'
<1> SUFFICES ASSUME GivenInv, [BufferNext]_bufferVars PROVE BufferInv' /\ stream' = stream
  BY DEF GivenInv
<1>0. BufferInv
  BY DEF GivenInv
<1>1. CASE PeerLeaves
  BY <1>0, <1>1 DEF PeerLeaves, BufferInv
<1>2. ASSUME NEW n \in 1..Len(stream), Receive(n) PROVE BufferInv' /\ stream' = stream
  BY <1>0, <1>2, ReceiveInv DEF Receive
<1>3. ASSUME NEW n \in 1..Len(stream), Get(n) PROVE BufferInv' /\ stream' = stream
  <2>1. n \in Nat
    OBVIOUS
  <2> QED BY <1>0, <1>3, <2>1, GetInv DEF Get
<1>4. CASE ReceiveError
  BY <1>0, <1>4, ReceiveErrorInv DEF ReceiveError
<1>5. CASE ReceiveNothing
  BY <1>0, <1>5, ReceiveNothingInv DEF ReceiveNothing
<1>6. CASE UNCHANGED bufferVars
  BY <1>0, <1>6 DEF bufferVars, BufferInv
<1> QED BY <1>1, <1>2, <1>3, <1>4, <1>5, <1>6 DEF BufferNext

\* The pointers stay in the array, whatever it is resized to.
THEOREM BufferTypeCorrect == BufferSpec => []BufferTypeOK
BY BufferInitInv, BufferNextInv, BufferInvImplies, PTL DEF BufferSpec

\* The array behaves as a queue of bytes.
THEOREM BufferIsQueue == BufferSpec => []UnreadIsNext
<1>1. GivenInv => UnreadIsNext
  BY BufferInvImplies DEF GivenInv
<1> QED BY <1>1, BufferInitInv, BufferNextInv, PTL DEF BufferSpec

\* recv always has room, so only a peer that left is taken for disconnected.
THEOREM NoLiveClientDropped == BufferSpec => []OnlyLeaversDisconnected
<1>1. GivenInv => OnlyLeaversDisconnected
  BY BufferInvImplies DEF GivenInv
<1> QED BY <1>1, BufferInitInv, BufferNextInv, PTL DEF BufferSpec

\* The memory of a connection is bounded by what a packet may need.
THEOREM BufferMemoryBounded == BufferSpec => []MemoryBounded
<1>1. GivenInv => MemoryBounded
  BY BufferInvImplies DEF GivenInv
<1> QED BY <1>1, BufferInitInv, BufferNextInv, PTL DEF BufferSpec

-----------------------------------------------------------------------------
(***************************************************************************)
(* The connection.  Each step of the parser takes from the buffer the      *)
(* bytes it asked for, so the buffer's invariant holds under it; the       *)
(* fields it reads are bytes of the stream.                                *)
(***************************************************************************)
Steps == {"header", "name_length", "payload_length", "name", "payload", "process"}

\* The fields that say how many bytes the parser asks for.
ParserInv ==
  /\ phase \in {"select", "parse"}
  /\ step \in Steps
  /\ opcode \in 0..7 \cup {undefined}
  /\ name_length \in 0..UINT8_MAX
  /\ payload_length \in 0..UINT16_MAX

\* What the parser has read.
ReadInv ==
  /\ name \in Seq(Byte)
  /\ payload \in Seq(Byte)
  /\ handled \in Seq(CallRecords)

\* The server waits only when the parser lacks bytes.
Lacking == phase = "select" => avaliable(buffer) < required_input_size

ReceiverInv == BufferInv /\ ParserInv /\ ReadInv /\ Lacking

\* The ranges of the lengths.
LEMMA MaxTypes ==
  /\ UINT8_MAX \in Nat /\ UINT16_MAX \in Nat
  /\ UINT8_MAX <= UINT16_MAX /\ 2 <= UINT16_MAX
BY DEF UINT8_MAX, UINT16_MAX

\* A length has 16 bits at most.
LEMMA RequiredType == ParserInv => required_input_size \in 0..UINT16_MAX
<1>1. /\ step = "header"         => required_input_size = 1
      /\ step = "name_length"    => required_input_size = 1
      /\ step = "payload_length" => required_input_size = 2
      /\ step = "name"           => required_input_size = name_length
      /\ step = "payload"        => required_input_size = payload_length
      /\ step = "process"        => required_input_size = 0
  BY DEF required_input_size
<1>2. ParserInv => /\ step \in Steps
                   /\ name_length \in 0..UINT8_MAX
                   /\ payload_length \in 0..UINT16_MAX
  BY DEF ParserInv
<1> QED BY <1>1, <1>2, MaxTypes DEF Steps

\* There are no fewer than no bytes.
LEMMA AvaliableType == BufferInv => avaliable(buffer) \in Nat
BY DEF BufferInv, Buffer, avaliable

\* The next step is a step.
LEMMA NextStepType == ParserInv => NextStep \in Steps
BY DEF ParserInv, Steps, NextStep

\* What get returns are bytes of the stream.
LEMMA PeekBytes ==
  ASSUME BufferInv, NEW n \in Nat, n <= avaliable(buffer)
  PROVE  peek(buffer, n) \in Seq(Byte) /\ \A i \in 1..n : peek(buffer, n)[i] \in Byte
<1> DEFINE p == peek(buffer, n)
<1>1. stream \in Seq(Byte) /\ taken \in Nat /\ received \in 0..Len(stream)
      /\ taken <= received /\ avaliable(buffer) = received - taken
  BY StreamsOfBytes DEF BufferInv
<1>2. p = [i \in 1..n |-> buffer.memory[buffer.read + i]]
  BY DEF peek
<1>3. ASSUME NEW i \in 1..n PROVE buffer.memory[buffer.read + i] \in Byte
  <2>1. i \in 1..avaliable(buffer) /\ taken + i \in 1..Len(stream)
    BY <1>1
  <2>2. buffer.memory[buffer.read + i] = stream[taken + i]
    BY <2>1 DEF BufferInv, Holds
  <2> QED BY <1>1, <2>1, <2>2
<1> HIDE DEF p
<1>4. p \in [1..n -> Byte]
  BY <1>2, <1>3
<1>5. p \in Seq(Byte)
  BY <1>4, SeqDef
<1> QED BY <1>4, <1>5 DEF p

\* A step of the parser takes what it asked for, keeps the buffer's invariant and
\* stays in the loop.
LEMMA ParsingInv ==
  ASSUME ReceiverInv, NEW s, NEW n \in Nat, Parsing(s, n)
  PROVE  /\ BufferInv'
         /\ phase' = "parse" /\ step' \in Steps
         /\ n <= avaliable(buffer)
<1>1. Get(n) /\ phase' = phase /\ phase = "parse" /\ step' = NextStep
  BY DEF Parsing
<1>2. BufferInv'
  BY <1>1, GetInv DEF ReceiverInv
<1>3. step' \in Steps
  BY <1>1, NextStepType DEF ReceiverInv
<1> QED BY <1>1, <1>2, <1>3 DEF Get

\* The invariant holds of a new connection: the parser lacks the first header.
LEMMA ReceiverInitInv == Init => ReceiverInv
<1> SUFFICES ASSUME Init PROVE ReceiverInv
  OBVIOUS
<1>1. BufferInv
  BY BufferInitInv DEF Init, GivenInv
<1>2. ParserInv
  BY MaxTypes DEF Init, ParserInv, Steps, undefined
<1>3. ReadInv
  BY DEF Init, ReadInv
<1>4. avaliable(buffer) = 0
  <2>1. buffer = NewBuffer
    BY DEF Init, BufferInit
  <2> QED BY <2>1 DEF NewBuffer, avaliable
<1>5. Lacking
  BY <1>4 DEF Init, Lacking, required_input_size
<1> QED BY <1>1, <1>2, <1>3, <1>5 DEF ReceiverInv

\* Whatever recv does, the parser's fields stay.
LEMMA ReceivingInv ==
  ASSUME ReceiverInv, Leave \/ ReceiveInput \/ Disconnected
  PROVE  ReceiverInv'
<1>1. CASE Leave
  <2>1. BufferInv'
    BY <1>1 DEF Leave, PeerLeaves, ReceiverInv, BufferInv
  <2>2. UNCHANGED <<phase, step, opcode, name_length, payload_length, name, payload,
                    handled, buffer>>
    BY <1>1 DEF Leave, PeerLeaves, fields
  <2>3. ParserInv' /\ ReadInv' /\ Lacking'
    BY <2>2 DEF ReceiverInv, ParserInv, ReadInv, Lacking, undefined,
                      required_input_size, avaliable
  <2> QED BY <2>1, <2>3 DEF ReceiverInv
<1>2. CASE ReceiveInput
  <2>1. BufferInv'
    BY <1>2, ReceiveErrorInv, ReceiveInv DEF ReceiveInput, ReceiverInv
  <2>2. phase' = "parse" /\ UNCHANGED <<step, opcode, name_length, payload_length, name,
                                        payload, handled>>
    BY <1>2 DEF ReceiveInput, fields
  <2>3. ParserInv' /\ ReadInv' /\ Lacking'
    BY <2>2 DEF ReceiverInv, ParserInv, ReadInv, Lacking, undefined
  <2> QED BY <2>1, <2>3 DEF ReceiverInv
<1>3. CASE Disconnected
  <2>1. BufferInv' /\ avaliable(buffer') = avaliable(buffer)
    <3>1. ReceiveNothing /\ BufferInv
      BY <1>3 DEF Disconnected, ReceiverInv
    <3>2. buffer' = ensure_some_free_space(buffer) /\ Receiving
      BY <3>1 DEF ReceiveNothing
    <3> QED BY <3>1, <3>2, ReceiveNothingInv, EnsureInv
  <2>2. UNCHANGED <<phase, step, opcode, name_length, payload_length, name, payload,
                    handled>>
    BY <1>3 DEF Disconnected, fields
  <2>3. ParserInv' /\ ReadInv' /\ Lacking'
    BY <2>1, <2>2 DEF ReceiverInv, ParserInv, ReadInv, Lacking, undefined,
                      required_input_size, avaliable
  <2> QED BY <2>1, <2>3 DEF ReceiverInv
<1> QED BY <1>1, <1>2, <1>3

\* parse_header, read_name_length and read_payload_length: the byte, or the two
\* bytes, make a number of 3 bits, of 8 or of 16.
LEMMA NumbersInv ==
  ASSUME ReceiverInv, parse_header \/ read_name_length \/ read_payload_length
  PROVE  ReceiverInv'
<1>1. BufferInv
  BY DEF ReceiverInv
<1>2. CASE parse_header
  <2>1. Parsing("header", 1)
    BY <1>2 DEF parse_header
  <2>2. BufferInv' /\ phase' = "parse" /\ step' \in Steps /\ peek(buffer, 1)[1] \in Byte
    BY <1>1, <2>1, ParsingInv, PeekBytes
  <2>3. opcode' = OpcodeOf(peek(buffer, 1)[1])
        /\ UNCHANGED <<name_length, payload_length, name, payload, handled>>
    BY <1>2 DEF parse_header
  <2>4. \A h \in 0..UINT8_MAX : OpcodeOf(h) \in 0..7 \cup {undefined}
    BY DEF OpcodeOf
  <2>5. opcode' \in 0..7 \cup {undefined}
    BY <2>2, <2>3, <2>4, BytesHave8Bits
  <2> QED BY <2>2, <2>3, <2>5 DEF ReceiverInv, ParserInv, ReadInv, Lacking, undefined
<1>3. CASE read_name_length
  <2>1. Parsing("name_length", 1)
    BY <1>3 DEF read_name_length
  <2>2. BufferInv' /\ phase' = "parse" /\ step' \in Steps /\ peek(buffer, 1)[1] \in Byte
    BY <1>1, <2>1, ParsingInv, PeekBytes
  <2>3. name_length' = peek(buffer, 1)[1]
        /\ UNCHANGED <<opcode, payload_length, name, payload, handled>>
    BY <1>3 DEF read_name_length
  <2>4. name_length' \in 0..UINT8_MAX
    BY <2>2, <2>3, BytesHave8Bits
  <2> QED BY <2>2, <2>3, <2>4 DEF ReceiverInv, ParserInv, ReadInv, Lacking, undefined
<1>4. CASE read_payload_length
  <2>1. Parsing("payload_length", 2)
    BY <1>4 DEF read_payload_length
  <2>2. BufferInv' /\ phase' = "parse" /\ step' \in Steps
    BY <2>1, ParsingInv
  <2>3. peek(buffer, 2)[1] \in Byte /\ peek(buffer, 2)[2] \in Byte
    BY <1>1, <2>1, ParsingInv, PeekBytes
  <2>4. payload_length' = PayloadLength(peek(buffer, 2))
        /\ UNCHANGED <<opcode, name_length, name, payload, handled>>
    BY <1>4 DEF read_payload_length
  <2>5. payload_length' \in 0..UINT16_MAX
    <3>1. peek(buffer, 2)[1] \in 0..UINT8_MAX /\ peek(buffer, 2)[2] \in 0..UINT8_MAX
      BY <2>3, BytesHave8Bits
    <3>2. ASSUME NEW x \in 0..UINT8_MAX, NEW y \in 0..UINT8_MAX
          PROVE  x * 256 + y \in 0..UINT16_MAX
      <4>1. /\ x \in Nat /\ x <= UINT8_MAX /\ y \in Nat /\ y <= UINT8_MAX
            /\ UINT8_MAX = 255 /\ UINT16_MAX = 65535
        BY DEF UINT8_MAX, UINT16_MAX
      <4>2. x * 256 + y \in Nat /\ x * 256 + y <= UINT16_MAX /\ UINT16_MAX \in Nat
        BY <4>1
      <4> QED BY <4>2
    <3>3. payload_length' = peek(buffer, 2)[1] * 256 + peek(buffer, 2)[2]
      BY <2>4 DEF PayloadLength
    <3> HIDE DEF PayloadLength
    <3> QED BY <3>1, <3>2, <3>3
  <2> QED BY <2>2, <2>4, <2>5 DEF ReceiverInv, ParserInv, ReadInv, Lacking, undefined
<1> QED BY <1>2, <1>3, <1>4

\* read_name and read_payload: the parser keeps a sequence of bytes.
LEMMA BytesInv ==
  ASSUME ReceiverInv, read_name \/ read_payload
  PROVE  ReceiverInv'
<1>1. BufferInv /\ name_length \in Nat /\ payload_length \in Nat
  BY DEF ReceiverInv, ParserInv
<1>2. CASE read_name
  <2>1. Parsing("name", name_length)
    BY <1>2 DEF read_name
  <2>2. BufferInv' /\ phase' = "parse" /\ step' \in Steps
        /\ peek(buffer, name_length) \in Seq(Byte)
    BY <1>1, <2>1, ParsingInv, PeekBytes
  <2>3. name' = peek(buffer, name_length)
        /\ UNCHANGED <<opcode, name_length, payload_length, payload, handled>>
    BY <1>2 DEF read_name
  <2> QED BY <2>2, <2>3 DEF ReceiverInv, ParserInv, ReadInv, Lacking, undefined
<1>3. CASE read_payload
  <2>1. Parsing("payload", payload_length)
    BY <1>3 DEF read_payload
  <2>2. BufferInv' /\ phase' = "parse" /\ step' \in Steps
        /\ peek(buffer, payload_length) \in Seq(Byte)
    BY <1>1, <2>1, ParsingInv, PeekBytes
  <2>3. payload' = peek(buffer, payload_length)
        /\ UNCHANGED <<opcode, name_length, payload_length, name, handled>>
    BY <1>3 DEF read_payload
  <2> QED BY <2>2, <2>3 DEF ReceiverInv, ParserInv, ReadInv, Lacking, undefined
<1> QED BY <1>2, <1>3

\* process_packet calls a handler for an operation of the protocol only.
LEMMA ProcessInv ==
  ASSUME ReceiverInv, process_packet
  PROVE  ReceiverInv'
<1>1. Parsing("process", 0) /\ UNCHANGED <<opcode, name_length, payload_length, name, payload>>
  BY DEF process_packet, fields
<1>2. BufferInv' /\ phase' = "parse" /\ step' \in Steps
  BY <1>1, ParsingInv
<1>3. handled' \in Seq(CallRecords)
  <2>1. handled \in Seq(CallRecords) /\ name \in Seq(Byte) /\ payload \in Seq(Byte)
        /\ opcode \in 0..7 \cup {undefined}
    BY DEF ReceiverInv, ReadInv, ParserInv
  <2>2. CASE opcode = undefined
    BY <2>1, <2>2 DEF process_packet
  <2>3. CASE opcode # undefined
    <3>1. Call(opcode, name, payload) \in CallRecords
      BY <2>1, <2>3 DEF Call, CallRecords
    <3> QED BY <2>1, <2>3, <3>1 DEF process_packet
  <2> QED BY <2>2, <2>3
<1> QED BY <1>1, <1>2, <1>3 DEF ReceiverInv, ParserInv, ReadInv, Lacking, undefined

\* The loop ends when the parser lacks bytes.
LEMMA ParsedAllInv ==
  ASSUME ReceiverInv, ParsedAll
  PROVE  ReceiverInv'
<1>1. UNCHANGED <<buffer, peer, connected, stream, received, taken, step, opcode,
                  name_length, payload_length, name, payload, handled>>
      /\ phase' = "select" /\ ~can_parse
  BY DEF ParsedAll, bufferVars, fields
<1>2. BufferInv'
  BY <1>1 DEF ReceiverInv, BufferInv
<1>3. ParserInv' /\ ReadInv'
  BY <1>1 DEF ReceiverInv, ParserInv, ReadInv, undefined
<1>4. Lacking'
  <2>1. avaliable(buffer) < required_input_size
    <3>1. avaliable(buffer) \in Nat /\ required_input_size \in Nat
      BY RequiredType, AvaliableType DEF ReceiverInv
    <3> QED BY <1>1, <3>1 DEF can_parse
  <2>2. avaliable(buffer)' = avaliable(buffer) /\ required_input_size' = required_input_size
    BY <1>1 DEF avaliable, required_input_size
  <2> QED BY <2>1, <2>2 DEF Lacking
<1> QED BY <1>2, <1>3, <1>4 DEF ReceiverInv

\* Every step of the connection keeps the invariant.
LEMMA ReceiverNextInv == ReceiverInv /\ [Next]_vars => ReceiverInv'
<1> SUFFICES ASSUME ReceiverInv, [Next]_vars PROVE ReceiverInv'
  OBVIOUS
<1>1. CASE UNCHANGED vars
  <2>1. UNCHANGED <<buffer, peer, connected, stream, received, taken, phase, step, opcode,
                    name_length, payload_length, name, payload, handled>>
    BY <1>1 DEF vars, bufferVars, fields
  <2>2. BufferInv'
    BY <2>1 DEF ReceiverInv, BufferInv
  <2> QED BY <2>1, <2>2 DEF ReceiverInv, ParserInv, ReadInv, Lacking, undefined,
                            required_input_size, avaliable
<1> QED BY <1>1, ReceivingInv, NumbersInv, BytesInv, ProcessInv, ParsedAllInv DEF Next

\* No step of the connection changes what the peer would send.
LEMMA SameStream == [Next]_vars => stream' = stream
<1> SUFFICES ASSUME [Next]_vars PROVE stream' = stream
  OBVIOUS
<1>1. CASE UNCHANGED vars
  BY <1>1 DEF vars, bufferVars
<1>2. CASE Leave \/ ReceiveInput \/ Disconnected \/ ParsedAll
  BY <1>2 DEF Leave, PeerLeaves, ReceiveInput, Receive, ReceiveError, Disconnected, ReceiveNothing,
              ParsedAll, bufferVars
<1>3. \A s, n : Parsing(s, n) => stream' = stream
  BY DEF Parsing, Get
<1>4. CASE parse_header \/ read_name_length \/ read_payload_length \/ read_name \/ read_payload
           \/ process_packet
  BY <1>3, <1>4 DEF parse_header, read_name_length, read_payload_length, read_name, read_payload,
                    process_packet
<1> QED BY <1>1, <1>2, <1>3, <1>4 DEF Next

\* Every field of the parser has its type, whatever the peer sends.
THEOREM ReceiverTypeCorrect == Spec => []TypeOK
<1> DEFINE Given == stream \in Streams
<1>1. ReceiverInv /\ Given => TypeOK
  <2> SUFFICES ASSUME ReceiverInv, Given PROVE TypeOK
    OBVIOUS
  <2>1. BufferTypeOK
    BY BufferInvImplies DEF ReceiverInv, GivenInv
  <2> QED BY <2>1 DEF ReceiverInv, ParserInv, ReadInv, Steps, TypeOK
<1>2. Init => Given
  BY DEF Init, BufferInit
<1>3. Given /\ [Next]_vars => Given'
  BY SameStream
<1> HIDE DEF Given
<1> QED BY <1>1, <1>2, <1>3, ReceiverInitInv, ReceiverNextInv, PTL DEF Spec

\* The parser reads the bytes of the stream, in order, each once.
THEOREM ParserReadsStream == Spec => []UnreadIsNext
<1>1. ReceiverInv => UnreadIsNext
  BY BufferInvImplies DEF ReceiverInv
<1> QED BY <1>1, ReceiverInitInv, ReceiverNextInv, PTL DEF Spec

\* The server takes no client for disconnected that is still there.
THEOREM NoLiveConnectionDropped == Spec => []OnlyLeaversDisconnected
<1>1. ReceiverInv => OnlyLeaversDisconnected
  BY BufferInvImplies DEF ReceiverInv
<1> QED BY <1>1, ReceiverInitInv, ReceiverNextInv, PTL DEF Spec

\* The memory of a connection of the server is bounded.
THEOREM ConnectionMemoryBounded == Spec => []MemoryBounded
<1>1. ReceiverInv => MemoryBounded
  BY BufferInvImplies DEF ReceiverInv
<1> QED BY <1>1, ReceiverInitInv, ReceiverNextInv, PTL DEF Spec

\* parse_input leaves fewer bytes than the parser asks for, at most 65534: the
\* server is a user of the buffer that Limit describes.
THEOREM ParserWaits == UINT16_MAX - 1 <= Limit => (Spec => []WaitsForMore)
<1> SUFFICES ASSUME UINT16_MAX - 1 <= Limit PROVE Spec => []WaitsForMore
  OBVIOUS
<1>1. ReceiverInv => WaitsForMore
  <2> SUFFICES ASSUME ReceiverInv, phase = "select"
               PROVE  /\ avaliable(buffer) < required_input_size
                      /\ avaliable(buffer) <= Limit
    BY DEF WaitsForMore
  <2>1. avaliable(buffer) \in Nat /\ required_input_size \in 0..UINT16_MAX
    BY RequiredType, AvaliableType DEF ReceiverInv
  <2>2. avaliable(buffer) < required_input_size
    BY DEF ReceiverInv, Lacking
  <2>3. UINT16_MAX \in Nat /\ Limit \in Nat
    BY MaxTypes, LimitHas16Bits
  <2>4. avaliable(buffer) <= UINT16_MAX - 1
    BY <2>1, <2>2, <2>3
  <2> QED BY <2>1, <2>2, <2>3, <2>4
<1> QED BY <1>1, ReceiverInitInv, ReceiverNextInv, PTL DEF Spec

-----------------------------------------------------------------------------
(***************************************************************************)
(* The packets of a stream.  PacketsFrom is defined by recursion towards   *)
(* the end of the stream: that the recursion has a solution, and the type  *)
(* of the solution, come from the least number that could be an exception. *)
(***************************************************************************)
\* A set of numbers that is not empty has a least one.
LEMMA HasLeast ==
  ASSUME NEW S \in SUBSET Nat, S # {}
  PROVE  \E x \in S : \A y \in S : x <= y
<1>1. IsWellFoundedOn(OpToRel(<, Nat), Nat)
  BY NatLessThanWellFounded
<1>2. PICK x \in S : \A y \in S : ~ (<<y, x>> \in OpToRel(<, Nat))
  BY <1>1, WFMin, Zenon
<1>3. \A y \in S : ~(y < x)
  BY <1>2, Zenon DEF OpToRel
<1>4. \A y \in S : x <= y
  BY <1>3
<1> QED BY <1>4

\* A byte is a number below 256.
LEMMA ByteIsNat == \A b \in Byte : b \in Nat /\ b < 256
BY BytesHave8Bits DEF UINT8_MAX

\* A set of numbers that has 0, and with each number the next, has all.
LEMMA Upwards ==
  ASSUME NEW S, 0 \in S, \A n \in Nat : n \in S => n + 1 \in S
  PROVE  \A n \in Nat : n \in S
<1> SUFFICES ASSUME NEW m \in Nat, m \notin S PROVE FALSE
  OBVIOUS
<1> DEFINE B == {n \in Nat : n \notin S}
<1>1. B \in SUBSET Nat /\ B # {}
  OBVIOUS
<1>2. PICK x \in B : \A y \in B : x <= y
  <2> HIDE DEF B
  <2> QED BY <1>1, HasLeast
<1>3. x \in Nat /\ x # 0 /\ x \notin S
  OBVIOUS
<1>4. x - 1 \in Nat /\ ~(x <= x - 1) /\ (x - 1) + 1 = x
  BY <1>3
<1>5. x - 1 \in S
  BY <1>2, <1>4
<1> QED BY <1>3, <1>4, <1>5

\* What the handlers are called for by the packet at byte i.
HandledAt(s, i) == IF OpAt(s, i) > 7 THEN <<>> ELSE <<PacketAt(s, i)>>

\* What the recursion says of byte i.
Unfolded(g, s, i) == IF ~Whole(s, i) THEN <<>> ELSE HandledAt(s, i) \o g[NextAt(s, i)]

\* The parts of a packet that is whole follow one another, and the next packet
\* starts later.
LEMMA WholeParts ==
  ASSUME NEW s \in Seq(Byte), NEW i \in 1..Len(s) + 1, i < Len(s), NameAt(s, i) <= Len(s) + 1
  PROVE  /\ OpAt(s, i) \in 0..15
         /\ NameAt(s, i) = i + (IF OpAt(s, i) = trigger_event THEN 4 ELSE 2)
         /\ PayloadAt(s, i) \in Nat /\ NameAt(s, i) <= PayloadAt(s, i)
         /\ NextAt(s, i) \in Nat /\ PayloadAt(s, i) <= NextAt(s, i)
         /\ i < NextAt(s, i)
<1>1. Len(s) \in Nat /\ i \in 1..Len(s) /\ i + 1 \in 1..Len(s)
  OBVIOUS
<1>2. s[i] \in Byte /\ s[i + 1] \in Byte
  BY <1>1
<1>3. s[i] \in Nat /\ s[i + 1] \in Nat
  BY <1>2, ByteIsNat
<1>4. OpAt(s, i) \in 0..15
  <2>1. \A b \in Nat : b % 16 \in 0..15
    OBVIOUS
  <2> QED BY <1>3, <2>1 DEF OpAt
<1>5. NameAt(s, i) = i + (IF OpAt(s, i) = trigger_event THEN 4 ELSE 2)
  BY DEF NameAt
<1>6. NameAt(s, i) \in Nat /\ i < NameAt(s, i)
  BY <1>1, <1>5
<1>7. PayloadAt(s, i) = NameAt(s, i) + s[i + 1]
  BY DEF PayloadAt
<1>8. PayloadAt(s, i) \in Nat /\ NameAt(s, i) <= PayloadAt(s, i)
  BY <1>3, <1>6, <1>7
<1>9. NextAt(s, i) \in Nat /\ PayloadAt(s, i) <= NextAt(s, i)
  <2>1. CASE OpAt(s, i) = trigger_event
    <3>1. i + 2 \in 1..Len(s) /\ i + 3 \in 1..Len(s)
      BY <1>1, <1>5, <2>1
    <3>2. s[i + 2] \in Byte /\ s[i + 3] \in Byte
      BY <3>1
    <3>3. (s[i + 2] * 256) + s[i + 3] \in Nat
      BY <3>2, ByteIsNat
    <3>4. NextAt(s, i) = PayloadAt(s, i) + ((s[i + 2] * 256) + s[i + 3])
      BY <2>1 DEF NextAt
    <3> DEFINE a == PayloadAt(s, i)
               l == (s[i + 2] * 256) + s[i + 3]
    <3>5. a \in Nat /\ l \in Nat /\ NextAt(s, i) = a + l
      BY <1>8, <3>3, <3>4
    <3> HIDE DEF a, l
    <3>6. NextAt(s, i) \in Nat /\ a <= NextAt(s, i)
      BY <3>5
    <3> QED BY <3>6 DEF a
  <2>2. CASE OpAt(s, i) # trigger_event
    <3>1. NextAt(s, i) = PayloadAt(s, i) + 0
      BY <2>2 DEF NextAt
    <3> QED BY <1>8, <3>1
  <2> QED BY <2>1, <2>2
<1>10. i < NextAt(s, i)
  BY <1>1, <1>6, <1>8, <1>9
<1> QED BY <1>4, <1>5, <1>8, <1>9, <1>10

\* The next packet starts later, and at the latest at the end.
LEMMA WholeNext ==
  ASSUME NEW s \in Seq(Byte), NEW i \in 1..Len(s) + 1, Whole(s, i)
  PROVE  NextAt(s, i) \in 1..Len(s) + 1 /\ i < NextAt(s, i)
<1>1. i < Len(s) /\ NameAt(s, i) <= Len(s) + 1 /\ NextAt(s, i) <= Len(s) + 1
  BY DEF Whole
<1>2. NextAt(s, i) \in Nat /\ i < NextAt(s, i)
  BY <1>1, WholeParts
<1> QED BY <1>1, <1>2

\* Bytes i to j - 1.
LEMMA PieceType ==
  ASSUME NEW s \in Seq(Byte), NEW i \in Nat, NEW j \in Nat, 1 <= i, i <= j, j <= Len(s) + 1
  PROVE  /\ SubSeq(s, i, j - 1) \in Seq(Byte)
         /\ Len(SubSeq(s, i, j - 1)) = j - i
         /\ \A k \in 1..j - i : SubSeq(s, i, j - 1)[k] = s[(i + k) - 1]
<1>1. j - 1 \in Int /\ \A k \in i..j - 1 : s[k] \in Byte
  OBVIOUS
<1>2. SubSeq(s, i, j - 1) \in Seq(Byte)
  BY <1>1, SubSeqProperties
<1> QED BY <1>2

\* A packet that is whole is a call of a handler.
LEMMA PacketType ==
  ASSUME NEW s \in Seq(Byte), NEW i \in 1..Len(s) + 1, Whole(s, i)
  PROVE  HandledAt(s, i) \in Seq(CallRecords)
<1>1. i < Len(s) /\ NameAt(s, i) <= Len(s) + 1 /\ NextAt(s, i) <= Len(s) + 1
  BY DEF Whole
<1>2. /\ OpAt(s, i) \in 0..15 /\ NameAt(s, i) \in Nat /\ 1 <= NameAt(s, i)
      /\ PayloadAt(s, i) \in Nat /\ NameAt(s, i) <= PayloadAt(s, i)
      /\ NextAt(s, i) \in Nat /\ PayloadAt(s, i) <= NextAt(s, i)
  BY <1>1, WholeParts
<1>3. SubSeq(s, NameAt(s, i), PayloadAt(s, i) - 1) \in Seq(Byte)
  BY <1>1, <1>2, PieceType
<1>4. SubSeq(s, PayloadAt(s, i), NextAt(s, i) - 1) \in Seq(Byte)
  BY <1>1, <1>2, PieceType
<1>5. CASE OpAt(s, i) > 7
  BY <1>5 DEF HandledAt
<1>6. CASE ~(OpAt(s, i) > 7)
  <2>1. OpAt(s, i) \in 0..7
    BY <1>2, <1>6
  <2>2. PacketAt(s, i) \in CallRecords
    BY <1>3, <1>4, <2>1 DEF PacketAt, CallRecords
  <2> QED BY <1>6, <2>2 DEF HandledAt
<1> QED BY <1>5, <1>6

\* The last n bytes of s, and its end.
Ending(s, n) == {i \in 1..Len(s) + 1 : Len(s) + 1 <= i + n}

\* The recursion has a solution for the last n bytes.
Solvable(s, n) == \E g : g = [i \in Ending(s, n) |-> Unfolded(g, s, i)]

\* One more byte: the packet that starts there goes on later.
LEMMA SolvableMore ==
  ASSUME NEW s \in Seq(Byte), NEW n \in Nat, Solvable(s, n)
  PROVE  Solvable(s, n + 1)
<1>1. PICK g : g = [i \in Ending(s, n) |-> Unfolded(g, s, i)]
  BY DEF Solvable
<1> DEFINE h == [i \in Ending(s, n + 1) |-> Unfolded(g, s, i)]
<1>2. ASSUME NEW i \in Ending(s, n + 1) PROVE h[i] = Unfolded(h, s, i)
  <2>1. h[i] = Unfolded(g, s, i)
    OBVIOUS
  <2>2. CASE Whole(s, i)
    <3> DEFINE j == NextAt(s, i)
    <3>1. j \in 1..Len(s) + 1 /\ i < j /\ i \in 1..Len(s) + 1 /\ Len(s) + 1 <= i + (n + 1)
      BY <2>2, WholeNext DEF Ending
    <3> HIDE DEF j
    <3>2. j \in Ending(s, n) /\ j \in Ending(s, n + 1)
      BY <3>1 DEF Ending
    <3>3. g[j] = Unfolded(g, s, j) /\ h[j] = Unfolded(g, s, j)
      BY <1>1, <3>2
    <3>4. g[j] = h[j]
      BY <3>3
    <3> HIDE DEF h
    <3> QED BY <2>1, <3>4 DEF Unfolded, j
  <2>3. CASE ~Whole(s, i)
    BY <2>1, <2>3 DEF Unfolded
  <2> QED BY <2>2, <2>3
<1>3. h = [i \in Ending(s, n + 1) |-> Unfolded(h, s, i)]
  BY <1>2
<1> HIDE DEF h
<1> QED BY <1>3 DEF Solvable

\* The recursion has a solution.
LEMMA PacketsDefined ==
  ASSUME NEW s \in Seq(Byte)
  PROVE  PacketsFrom(s) = [i \in 1..Len(s) + 1 |-> Unfolded(PacketsFrom(s), s, i)]
<1> DEFINE S == {n \in Nat : Solvable(s, n)}
<1>1. 0 \in S
  <2> DEFINE g == [i \in Ending(s, 0) |-> <<>>]
  <2>1. ASSUME NEW i \in Ending(s, 0) PROVE Unfolded(g, s, i) = <<>>
    <3>1. i \in Nat /\ ~(i < Len(s))
      BY DEF Ending
    <3> QED BY <3>1 DEF Unfolded, Whole
  <2>2. g = [i \in Ending(s, 0) |-> Unfolded(g, s, i)]
    BY <2>1
  <2> HIDE DEF g
  <2> QED BY <2>2 DEF Solvable
<1>2. \A n \in Nat : n \in S => n + 1 \in S
  BY SolvableMore
<1>3. Len(s) + 1 \in S
  <2> HIDE DEF S
  <2>1. \A n \in Nat : n \in S
    BY <1>1, <1>2, Upwards
  <2> QED BY <2>1
<1>4. Ending(s, Len(s) + 1) = 1..Len(s) + 1
  BY DEF Ending
<1>5. \E g : g = [i \in 1..Len(s) + 1 |-> Unfolded(g, s, i)]
  BY <1>3, <1>4 DEF Solvable
<1>6. PacketsFrom(s) = CHOOSE g : g = [i \in 1..Len(s) + 1 |-> Unfolded(g, s, i)]
  BY DEF PacketsFrom, Unfolded, HandledAt
<1> QED BY <1>5, <1>6

\* The packets from byte i on: the one that starts there, if it is whole, and those
\* that follow.
LEMMA PacketsStep ==
  ASSUME NEW s \in Seq(Byte), NEW i \in 1..Len(s) + 1
  PROVE  /\ PacketsFrom(s)[i] \in Seq(CallRecords)
         /\ ~Whole(s, i) => PacketsFrom(s)[i] = <<>>
         /\ Whole(s, i) => PacketsFrom(s)[i] = HandledAt(s, i) \o PacketsFrom(s)[NextAt(s, i)]
<1> DEFINE g == PacketsFrom(s)
<1>1. \A j \in 1..Len(s) + 1 : g[j] = Unfolded(g, s, j)
  <2>1. g = [j \in 1..Len(s) + 1 |-> Unfolded(g, s, j)]
    BY PacketsDefined
  <2> HIDE DEF g
  <2> QED BY <2>1
<1> HIDE DEF g
<1> DEFINE S == {n \in Nat : \A j \in Ending(s, n) : g[j] \in Seq(CallRecords)}
<1>2. 0 \in S
  <2>1. ASSUME NEW j \in Ending(s, 0) PROVE g[j] = <<>>
    <3>1. j \in 1..Len(s) + 1 /\ ~(j < Len(s))
      BY DEF Ending
    <3> QED BY <1>1, <3>1 DEF Unfolded, Whole
  <2> QED BY <2>1, EmptySeq
<1>3. ASSUME NEW n \in Nat, n \in S PROVE n + 1 \in S
  <2>1. ASSUME NEW j \in Ending(s, n + 1) PROVE g[j] \in Seq(CallRecords)
    <3>1. j \in 1..Len(s) + 1 /\ Len(s) + 1 <= j + (n + 1)
      BY DEF Ending
    <3>2. CASE Whole(s, j)
      <4> DEFINE k == NextAt(s, j)
      <4>1. k \in 1..Len(s) + 1 /\ j < k
        BY <3>1, <3>2, WholeNext
      <4> HIDE DEF k
      <4>2. k \in Ending(s, n)
        BY <3>1, <4>1 DEF Ending
      <4>3. g[k] \in Seq(CallRecords) /\ HandledAt(s, j) \in Seq(CallRecords)
        BY <1>3, <3>1, <3>2, <4>2, PacketType
      <4>4. g[j] = HandledAt(s, j) \o g[k]
        BY <1>1, <3>1, <3>2 DEF Unfolded, k
      <4> QED BY <4>3, <4>4, ConcatProperties
    <3>3. CASE ~Whole(s, j)
      BY <1>1, <3>1, <3>3, EmptySeq DEF Unfolded
    <3> QED BY <3>2, <3>3
  <2> QED BY <2>1
<1>4. Len(s) + 1 \in S
  <2> HIDE DEF S
  <2>1. \A n \in Nat : n \in S
    BY <1>2, <1>3, Upwards
  <2> QED BY <2>1
<1>5. i \in Ending(s, Len(s) + 1)
  BY DEF Ending
<1>6. g[i] \in Seq(CallRecords)
  BY <1>4, <1>5
<1>7. g[i] = Unfolded(g, s, i)
  BY <1>1
<1> QED BY <1>6, <1>7 DEF Unfolded, g

\* The header of a packet, its first two bytes and its first four tell where its
\* parts are, whatever follows.
LEMMA SameParts ==
  ASSUME NEW s, NEW t, NEW p \in Nat, t[p] = s[p]
  PROVE  /\ OpAt(t, p) = OpAt(s, p) /\ NameAt(t, p) = NameAt(s, p)
         /\ t[p + 1] = s[p + 1] => PayloadAt(t, p) = PayloadAt(s, p)
         /\ /\ t[p + 1] = s[p + 1]
            /\ OpAt(s, p) = trigger_event => t[p + 2] = s[p + 2] /\ t[p + 3] = s[p + 3]
            => NextAt(t, p) = NextAt(s, p)
<1>1. OpAt(t, p) = OpAt(s, p) /\ NameAt(t, p) = NameAt(s, p)
  BY DEF OpAt, NameAt
<1>2. ASSUME t[p + 1] = s[p + 1] PROVE PayloadAt(t, p) = PayloadAt(s, p)
  BY <1>1, <1>2 DEF PayloadAt
<1>3. ASSUME t[p + 1] = s[p + 1],
             OpAt(s, p) = trigger_event => t[p + 2] = s[p + 2] /\ t[p + 3] = s[p + 3]
      PROVE  NextAt(t, p) = NextAt(s, p)
  <2>1. CASE OpAt(s, p) = trigger_event
    <3>1. t[p + 2] = s[p + 2] /\ t[p + 3] = s[p + 3]
      BY <1>3, <2>1
    <3> QED BY <1>1, <1>2, <1>3, <2>1, <3>1 DEF NextAt
  <2>2. CASE OpAt(s, p) # trigger_event
    BY <1>1, <1>2, <1>3, <2>2 DEF NextAt
  <2> QED BY <2>1, <2>2
<1> QED BY <1>1, <1>2, <1>3

\* Two streams with the same bytes i to j - 1.
LEMMA SamePiece ==
  ASSUME NEW s \in Seq(Byte), NEW t \in Seq(Byte), NEW i \in Nat, NEW j \in Nat,
         1 <= i, i <= j, j <= Len(s) + 1, j <= Len(t) + 1,
         \A k \in 1..j - 1 : t[k] = s[k]
  PROVE  SubSeq(t, i, j - 1) = SubSeq(s, i, j - 1)
<1> DEFINE a == SubSeq(t, i, j - 1)
           b == SubSeq(s, i, j - 1)
<1>1. a \in Seq(Byte) /\ Len(a) = j - i /\ \A k \in 1..j - i : a[k] = t[(i + k) - 1]
  BY PieceType
<1>2. b \in Seq(Byte) /\ Len(b) = j - i /\ \A k \in 1..j - i : b[k] = s[(i + k) - 1]
  BY PieceType
<1>3. \A k \in 1..j - i : (i + k) - 1 \in 1..j - 1
  OBVIOUS
<1> HIDE DEF a, b
<1>4. \A k \in 1..Len(a) : a[k] = b[k]
  BY <1>1, <1>2, <1>3
<1>5. a = b
  BY <1>1, <1>2, <1>4, SeqEqual
<1> QED BY <1>5 DEF a, b

\* t begins with the bytes of s before p.
Agrees(t, s, p) == p <= Len(t) + 1 /\ \A j \in 1..p - 1 : t[j] = s[j]

\* A packet that is whole is the same packet in every stream that begins with it.
LEMMA SamePacket ==
  ASSUME NEW s \in Seq(Byte), NEW t \in Seq(Byte), NEW p \in 1..Len(s) + 1,
         Whole(s, p), Agrees(t, s, NextAt(s, p))
  PROVE  /\ p \in 1..Len(t) + 1 /\ Whole(t, p)
         /\ NextAt(t, p) = NextAt(s, p)
         /\ HandledAt(t, p) = HandledAt(s, p)
<1> DEFINE n == NameAt(s, p)
           m == PayloadAt(s, p)
           e == NextAt(s, p)
<1>1. p < Len(s) /\ n <= Len(s) + 1 /\ e <= Len(s) + 1
  BY DEF Whole
<1>2. /\ n = p + (IF OpAt(s, p) = trigger_event THEN 4 ELSE 2)
      /\ m \in Nat /\ n <= m /\ e \in Nat /\ m <= e
  BY <1>1, WholeParts
<1>3. e <= Len(t) + 1 /\ \A j \in 1..e - 1 : t[j] = s[j]
  BY DEF Agrees
<1>4. n \in Nat /\ p + 2 <= n /\ (OpAt(s, p) = trigger_event => n = p + 4)
  BY <1>2
<1> HIDE DEF n, m, e
<1>5. p \in Nat /\ 1 <= p /\ p \in 1..e - 1 /\ p + 1 \in 1..e - 1
  BY <1>2, <1>4
<1>6. OpAt(s, p) = trigger_event => p + 2 \in 1..e - 1 /\ p + 3 \in 1..e - 1
  BY <1>2, <1>4, <1>5
<1>7. /\ OpAt(t, p) = OpAt(s, p) /\ NameAt(t, p) = n /\ PayloadAt(t, p) = m
      /\ NextAt(t, p) = e
  <2>1. t[p] = s[p] /\ t[p + 1] = s[p + 1]
    BY <1>3, <1>5
  <2>2. OpAt(s, p) = trigger_event => t[p + 2] = s[p + 2] /\ t[p + 3] = s[p + 3]
    BY <1>3, <1>6
  <2> QED BY <1>5, <2>1, <2>2, SameParts DEF n, m, e
<1>8. Whole(t, p)
  <2>1. p < Len(t) /\ n <= Len(t) + 1
    BY <1>2, <1>3, <1>4, <1>5
  <2> QED BY <1>3, <1>7, <2>1 DEF Whole
<1>9. SubSeq(t, n, m - 1) = SubSeq(s, n, m - 1)
  BY <1>1, <1>2, <1>3, <1>4, <1>5, SamePiece
<1>10. SubSeq(t, m, e - 1) = SubSeq(s, m, e - 1)
  BY <1>1, <1>2, <1>3, <1>4, <1>5, SamePiece
<1>11. PacketAt(t, p) = PacketAt(s, p)
  BY <1>7, <1>9, <1>10 DEF PacketAt, n, m, e
<1>12. p \in 1..Len(t) + 1
  BY <1>8, <1>5 DEF Whole
<1> QED BY <1>7, <1>8, <1>11, <1>12 DEF HandledAt, e

\* Whatever follows the bytes before p, those make the calls in h.
Settled(h, s, p) ==
  \A t \in Seq(Byte) : Agrees(t, s, p) => PacketsOf(t) = h \o PacketsFrom(t)[p]

\* One packet further.
LEMMA SettledNext ==
  ASSUME NEW h \in Seq(CallRecords), NEW s \in Seq(Byte), NEW p \in 1..Len(s) + 1,
         Settled(h, s, p), Whole(s, p)
  PROVE  Settled(h \o HandledAt(s, p), s, NextAt(s, p))
<1> DEFINE e == NextAt(s, p)
           one == HandledAt(s, p)
<1>1. e \in 1..Len(s) + 1 /\ p < e /\ one \in Seq(CallRecords)
  BY WholeNext, PacketType
<1>2. ASSUME NEW t \in Seq(Byte), Agrees(t, s, e)
      PROVE  PacketsOf(t) = (h \o one) \o PacketsFrom(t)[e]
  <2>1. /\ p \in 1..Len(t) + 1 /\ Whole(t, p)
        /\ NextAt(t, p) = e /\ HandledAt(t, p) = one
    BY <1>2, SamePacket
  <2>2. Agrees(t, s, p)
    <3> HIDE DEF e
    <3>1. \A j \in 1..p - 1 : j \in 1..e - 1
      BY <1>1
    <3> QED BY <1>1, <1>2, <2>1, <3>1 DEF Agrees
  <2>3. PacketsOf(t) = h \o PacketsFrom(t)[p]
    BY <2>2 DEF Settled
  <2>4. e \in 1..Len(t) + 1
    BY <2>1, WholeNext
  <2>5. PacketsFrom(t)[p] = one \o PacketsFrom(t)[e] /\ PacketsFrom(t)[e] \in Seq(CallRecords)
    BY <2>1, <2>4, PacketsStep
  <2> DEFINE more == PacketsFrom(t)[e]
  <2>6. more \in Seq(CallRecords)
    BY <2>5
  <2> HIDE DEF e, one, more
  <2>7. (h \o one) \o more = h \o (one \o more)
    BY <1>1, <2>6, ConcatAssociative
  <2> QED BY <2>3, <2>5, <2>7 DEF more
<1> QED BY <1>2 DEF Settled

-----------------------------------------------------------------------------
(***************************************************************************)
(* Framing.  Before packet p the calls are settled; of packet p the parser *)
(* has read the parts that its step says, and taken the bytes of no other. *)
(***************************************************************************)
\* What get returns are the next bytes of the stream.
LEMMA PeekIs ==
  ASSUME BufferInv, NEW n \in Nat, n <= avaliable(buffer)
  PROVE  /\ \A i \in 1..n : peek(buffer, n)[i] = stream[taken + i]
         /\ peek(buffer, n) = SubSeq(stream, taken + 1, (taken + n + 1) - 1)
         /\ taken \in Nat /\ taken + n <= received /\ received <= Len(stream)
         /\ received \in Nat /\ stream \in Seq(Byte) /\ Len(stream) \in Nat
<1> DEFINE q == peek(buffer, n)
           r == SubSeq(stream, taken + 1, (taken + n + 1) - 1)
<1>1. /\ stream \in Seq(Byte) /\ taken \in Nat /\ received \in 0..Len(stream)
      /\ taken + n <= received /\ received <= Len(stream) /\ Len(stream) \in Nat
  <2>1. /\ stream \in Seq(Byte) /\ received \in 0..Len(stream) /\ taken \in 0..received
        /\ avaliable(buffer) = received - taken
    BY StreamsOfBytes DEF BufferInv
  <2>2. Len(stream) \in Nat
    BY <2>1
  <2> DEFINE u == avaliable(buffer)
             z == Len(stream)
  <2>3. received \in 0..z /\ taken \in 0..received /\ u = received - taken /\ z \in Nat /\ n <= u
    BY <2>1, <2>2
  <2> HIDE DEF u, z
  <2>4. taken \in Nat /\ taken + n <= received /\ received <= z
    BY <2>3
  <2> QED BY <2>1, <2>2, <2>4 DEF z
<1>2. q = [i \in 1..n |-> buffer.memory[buffer.read + i]]
  BY DEF peek
<1>3. ASSUME NEW i \in 1..n PROVE q[i] = stream[taken + i]
  <2>1. i \in 1..avaliable(buffer)
    BY <1>1 DEF BufferInv
  <2>2. buffer.memory[buffer.read + i] = stream[taken + i]
    BY <2>1 DEF BufferInv, Holds
  <2> QED BY <1>2, <2>2
<1>4. q \in Seq(Byte) /\ Len(q) = n
  <2>1. q \in Seq(Byte)
    BY PeekBytes
  <2> QED BY <1>2, <2>1
<1>5. r \in Seq(Byte) /\ Len(r) = n /\ \A i \in 1..n : r[i] = stream[taken + i]
  <2> DEFINE a == taken + 1
             b == taken + n + 1
  <2>1. a \in Nat /\ b \in Nat /\ 1 <= a /\ a <= b /\ b <= Len(stream) + 1 /\ b - a = n
    BY <1>1
  <2>2. \A i \in 1..n : (a + i) - 1 = taken + i
    BY <1>1
  <2> HIDE DEF a, b
  <2>3. /\ SubSeq(stream, a, b - 1) \in Seq(Byte)
        /\ Len(SubSeq(stream, a, b - 1)) = b - a
        /\ \A k \in 1..b - a : SubSeq(stream, a, b - 1)[k] = stream[(a + k) - 1]
    BY <1>1, <2>1, PieceType
  <2> QED BY <2>1, <2>2, <2>3 DEF a, b
<1> HIDE DEF q, r
<1>6. q = r
  BY <1>3, <1>4, <1>5, SeqEqual
<1> QED BY <1>1, <1>3, <1>6 DEF q, r

\* How far the parser is in the packet that starts at byte p.
Here(p) ==
  /\ p \in 1..Len(stream) + 1
  /\ step = "header" => taken = p - 1
  /\ step # "header" => p <= taken /\ opcode = OpcodeOf(stream[p])
  /\ step = "name_length" => taken = p
  /\ step = "payload_length" =>
       taken = p + 1 /\ opcode = trigger_event /\ name_length = stream[p + 1]
  /\ step = "name" =>
       /\ NameAt(stream, p) = taken + 1
       /\ PayloadAt(stream, p) = NameAt(stream, p) + name_length
       /\ opcode = trigger_event => NextAt(stream, p) = PayloadAt(stream, p) + payload_length
  /\ step = "payload" =>
       /\ PayloadAt(stream, p) = taken + 1
       /\ opcode = trigger_event
       /\ NextAt(stream, p) = PayloadAt(stream, p) + payload_length
  /\ step \in {"payload", "process"} =>
       /\ NameAt(stream, p) <= taken + 1
       /\ name = SubSeq(stream, NameAt(stream, p), PayloadAt(stream, p) - 1)
  /\ step = "process" =>
       /\ NextAt(stream, p) = taken + 1
       /\ opcode = trigger_event =>
            payload = SubSeq(stream, PayloadAt(stream, p), NextAt(stream, p) - 1)

FrameInv == \E p \in Nat : Here(p) /\ Settled(handled, stream, p)

\* A new connection is before the first packet.
LEMMA FrameInit == Init => FrameInv
<1> SUFFICES ASSUME Init PROVE FrameInv
  OBVIOUS
<1>1. stream \in Seq(Byte) /\ taken = 0 /\ step = "header" /\ handled = <<>>
  BY StreamsOfBytes DEF Init, BufferInit
<1>2. Here(1)
  BY <1>1 DEF Here
<1>3. Settled(handled, stream, 1)
  <2>1. ASSUME NEW t \in Seq(Byte) PROVE PacketsOf(t) = <<>> \o PacketsFrom(t)[1]
    <3>1. 1 \in 1..Len(t) + 1
      OBVIOUS
    <3> DEFINE more == PacketsFrom(t)[1]
    <3>2. more \in Seq(CallRecords)
      BY <3>1, PacketsStep
    <3> HIDE DEF more
    <3>3. <<>> \o more = more
      BY <3>2, ConcatEmptySeq
    <3> QED BY <3>3 DEF PacketsOf, more
  <2> QED BY <1>1, <2>1 DEF Settled
<1> QED BY <1>2, <1>3 DEF FrameInv

\* The opcode the parser keeps, and the operation of the packet.
LEMMA OpcodeIs ==
  ASSUME NEW s \in Seq(Byte), NEW p \in 1..Len(s)
  PROVE  /\ OpcodeOf(s[p]) = trigger_event <=> OpAt(s, p) = trigger_event
         /\ OpcodeOf(s[p]) = undefined <=> OpAt(s, p) > 7
         /\ OpcodeOf(s[p]) # undefined => OpcodeOf(s[p]) = OpAt(s, p)
<1>1. s[p] \in Byte
  OBVIOUS
<1>2. \A b \in Nat : b % 16 \in 0..15
  OBVIOUS
<1>3. OpAt(s, p) \in 0..15
  BY <1>1, <1>2, ByteIsNat DEF OpAt
<1>4. OpcodeOf(s[p]) = IF OpAt(s, p) > 7 THEN undefined ELSE OpAt(s, p)
  BY DEF OpcodeOf, OpAt
<1> HIDE DEF OpcodeOf, OpAt
<1> QED BY <1>3, <1>4 DEF undefined, trigger_event

\* The order of the steps.
LEMMA StepsFollow ==
  /\ step = "header"         => NextStep = "name_length"
  /\ step = "name_length"    => NextStep = IF opcode = trigger_event THEN "payload_length" ELSE "name"
  /\ step = "payload_length" => NextStep = "name"
  /\ step = "name"           => NextStep = IF opcode = trigger_event THEN "payload" ELSE "process"
  /\ step = "payload"        => NextStep = "process"
  /\ step = "process"        => NextStep = "header"
BY DEF NextStep

\* What a step of the parser takes.
LEMMA Moves ==
  ASSUME ReceiverInv, NEW s, NEW n \in Nat, Parsing(s, n)
  PROVE  /\ step = s /\ step' = NextStep
         /\ stream' = stream /\ taken' = taken + n /\ n <= avaliable(buffer)
         /\ taken \in Nat /\ taken + n <= Len(stream)
         /\ stream \in Seq(Byte) /\ Len(stream) \in Nat
<1>1. Get(n) /\ step = s /\ step' = NextStep /\ BufferInv
  BY DEF Parsing, ReceiverInv
<1>2. n <= avaliable(buffer) /\ stream' = stream /\ taken' = taken + n
  BY <1>1 DEF Get
<1>3. /\ taken \in Nat /\ taken + n <= received /\ received <= Len(stream) /\ received \in Nat
      /\ stream \in Seq(Byte) /\ Len(stream) \in Nat
  BY <1>1, <1>2, PeekIs
<1>4. taken + n <= Len(stream)
  BY <1>3
<1> QED BY <1>1, <1>2, <1>3, <1>4

\* The parser has the bytes of the stream up to its own place, and no packet
\* starts behind them.
LEMMA HereIs ==
  ASSUME ReceiverInv, NEW p \in Nat, Here(p)
  PROVE  /\ stream \in Seq(Byte) /\ Len(stream) \in Nat /\ taken \in Nat /\ taken <= Len(stream)
         /\ p \in 1..Len(stream) + 1
         /\ step # "header" => /\ p \in 1..Len(stream)
                               /\ opcode = OpcodeOf(stream[p])
                               /\ opcode = trigger_event <=> OpAt(stream, p) = trigger_event
<1>1. stream \in Seq(Byte) /\ Len(stream) \in Nat /\ taken \in Nat /\ taken <= Len(stream)
  <2>1. stream \in Seq(Byte) /\ received \in 0..Len(stream) /\ taken \in 0..received
    BY StreamsOfBytes DEF ReceiverInv, BufferInv
  <2>2. Len(stream) \in Nat
    BY <2>1
  <2> QED BY <2>1, <2>2
<1>2. p \in 1..Len(stream) + 1
  BY DEF Here
<1>3. ASSUME step # "header"
      PROVE  p \in 1..Len(stream) /\ opcode = OpcodeOf(stream[p])
  <2>1. p <= taken /\ opcode = OpcodeOf(stream[p])
    BY <1>3 DEF Here
  <2> QED BY <1>1, <1>2, <2>1
<1> QED BY <1>1, <1>2, <1>3, OpcodeIs

\* The header.
LEMMA FrameHeader ==
  ASSUME ReceiverInv, FrameInv, parse_header
  PROVE  FrameInv'
<1>1. PICK p \in Nat : Here(p) /\ Settled(handled, stream, p)
  BY DEF FrameInv
<1>2. Parsing("header", 1) /\ opcode' = OpcodeOf(peek(buffer, 1)[1]) /\ handled' = handled
  BY DEF parse_header
<1>3. /\ step = "header" /\ step' = NextStep /\ stream' = stream /\ taken' = taken + 1
      /\ 1 <= avaliable(buffer) /\ taken + 1 <= Len(stream)
  BY <1>2, Moves
<1>4. peek(buffer, 1)[1] = stream[taken + 1]
  <2>1. \A i \in 1..1 : peek(buffer, 1)[i] = stream[taken + i]
    BY <1>3, PeekIs DEF ReceiverInv
  <2> QED BY <2>1
<1>5. step' = "name_length"
  BY <1>3, StepsFollow
<1>6. taken = p - 1 /\ p \in 1..Len(stream) + 1 /\ taken \in Nat
  BY <1>1, <1>3, HereIs DEF Here
<1>7. taken' = p /\ opcode' = OpcodeOf(stream[p])
  <2>1. taken + 1 = p
    BY <1>6
  <2> QED BY <1>2, <1>3, <1>4, <2>1
<1>8. Here(p)'
  <2>1. p <= taken'
    BY <1>7
  <2> QED BY <1>3, <1>5, <1>6, <1>7, <2>1 DEF Here
<1> QED BY <1>1, <1>2, <1>3, <1>8 DEF FrameInv

\* The length of the name.
LEMMA FrameNameLength ==
  ASSUME ReceiverInv, FrameInv, read_name_length
  PROVE  FrameInv'
<1>1. PICK p \in Nat : Here(p) /\ Settled(handled, stream, p)
  BY DEF FrameInv
<1>2. /\ Parsing("name_length", 1) /\ name_length' = peek(buffer, 1)[1] /\ handled' = handled
      /\ opcode' = opcode
  BY DEF read_name_length
<1>3. /\ step = "name_length" /\ step' = NextStep /\ stream' = stream /\ taken' = taken + 1
      /\ 1 <= avaliable(buffer) /\ taken + 1 <= Len(stream)
  BY <1>2, Moves
<1>4. peek(buffer, 1)[1] = stream[taken + 1]
  <2>1. \A i \in 1..1 : peek(buffer, 1)[i] = stream[taken + i]
    BY <1>3, PeekIs DEF ReceiverInv
  <2> QED BY <2>1
<1>5. taken = p
  BY <1>1, <1>3 DEF Here
<1>6. /\ p \in 1..Len(stream) + 1 /\ opcode = OpcodeOf(stream[p])
      /\ opcode = trigger_event <=> OpAt(stream, p) = trigger_event
  BY <1>1, <1>3, HereIs
<1>7. taken' = p + 1 /\ name_length' = stream[p + 1]
  BY <1>2, <1>3, <1>4, <1>5
<1>8. p <= taken'
  BY <1>7
<1>9. CASE opcode = trigger_event
  <2>1. step' = "payload_length"
    BY <1>3, <1>9, StepsFollow
  <2>2. Here(p)'
    BY <1>2, <1>3, <1>6, <1>7, <1>8, <1>9, <2>1 DEF Here
  <2> QED BY <1>1, <1>2, <1>3, <2>2 DEF FrameInv
<1>10. CASE opcode # trigger_event
  <2>1. step' = "name"
    BY <1>3, <1>10, StepsFollow
  <2>2. NameAt(stream, p) = p + 2 /\ PayloadAt(stream, p) = NameAt(stream, p) + stream[p + 1]
    BY <1>6, <1>10 DEF NameAt, PayloadAt
  <2>3. NameAt(stream, p) = taken' + 1
    BY <1>7, <2>2
  <2>4. Here(p)'
    BY <1>2, <1>3, <1>6, <1>7, <1>8, <1>10, <2>1, <2>2, <2>3 DEF Here
  <2> QED BY <1>1, <1>2, <1>3, <2>4 DEF FrameInv
<1> QED BY <1>9, <1>10

\* The length of the payload.
LEMMA FramePayloadLength ==
  ASSUME ReceiverInv, FrameInv, read_payload_length
  PROVE  FrameInv'
<1>1. PICK p \in Nat : Here(p) /\ Settled(handled, stream, p)
  BY DEF FrameInv
<1>2. /\ Parsing("payload_length", 2) /\ payload_length' = PayloadLength(peek(buffer, 2))
      /\ handled' = handled /\ opcode' = opcode /\ name_length' = name_length
  BY DEF read_payload_length
<1>3. /\ step = "payload_length" /\ step' = NextStep /\ stream' = stream /\ taken' = taken + 2
      /\ 2 <= avaliable(buffer) /\ taken + 2 <= Len(stream)
  BY <1>2, Moves
<1>4. peek(buffer, 2)[1] = stream[taken + 1] /\ peek(buffer, 2)[2] = stream[taken + 2]
  <2>1. \A i \in 1..2 : peek(buffer, 2)[i] = stream[taken + i]
    BY <1>3, PeekIs DEF ReceiverInv
  <2> QED BY <2>1
<1>5. taken = p + 1 /\ opcode = trigger_event /\ name_length = stream[p + 1]
  BY <1>1, <1>3 DEF Here
<1>6. /\ p \in 1..Len(stream) + 1 /\ opcode = OpcodeOf(stream[p])
      /\ OpAt(stream, p) = trigger_event
  BY <1>1, <1>3, <1>5, HereIs
<1>7. taken' = p + 3 /\ payload_length' = (stream[p + 2] * 256) + stream[p + 3]
  <2>1. taken + 1 = p + 2 /\ taken + 2 = p + 3
    BY <1>5
  <2> QED BY <1>2, <1>3, <1>4, <2>1 DEF PayloadLength
<1>8. p <= taken' /\ step' = "name"
  BY <1>3, <1>7, StepsFollow
<1>9. /\ NameAt(stream, p) = p + 4
      /\ PayloadAt(stream, p) = NameAt(stream, p) + stream[p + 1]
      /\ NextAt(stream, p) = PayloadAt(stream, p) + ((stream[p + 2] * 256) + stream[p + 3])
  BY <1>6 DEF NameAt, PayloadAt, NextAt
<1>10. NameAt(stream, p) = taken' + 1
  BY <1>7, <1>9
<1>11. Here(p)'
  BY <1>2, <1>3, <1>5, <1>6, <1>7, <1>8, <1>9, <1>10 DEF Here
<1> QED BY <1>1, <1>2, <1>3, <1>11 DEF FrameInv

\* A name starts after the first two bytes of its packet.
LEMMA NameAtIs ==
  ASSUME NEW s, NEW p \in Nat
  PROVE  NameAt(s, p) \in Nat /\ p + 2 <= NameAt(s, p)
<1>1. NameAt(s, p) = p + 2 \/ NameAt(s, p) = p + 4
  BY DEF NameAt
<1> QED BY <1>1

\* The name.
LEMMA FrameName ==
  ASSUME ReceiverInv, FrameInv, read_name
  PROVE  FrameInv'
<1>1. PICK p \in Nat : Here(p) /\ Settled(handled, stream, p)
  BY DEF FrameInv
<1>2. /\ Parsing("name", name_length) /\ name' = peek(buffer, name_length)
      /\ handled' = handled /\ opcode' = opcode /\ payload_length' = payload_length
  BY DEF read_name
<1>3. name_length \in Nat
  BY MaxTypes DEF ReceiverInv, ParserInv
<1>4. /\ step = "name" /\ step' = NextStep /\ stream' = stream /\ taken' = taken + name_length
      /\ name_length <= avaliable(buffer) /\ taken \in Nat
  BY <1>2, <1>3, Moves
<1>5. name' = SubSeq(stream, taken + 1, (taken + name_length + 1) - 1)
  BY <1>2, <1>3, <1>4, PeekIs DEF ReceiverInv
<1>6. /\ NameAt(stream, p) = taken + 1
      /\ PayloadAt(stream, p) = NameAt(stream, p) + name_length
      /\ opcode = trigger_event => NextAt(stream, p) = PayloadAt(stream, p) + payload_length
  BY <1>1, <1>4 DEF Here
<1>7. /\ p \in 1..Len(stream) + 1 /\ opcode = OpcodeOf(stream[p])
      /\ opcode = trigger_event <=> OpAt(stream, p) = trigger_event
  BY <1>1, <1>4, HereIs
<1>8. NameAt(stream, p) \in Nat /\ p + 2 <= NameAt(stream, p)
  BY NameAtIs
<1>9. /\ taken + name_length + 1 = PayloadAt(stream, p)
      /\ NameAt(stream, p) <= taken' + 1
      /\ PayloadAt(stream, p) = taken' + 1 /\ p <= taken'
  BY <1>3, <1>4, <1>6, <1>8
<1>10. name' = SubSeq(stream, NameAt(stream, p), PayloadAt(stream, p) - 1)
  BY <1>5, <1>6, <1>9
<1>11. CASE opcode = trigger_event
  <2>1. step' = "payload"
    BY <1>4, <1>11, StepsFollow
  <2>2. Here(p)'
    BY <1>2, <1>4, <1>6, <1>7, <1>9, <1>10, <1>11, <2>1 DEF Here
  <2> QED BY <1>1, <1>2, <1>4, <2>2 DEF FrameInv
<1>12. CASE opcode # trigger_event
  <2>1. step' = "process"
    BY <1>4, <1>12, StepsFollow
  <2>2. NextAt(stream, p) = PayloadAt(stream, p)
    <3>1. NextAt(stream, p) = PayloadAt(stream, p) + 0
      BY <1>7, <1>12 DEF NextAt
    <3> QED BY <1>3, <1>6, <1>8, <3>1
  <2>3. NextAt(stream, p) = taken' + 1
    BY <1>9, <2>2
  <2>4. Here(p)'
    BY <1>2, <1>4, <1>7, <1>9, <1>10, <1>12, <2>1, <2>3 DEF Here
  <2> QED BY <1>1, <1>2, <1>4, <2>4 DEF FrameInv
<1> QED BY <1>11, <1>12

\* The payload.
LEMMA FramePayload ==
  ASSUME ReceiverInv, FrameInv, read_payload
  PROVE  FrameInv'
<1>1. PICK p \in Nat : Here(p) /\ Settled(handled, stream, p)
  BY DEF FrameInv
<1>2. /\ Parsing("payload", payload_length) /\ payload' = peek(buffer, payload_length)
      /\ handled' = handled /\ opcode' = opcode /\ name' = name
  BY DEF read_payload
<1>3. payload_length \in Nat
  BY MaxTypes DEF ReceiverInv, ParserInv
<1>4. /\ step = "payload" /\ step' = NextStep /\ stream' = stream
      /\ taken' = taken + payload_length
      /\ payload_length <= avaliable(buffer) /\ taken \in Nat
  BY <1>2, <1>3, Moves
<1>5. payload' = SubSeq(stream, taken + 1, (taken + payload_length + 1) - 1)
  BY <1>2, <1>3, <1>4, PeekIs DEF ReceiverInv
<1>6. /\ PayloadAt(stream, p) = taken + 1 /\ opcode = trigger_event
      /\ NameAt(stream, p) <= taken + 1
      /\ NextAt(stream, p) = PayloadAt(stream, p) + payload_length
      /\ name = SubSeq(stream, NameAt(stream, p), PayloadAt(stream, p) - 1)
      /\ p <= taken
  BY <1>1, <1>4 DEF Here
<1>7. p \in 1..Len(stream) + 1 /\ opcode = OpcodeOf(stream[p])
  BY <1>1, <1>4, HereIs
<1>8. /\ taken + payload_length + 1 = NextAt(stream, p)
      /\ NextAt(stream, p) = taken' + 1 /\ p <= taken' /\ NameAt(stream, p) <= taken' + 1
  <2>1. NameAt(stream, p) \in Nat
    BY NameAtIs
  <2> QED BY <1>3, <1>4, <1>6, <2>1
<1>9. payload' = SubSeq(stream, PayloadAt(stream, p), NextAt(stream, p) - 1)
  BY <1>5, <1>6, <1>8
<1>10. step' = "process"
  BY <1>4, StepsFollow
<1>11. Here(p)'
  BY <1>2, <1>4, <1>6, <1>7, <1>8, <1>9, <1>10 DEF Here
<1> QED BY <1>1, <1>2, <1>4, <1>11 DEF FrameInv

\* A packet whose last byte the parser has read is whole.
LEMMA WholeHere ==
  ASSUME ReceiverInv, NEW p \in Nat, Here(p), step = "process"
  PROVE  Whole(stream, p)
<1>1. /\ stream \in Seq(Byte) /\ Len(stream) \in Nat /\ taken \in Nat /\ taken <= Len(stream)
      /\ p \in 1..Len(stream)
  BY HereIs
<1>2. NextAt(stream, p) = taken + 1 /\ NameAt(stream, p) <= taken + 1
  BY DEF Here
<1>3. NameAt(stream, p) \in Nat /\ p + 2 <= NameAt(stream, p)
  BY NameAtIs
<1>4. p < Len(stream) /\ NameAt(stream, p) <= Len(stream) + 1 /\ NextAt(stream, p) <= Len(stream) + 1
  BY <1>1, <1>2, <1>3
<1> QED BY <1>4 DEF Whole

\* Only "trigger event" has a payload.
LEMMA NoPayload ==
  ASSUME NEW s \in Seq(Byte), NEW p \in 1..Len(s) + 1, Whole(s, p), OpAt(s, p) # trigger_event
  PROVE  SubSeq(s, PayloadAt(s, p), NextAt(s, p) - 1) = <<>>
<1>1. PayloadAt(s, p) \in Nat
  BY WholeParts DEF Whole
<1>2. NextAt(s, p) = PayloadAt(s, p)
  <2>1. NextAt(s, p) = PayloadAt(s, p) + 0
    BY DEF NextAt
  <2> QED BY <1>1, <2>1
<1>3. PayloadAt(s, p) - 1 < PayloadAt(s, p) /\ PayloadAt(s, p) - 1 \in Int
  BY <1>1
<1> QED BY <1>1, <1>2, <1>3, SubSeqEmpty

\* The packet is whole, and the handler that it is for is called with its parts.
LEMMA FrameProcess ==
  ASSUME ReceiverInv, FrameInv, process_packet
  PROVE  FrameInv'
<1>1. PICK p \in Nat : Here(p) /\ Settled(handled, stream, p)
  BY DEF FrameInv
<1>2. /\ Parsing("process", 0)
      /\ handled' = IF opcode = undefined THEN handled
                    ELSE Append(handled, Call(opcode, name, payload))
  BY DEF process_packet
<1>3. /\ step = "process" /\ step' = NextStep /\ stream' = stream /\ taken' = taken + 0
      /\ taken \in Nat
  BY <1>2, Moves
<1>4. step' = "header" /\ taken' = taken
  BY <1>3, StepsFollow
<1>5. /\ NextAt(stream, p) = taken + 1
      /\ name = SubSeq(stream, NameAt(stream, p), PayloadAt(stream, p) - 1)
      /\ opcode = trigger_event =>
           payload = SubSeq(stream, PayloadAt(stream, p), NextAt(stream, p) - 1)
      /\ p <= taken
  BY <1>1, <1>3 DEF Here
<1>6. /\ stream \in Seq(Byte) /\ Len(stream) \in Nat /\ taken <= Len(stream)
      /\ p \in 1..Len(stream) + 1 /\ p \in 1..Len(stream) /\ opcode = OpcodeOf(stream[p])
      /\ opcode = trigger_event <=> OpAt(stream, p) = trigger_event
  BY <1>1, <1>3, HereIs
<1>7. Whole(stream, p)
  BY <1>1, <1>3, WholeHere DEF ReceiverInv
<1>8. NextAt(stream, p) \in Nat /\ Here(NextAt(stream, p))'
  BY <1>3, <1>4, <1>5, <1>6 DEF Here
<1>9. handled \in Seq(CallRecords) /\ HandledAt(stream, p) \in Seq(CallRecords)
  BY <1>6, <1>7, PacketType DEF ReceiverInv, ReadInv, CallRecords
<1>10. handled' = handled \o HandledAt(stream, p)
  <2>1. CASE opcode = undefined
    <3>1. HandledAt(stream, p) = <<>>
      BY <1>6, <2>1, OpcodeIs DEF HandledAt
    <3>2. handled \o <<>> = handled
      BY <1>9, ConcatEmptySeq
    <3> QED BY <1>2, <2>1, <3>1, <3>2
  <2>2. CASE opcode # undefined
    <3>1. opcode = OpAt(stream, p) /\ ~(OpAt(stream, p) > 7)
      BY <1>6, <2>2, OpcodeIs
    <3>2. Call(opcode, name, payload) = PacketAt(stream, p)
      BY <1>5, <1>6, <1>7, <3>1, NoPayload DEF Call, PacketAt
    <3>3. HandledAt(stream, p) = <<PacketAt(stream, p)>>
      BY <3>1 DEF HandledAt
    <3> DEFINE c == PacketAt(stream, p)
    <3>4. c \in CallRecords
      <4>1. Len(<<c>>) = 1 /\ <<c>>[1] = c /\ <<c>> \in Seq(CallRecords)
        BY <1>9, <3>3
      <4> QED BY <4>1
    <3> HIDE DEF c
    <3>5. Append(handled, c) = handled \o <<c>>
      BY <1>9, <3>4, AppendIsConcat
    <3> QED BY <1>2, <2>2, <3>2, <3>3, <3>5 DEF c
  <2> QED BY <2>1, <2>2
<1>11. Settled(handled \o HandledAt(stream, p), stream, NextAt(stream, p))
  BY <1>1, <1>6, <1>7, <1>9, SettledNext
<1>12. Settled(handled', stream', NextAt(stream, p))
  BY <1>3, <1>10, <1>11
<1> QED BY <1>3, <1>8, <1>12 DEF FrameInv

\* What recv does, and the end of the loop, change nothing of what was read.
LEMMA FrameKept ==
  ASSUME FrameInv, UNCHANGED <<stream, taken, step, opcode, name_length, payload_length, name,
                               payload, handled>>
  PROVE  FrameInv'
<1>1. PICK p \in Nat : Here(p) /\ Settled(handled, stream, p)
  BY DEF FrameInv
<1>2. Here(p)'
  BY <1>1 DEF Here
<1> QED BY <1>1, <1>2 DEF FrameInv

\* Every step of the connection keeps the parser at its place in the stream.
LEMMA FrameNext ==
  ASSUME ReceiverInv, FrameInv, [Next]_vars
  PROVE  FrameInv'
<1>1. CASE Leave
  BY <1>1, FrameKept DEF Leave, PeerLeaves, fields
<1>2. CASE ReceiveInput
  <2>1. UNCHANGED <<stream, taken>>
    BY <1>2 DEF ReceiveInput, Receive, ReceiveError
  <2> QED BY <1>2, <2>1, FrameKept DEF ReceiveInput, fields
<1>3. CASE Disconnected
  BY <1>3, FrameKept DEF Disconnected, ReceiveNothing, fields
<1>4. CASE ParsedAll
  BY <1>4, FrameKept DEF ParsedAll, bufferVars, fields
<1>5. CASE UNCHANGED vars
  BY <1>5, FrameKept DEF vars, bufferVars, fields
<1> QED BY <1>1, <1>2, <1>3, <1>4, <1>5, FrameHeader, FrameNameLength, FramePayloadLength,
           FrameName, FramePayload, FrameProcess DEF Next

\* The bytes that recv has returned.
LEMMA ArrivedIs ==
  ASSUME BufferInv
  PROVE  /\ Arrived \in Seq(Byte) /\ Len(Arrived) = received
         /\ \A k \in 1..received : Arrived[k] = stream[k]
         /\ received \in Nat /\ received <= Len(stream) /\ taken \in Nat /\ taken <= received
<1>1. /\ stream \in Seq(Byte) /\ received \in 0..Len(stream) /\ taken \in 0..received
  BY StreamsOfBytes DEF BufferInv
<1>2. received \in Nat /\ received <= Len(stream) /\ taken \in Nat /\ taken <= received
  BY <1>1
<1>3. /\ SubSeq(stream, 1, (received + 1) - 1) \in Seq(Byte)
      /\ Len(SubSeq(stream, 1, (received + 1) - 1)) = (received + 1) - 1
      /\ \A k \in 1..(received + 1) - 1 :
           SubSeq(stream, 1, (received + 1) - 1)[k] = stream[(1 + k) - 1]
  BY <1>1, <1>2, PieceType
<1>4. (received + 1) - 1 = received /\ \A k \in 1..received : (1 + k) - 1 = k
  BY <1>2
<1> QED BY <1>2, <1>3, <1>4 DEF Arrived

\* When the server waits, the packet it is in is not whole.
LEMMA LackingIsNotWhole ==
  ASSUME ReceiverInv, NEW p \in Nat, Here(p), phase = "select"
  PROVE  ~Whole(Arrived, p)
<1> DEFINE u == avaliable(buffer)
           w == required_input_size
           t == Arrived
<1>1. /\ t \in Seq(Byte) /\ Len(t) = received /\ \A k \in 1..received : t[k] = stream[k]
      /\ received \in Nat /\ taken \in Nat /\ taken <= received
      /\ u = received - taken /\ u < w
  BY ArrivedIs DEF ReceiverInv, BufferInv, Lacking
<1>2. /\ stream \in Seq(Byte) /\ p \in 1..Len(stream) + 1
      /\ step # "header" => opcode = trigger_event <=> OpAt(stream, p) = trigger_event
  BY HereIs
<1>3. w \in Nat
  BY RequiredType, MaxTypes DEF ReceiverInv
<1>4. received < taken + w
  <2> HIDE DEF u, w
  <2> QED BY <1>1, <1>3
<1> HIDE DEF t
<1> SUFFICES ASSUME Whole(t, p) PROVE FALSE
  BY DEF t
<1>5. p < received /\ NameAt(t, p) <= received + 1 /\ NextAt(t, p) <= received + 1
  BY <1>1 DEF Whole
<1>6. /\ NameAt(t, p) \in Nat /\ p + 2 <= NameAt(t, p)
      /\ PayloadAt(t, p) \in Nat /\ NameAt(t, p) <= PayloadAt(t, p)
      /\ NextAt(t, p) \in Nat /\ PayloadAt(t, p) <= NextAt(t, p)
  <2>1. p \in 1..Len(t) + 1 /\ p < Len(t) /\ NameAt(t, p) <= Len(t) + 1
    BY <1>1, <1>2, <1>5
  <2> QED BY <1>1, <2>1, WholeParts, NameAtIs
<1>7. t[p] = stream[p] /\ t[p + 1] = stream[p + 1]
  BY <1>1, <1>2, <1>5
<1>8. /\ OpAt(t, p) = OpAt(stream, p) /\ NameAt(t, p) = NameAt(stream, p)
      /\ PayloadAt(t, p) = PayloadAt(stream, p)
  BY <1>7, SameParts
<1>9. NextAt(t, p) = NextAt(stream, p)
  <2>1. CASE OpAt(stream, p) = trigger_event
    <3>1. NameAt(t, p) = p + 4
      BY <1>8, <2>1 DEF NameAt
    <3>2. p + 2 \in 1..received /\ p + 3 \in 1..received
      BY <1>1, <1>5, <3>1
    <3>3. t[p + 2] = stream[p + 2] /\ t[p + 3] = stream[p + 3]
      BY <1>1, <3>2
    <3> QED BY <1>7, <3>3, SameParts
  <2>2. CASE OpAt(stream, p) # trigger_event
    BY <1>7, <2>2, SameParts
  <2> QED BY <2>1, <2>2
<1>10. CASE step = "header"
  <2>1. w = 1 /\ taken = p - 1
    BY <1>10 DEF required_input_size, Here
  <2> HIDE DEF w
  <2> QED BY <1>1, <1>4, <1>5, <2>1
<1>11. CASE step = "name_length"
  <2>1. w = 1 /\ taken = p
    BY <1>11 DEF required_input_size, Here
  <2> HIDE DEF w
  <2> QED BY <1>1, <1>4, <1>5, <2>1
<1>12. CASE step = "payload_length"
  <2>1. w = 2 /\ taken = p + 1 /\ opcode = trigger_event
    BY <1>12 DEF required_input_size, Here
  <2>2. NameAt(stream, p) = p + 4
    BY <1>2, <1>12, <2>1 DEF NameAt
  <2> HIDE DEF w
  <2> QED BY <1>1, <1>4, <1>5, <1>8, <2>1, <2>2
<1>13. CASE step = "name"
  <2>1. /\ w = name_length /\ NameAt(stream, p) = taken + 1
        /\ PayloadAt(stream, p) = NameAt(stream, p) + name_length
    BY <1>13 DEF required_input_size, Here
  <2> HIDE DEF w
  <2> QED BY <1>1, <1>3, <1>4, <1>5, <1>6, <1>8, <2>1
<1>14. CASE step = "payload"
  <2>1. /\ w = payload_length /\ PayloadAt(stream, p) = taken + 1
        /\ NextAt(stream, p) = PayloadAt(stream, p) + payload_length
    BY <1>14 DEF required_input_size, Here
  <2> HIDE DEF w
  <2> QED BY <1>1, <1>3, <1>4, <1>5, <1>6, <1>9, <2>1
<1>15. CASE step = "process"
  <2>1. w = 0
    BY <1>15 DEF required_input_size
  <2> HIDE DEF w
  <2> QED BY <1>1, <1>4, <2>1
<1>16. step \in Steps
  BY DEF ReceiverInv, ParserInv
<1> QED BY <1>10, <1>11, <1>12, <1>13, <1>14, <1>15, <1>16 DEF Steps

\* Of two sequences put together, the first is the beginning.
LEMMA Beginning ==
  ASSUME NEW S, NEW a \in Seq(S), NEW b \in Seq(S)
  PROVE  /\ Len(a) <= Len(a \o b) /\ a = SubSeq(a \o b, 1, Len(a))
         /\ \A i \in 1..Len(a) : (a \o b)[i] = a[i]
<1> DEFINE c == a \o b
<1>1. /\ c \in Seq(S) /\ Len(c) = Len(a) + Len(b)
      /\ \A i \in 1..Len(a) : c[i] = a[i]
  BY ConcatProperties
<1>2. Len(a) \in Nat /\ Len(b) \in Nat
  OBVIOUS
<1> HIDE DEF c
<1> DEFINE d == SubSeq(c, 1, Len(a))
<1>3. d \in Seq(S) /\ Len(d) = Len(a) /\ \A i \in 1..Len(a) : d[i] = c[i]
  BY <1>1, <1>2
<1> HIDE DEF d
<1>4. d = a
  BY <1>1, <1>3, SeqEqual
<1>5. Len(a) <= Len(c)
  BY <1>1, <1>2
<1> QED BY <1>1, <1>4, <1>5 DEF c, d

\* What the parser has handled is settled for the bytes that have arrived.
LEMMA FrameImplies ==
  ASSUME ReceiverInv, FrameInv
  PROVE  FramingExact
<1> DEFINE whole == PacketsOf(Arrived)
<1>1. PICK p \in Nat : Here(p) /\ Settled(handled, stream, p)
  BY DEF FrameInv
<1>2. /\ Arrived \in Seq(Byte) /\ Len(Arrived) = received
      /\ \A k \in 1..received : Arrived[k] = stream[k]
      /\ received \in Nat /\ taken \in Nat /\ taken <= received
  BY ArrivedIs DEF ReceiverInv
<1>3. p \in Nat /\ 1 <= p /\ p <= taken + 1
  <2>1. p \in 1..Len(stream) + 1 /\ (step = "header" => taken = p - 1)
        /\ (step # "header" => p <= taken)
    BY <1>1 DEF Here
  <2> QED BY <1>2, <2>1
<1>4. Agrees(Arrived, stream, p) /\ p \in 1..Len(Arrived) + 1
  BY <1>2, <1>3 DEF Agrees
<1> DEFINE more == PacketsFrom(Arrived)[p]
<1>5. more \in Seq(CallRecords) /\ (~Whole(Arrived, p) => more = <<>>)
  BY <1>2, <1>4, PacketsStep
<1>6. whole = handled \o more /\ handled \in Seq(CallRecords)
  BY <1>1, <1>2, <1>4 DEF Settled, ReceiverInv, ReadInv, CallRecords
<1> HIDE DEF whole, more
<1>7. Len(handled) <= Len(whole) /\ handled = SubSeq(whole, 1, Len(handled))
  BY <1>5, <1>6, Beginning
<1>8. ASSUME phase = "select" PROVE handled = whole
  <2>1. more = <<>>
    BY <1>1, <1>5, <1>8, LackingIsNotWhole
  <2> QED BY <1>6, <2>1, ConcatEmptySeq
<1> QED BY <1>7, <1>8 DEF FramingExact, whole

\* The connection's invariant and the parser's place in the stream.
FramedInv == ReceiverInv /\ FrameInv

\* Both are kept together.
LEMMA FramedNext == FramedInv /\ [Next]_vars => FramedInv'
BY ReceiverNextInv, FrameNext DEF FramedInv

\* However recv cuts the stream and however the array is moved and resized, the
\* handlers are called for the packets of the stream, in order, each once, and for
\* all that have arrived before the server waits again.
THEOREM FramesOfTheStream == Spec => []FramingExact
<1>1. Init => FramedInv
  BY ReceiverInitInv, FrameInit DEF FramedInv
<1>2. FramedInv => FramingExact
  BY FrameImplies DEF FramedInv
<1> QED BY <1>1, <1>2, FramedNext, PTL DEF Spec

-----------------------------------------------------------------------------
(***************************************************************************)
(* What the libraries send for a call is a packet that the parser takes    *)
(* apart into the same call, if its lengths fit.                           *)
(***************************************************************************)
Octet == 0..255

\* The bytes of a number of 16 bits.
LEMMA Halves ==
  ASSUME NEW v \in Nat
  PROVE  /\ v \div 256 \in Nat /\ v % 256 \in Octet
         /\ ((v \div 256) * 256) + (v % 256) = v
         /\ v < 256 => v % 256 = v
BY DEF Octet

\* A length of at most 65535 has a high byte.
LEMMA HighByte ==
  ASSUME NEW v \in Nat, v <= UINT16_MAX
  PROVE  v \div 256 < 256
BY DEF UINT16_MAX

\* A number shifted by none of its bytes and by one.
LEMMA ShiftedOnce ==
  ASSUME NEW v \in Nat
  PROVE  Shifted(v, 0) = v /\ Shifted(v, 1) = v \div 256
<1> DEFINE F(g, k) == [j \in 0..k |-> IF j = 0 THEN v ELSE g[j - 1] \div 256]
           w(k) == [j \in 0..k |-> IF j = 0 THEN v ELSE v \div 256]
           right(k) == CHOOSE g : g = F(g, k)
<1>1. w(0) = F(w(0), 0) /\ w(1) = F(w(1), 1)
  OBVIOUS
<1>2. right(0) = F(right(0), 0) /\ right(1) = F(right(1), 1)
  BY <1>1
<1>3. Shifted(v, 0) = right(0)[0] /\ Shifted(v, 1) = right(1)[1]
  BY DEF Shifted
<1> HIDE DEF right
<1>4. right(0)[0] = v /\ right(1)[0] = v /\ right(1)[1] = right(1)[0] \div 256
  BY <1>2
<1> QED BY <1>3, <1>4

\* The lengths as bytes.
LEMMA BytesOfNumber ==
  ASSUME NEW v \in Nat
  PROVE  /\ BigEndian(v, 1) \in Seq(Octet) /\ Len(BigEndian(v, 1)) = 1
         /\ BigEndian(v, 1)[1] = v % 256
         /\ BigEndian(v, 2) \in Seq(Octet) /\ Len(BigEndian(v, 2)) = 2
         /\ BigEndian(v, 2)[1] = (v \div 256) % 256 /\ BigEndian(v, 2)[2] = v % 256
<1>1. BigEndian(v, 1) = [i \in 1..1 |-> Shifted(v, 1 - i) % 256]
      /\ BigEndian(v, 2) = [i \in 1..2 |-> Shifted(v, 2 - i) % 256]
  BY DEF BigEndian
<1> DEFINE a == BigEndian(v, 1)
           b == BigEndian(v, 2)
<1> HIDE DEF a, b
<1>2. a[1] = Shifted(v, 0) % 256 /\ b[1] = Shifted(v, 1) % 256 /\ b[2] = Shifted(v, 0) % 256
  BY <1>1 DEF a, b
<1>3. a[1] = v % 256 /\ b[1] = (v \div 256) % 256 /\ b[2] = v % 256
  BY <1>2, ShiftedOnce
<1>4. v % 256 \in Octet /\ (v \div 256) % 256 \in Octet
  BY Halves
<1>5. DOMAIN a = 1..1 /\ DOMAIN b = 1..2 /\ a = [i \in 1..1 |-> a[i]] /\ b = [i \in 1..2 |-> b[i]]
  BY <1>1 DEF a, b
<1>6. a \in [1..1 -> Octet] /\ b \in [1..2 -> Octet]
  <2>1. \A i \in 1..1 : a[i] \in Octet
    BY <1>3, <1>4
  <2>2. \A i \in 1..2 : i = 1 \/ i = 2
    OBVIOUS
  <2>3. \A i \in 1..2 : b[i] \in Octet
    BY <1>3, <1>4, <2>2
  <2> QED BY <1>5, <2>1, <2>3
<1>7. a \in Seq(Octet) /\ b \in Seq(Octet) /\ Len(a) = 1 /\ Len(b) = 2
  BY <1>5, <1>6
<1> QED BY <1>3, <1>7 DEF a, b

\* p is a header of k bytes, and what follows it.
Joined(p, h, k, a) ==
  /\ p \in Seq(Octet) /\ Len(p) = k + Len(a)
  /\ \A i \in 1..k : p[i] = h[i]
  /\ \A i \in 1..Len(a) : p[k + i] = a[i]

\* Two pieces sent one after the other.
LEMMA AfterHeader ==
  ASSUME NEW k \in Nat, NEW h \in Seq(Octet), Len(h) = k, NEW a \in Seq(Octet)
  PROVE  Joined(h \o a, h, k, a)
<1>1. /\ h \o a \in Seq(Octet) /\ Len(h \o a) = Len(h) + Len(a)
      /\ \A i \in 1..Len(h) : (h \o a)[i] = h[i]
      /\ \A i \in 1..Len(a) : (h \o a)[Len(h) + i] = a[i]
  OBVIOUS
<1> QED BY <1>1 DEF Joined

\* The opcode and the length of the name.
Start(op, nm) == <<op>> \o BigEndian(Len(nm), 1)

\* The first two bytes of every packet.
LEMMA StartOfPacket ==
  ASSUME NEW op \in Octet, NEW nm \in Seq(Octet)
  PROVE  /\ Start(op, nm) \in Seq(Octet) /\ Len(Start(op, nm)) = 2
         /\ Start(op, nm)[1] = op /\ Start(op, nm)[2] = Len(nm) % 256
<1> DEFINE l == BigEndian(Len(nm), 1)
           s == <<op>>
<1>1. Len(nm) \in Nat
  OBVIOUS
<1>2. l \in Seq(Octet) /\ Len(l) = 1 /\ l[1] = Len(nm) % 256
  BY <1>1, BytesOfNumber
<1>3. s \in Seq(Octet) /\ Len(s) = 1 /\ s[1] = op
  OBVIOUS
<1> HIDE DEF s, l
<1>4. Joined(s \o l, s, 1, l)
  BY <1>2, <1>3, AfterHeader
<1> DEFINE c == s \o l
<1>5. c = Start(op, nm)
  BY DEF c, s, l, Start
<1> HIDE DEF c
<1>6. /\ c \in Seq(Octet) /\ Len(c) = 1 + 1
      /\ \A i \in 1..1 : c[i] = s[i]
      /\ \A i \in 1..1 : c[1 + i] = l[i]
  BY <1>2, <1>4 DEF Joined, c
<1>7. c[1] = s[1] /\ c[1 + 1] = l[1]
  BY <1>6
<1> QED BY <1>2, <1>3, <1>5, <1>6, <1>7

\* The bytes of a call of trigger_event.
EventLayout(r, nm, pl) ==
  /\ r \in Seq(Octet) /\ Len(r) = 4 + Len(nm) + Len(pl)
  /\ r[1] = trigger_event /\ r[2] = Len(nm) % 256
  /\ r[3] = (Len(pl) \div 256) % 256 /\ r[4] = Len(pl) % 256
  /\ \A i \in 1..Len(nm) : r[4 + i] = nm[i]
  /\ \A i \in 1..Len(pl) : r[4 + Len(nm) + i] = pl[i]

\* The bytes of every other call.
NameLayout(r, op, nm) ==
  /\ r \in Seq(Octet) /\ Len(r) = 2 + Len(nm)
  /\ r[1] = op /\ r[2] = Len(nm) % 256
  /\ \A i \in 1..Len(nm) : r[2 + i] = nm[i]

\* The lengths, the name and the payload, in this order.
LEMMA EventRequest ==
  ASSUME NEW c, c.op = trigger_event, NEW nm \in Seq(Octet), c.name = nm,
         NEW pl \in Seq(Octet), c.payload = pl
  PROVE  EventLayout(request(c), nm, pl)
<1> DEFINE s == Start(trigger_event, nm)
           l == BigEndian(Len(pl), 2)
           g == l \o nm
           q == g \o pl
           r == s \o q
<1>1. request(c) = r
  BY DEF request, Start
<1>2. Len(nm) \in Nat /\ Len(pl) \in Nat /\ trigger_event \in Octet
  BY DEF trigger_event, Octet
<1>3. s \in Seq(Octet) /\ Len(s) = 2 /\ s[1] = trigger_event /\ s[2] = Len(nm) % 256
  BY <1>2, StartOfPacket
<1>4. l \in Seq(Octet) /\ Len(l) = 2 /\ l[1] = (Len(pl) \div 256) % 256 /\ l[2] = Len(pl) % 256
  BY <1>2, BytesOfNumber
<1> HIDE DEF s, l
<1>5. /\ g \in Seq(Octet) /\ Len(g) = 2 + Len(nm)
      /\ \A i \in 1..2 : g[i] = l[i]
      /\ \A i \in 1..Len(nm) : g[2 + i] = nm[i]
  <2>1. Joined(g, l, 2, nm)
    BY <1>4, AfterHeader
  <2> HIDE DEF g
  <2> QED BY <2>1 DEF Joined
<1> HIDE DEF g
<1> DEFINE k == 2 + Len(nm)
<1>6. k \in Nat /\ Len(g) = k /\ 2 <= k
  BY <1>2, <1>5
<1>7. /\ q \in Seq(Octet) /\ Len(q) = k + Len(pl)
      /\ \A i \in 1..k : q[i] = g[i]
      /\ \A i \in 1..Len(pl) : q[k + i] = pl[i]
  <2> HIDE DEF k
  <2>1. Joined(q, g, k, pl)
    BY <1>5, <1>6, AfterHeader
  <2> HIDE DEF q
  <2> QED BY <2>1 DEF Joined
<1> HIDE DEF q
<1>8. /\ r \in Seq(Octet) /\ Len(r) = 2 + Len(q)
      /\ \A i \in 1..2 : r[i] = s[i]
      /\ \A i \in 1..Len(q) : r[2 + i] = q[i]
  <2>1. Joined(r, s, 2, q)
    BY <1>3, <1>7, AfterHeader
  <2> HIDE DEF r
  <2> QED BY <2>1 DEF Joined
<1> HIDE DEF r
<1>9. Len(r) = 4 + Len(nm) + Len(pl)
  BY <1>2, <1>7, <1>8
<1>10. \A i \in 1..k : r[2 + i] = g[i]
  BY <1>2, <1>6, <1>7, <1>8
<1>11. r[3] = l[1] /\ r[4] = l[2]
  <2>1. r[2 + 1] = g[1] /\ r[2 + 2] = g[2]
    BY <1>6, <1>10
  <2> QED BY <1>5, <2>1
<1>12. \A i \in 1..Len(nm) : r[4 + i] = nm[i]
  <2>1. \A i \in 1..Len(nm) : 2 + i \in 1..k /\ r[2 + (2 + i)] = r[4 + i]
    BY <1>2
  <2>2. \A i \in 1..Len(nm) : r[2 + (2 + i)] = g[2 + i]
    BY <1>10, <2>1
  <2> QED BY <1>5, <2>1, <2>2
<1>13. \A i \in 1..Len(pl) : r[4 + Len(nm) + i] = pl[i]
  <2>1. \A i \in 1..Len(pl) : k + i \in 1..Len(q) /\ r[2 + (k + i)] = r[4 + Len(nm) + i]
    BY <1>2, <1>7
  <2>2. \A i \in 1..Len(pl) : r[2 + (k + i)] = q[k + i]
    BY <1>8, <2>1
  <2> QED BY <1>7, <2>1, <2>2
<1>14. r[1] = s[1] /\ r[2] = s[2]
  BY <1>8
<1> QED BY <1>1, <1>3, <1>4, <1>8, <1>9, <1>11, <1>12, <1>13, <1>14 DEF EventLayout

\* The length and the name.
LEMMA NameRequest ==
  ASSUME NEW c, NEW op \in Octet, c.op = op, op # trigger_event, NEW nm \in Seq(Octet),
         c.name = nm
  PROVE  NameLayout(request(c), op, nm)
<1> DEFINE s == Start(op, nm)
           r == s \o nm
<1>1. request(c) = r
  BY DEF request, Start
<1>2. s \in Seq(Octet) /\ Len(s) = 2 /\ s[1] = op /\ s[2] = Len(nm) % 256
  BY StartOfPacket
<1> HIDE DEF s
<1>3. Joined(r, s, 2, nm)
  BY <1>2, AfterHeader
<1> HIDE DEF r
<1>4. \A i \in 1..2 : r[i] = s[i]
  BY <1>3 DEF Joined
<1> QED BY <1>1, <1>2, <1>3, <1>4 DEF NameLayout, Joined

\* The bytes of a stream are bytes of a packet.
LEMMA BytesAreOctets == Byte \subseteq Octet
BY ByteIsNat DEF Octet

\* Whatever its lengths, a call is sent as bytes.
LEMMA RequestType ==
  ASSUME NEW c \in CallRecords
  PROVE  request(c) \in Seq(Octet)
<1>1. c.op \in 0..7 /\ c.name \in Seq(Byte) /\ c.payload \in Seq(Byte)
  BY DEF CallRecords
<1>2. Byte \subseteq Octet
  BY BytesAreOctets
<1>3. c.name \in Seq(Octet) /\ c.payload \in Seq(Octet)
  BY <1>1, <1>2, SeqMonotonic
<1>4. c.op \in Octet
  BY <1>1 DEF Octet
<1> QED BY <1>3, <1>4, EventRequest, NameRequest DEF EventLayout, NameLayout

\* Stream s goes on with r from byte p.
Continues(s, p, r) == (p + Len(r)) - 1 <= Len(s) /\ \A j \in 1..Len(r) : s[(p + j) - 1] = r[j]

\* A piece of the stream that is known byte by byte.
LEMMA PieceIs ==
  ASSUME NEW s \in Seq(Byte), NEW i \in Nat, 1 <= i, NEW r \in Seq(Byte), NEW j \in Nat,
         j = i + Len(r), j <= Len(s) + 1, \A k \in 1..Len(r) : s[(i + k) - 1] = r[k]
  PROVE  SubSeq(s, i, j - 1) = r
<1> DEFINE q == SubSeq(s, i, j - 1)
<1>1. Len(r) \in Nat /\ i <= j /\ j - i = Len(r)
  OBVIOUS
<1>2. q \in Seq(Byte) /\ Len(q) = j - i /\ \A k \in 1..j - i : q[k] = s[(i + k) - 1]
  BY <1>1, PieceType
<1> HIDE DEF q
<1>3. \A k \in 1..Len(q) : q[k] = r[k]
  BY <1>1, <1>2
<1>4. q = r
  BY <1>1, <1>2, <1>3, SeqEqual
<1> QED BY <1>4 DEF q

\* The lengths that fit arrive.
LEMMA LengthsArrive ==
  ASSUME NEW c \in CallRecords, Fits(c)
  PROVE  /\ Len(c.name) \in Nat /\ Len(c.name) % 256 = Len(c.name)
         /\ Len(c.payload) \in Nat
         /\ (((Len(c.payload) \div 256) % 256) * 256) + (Len(c.payload) % 256) = Len(c.payload)
<1>1. Len(c.name) \in Nat /\ Len(c.payload) \in Nat
  BY DEF CallRecords
<1>2. ASSUME NEW v \in Nat, v <= UINT8_MAX PROVE v % 256 = v
  <2>1. v < 256
    BY <1>2 DEF UINT8_MAX
  <2> QED BY <2>1, Halves
<1>3. ASSUME NEW v \in Nat, v <= UINT16_MAX
      PROVE  (((v \div 256) % 256) * 256) + (v % 256) = v
  <2>1. v \div 256 < 256
    BY <1>3, HighByte
  <2>2. (v \div 256) % 256 = v \div 256
    BY <2>1, Halves
  <2> QED BY <2>2, Halves
<1> QED BY <1>1, <1>2, <1>3 DEF Fits

\* The packet of a call that fits, wherever it is in a stream.
LEMMA RequestAt ==
  ASSUME NEW c \in CallRecords, Fits(c), c.op # trigger_event => c.payload = <<>>,
         NEW s \in Seq(Byte), NEW p \in Nat, 1 <= p, Continues(s, p, request(c))
  PROVE  /\ p \in 1..Len(s) + 1 /\ Whole(s, p)
         /\ NextAt(s, p) = p + Len(request(c)) /\ HandledAt(s, p) = <<c>>
<1> DEFINE r == request(c)
           m == Len(c.name)
           l == Len(c.payload)
<1>1. /\ c.op \in 0..7 /\ c.name \in Seq(Byte) /\ c.payload \in Seq(Byte)
      /\ c = [op |-> c.op, name |-> c.name, payload |-> c.payload]
  BY DEF CallRecords
<1>2. Byte \subseteq Octet
  BY BytesAreOctets
<1>3. c.name \in Seq(Octet) /\ c.payload \in Seq(Octet)
  BY <1>1, <1>2, SeqMonotonic
<1>4. c.op \in Octet
  BY <1>1 DEF Octet
<1>5. m \in Nat /\ l \in Nat
  BY LengthsArrive
<1>6. m % 256 = m /\ (((l \div 256) % 256) * 256) + (l % 256) = l
  BY LengthsArrive
<1>7. \A j \in 1..Len(r) : s[(p + j) - 1] = r[j]
  BY DEF Continues
<1>8. (p + Len(r)) - 1 <= Len(s) /\ Len(s) \in Nat
  BY DEF Continues
<1>9. \A b \in 0..7 : b % 16 = b /\ ~(b > 7)
  OBVIOUS
<1>10. CASE c.op = trigger_event
  <2>1. EventLayout(r, c.name, c.payload)
    BY <1>3, <1>10, EventRequest
  <2> HIDE DEF r
  <2>2. Len(r) = 4 + m + l
    BY <2>1 DEF EventLayout
  <2>3. /\ r[1] = c.op /\ r[2] = m /\ (r[3] * 256) + r[4] = l
        /\ \A i \in 1..m : r[4 + i] = c.name[i]
        /\ \A i \in 1..l : r[4 + m + i] = c.payload[i]
    BY <1>6, <1>10, <2>1 DEF EventLayout
  <2> HIDE DEF m, l
  <2>4. s[p] = c.op /\ s[p + 1] = m /\ (s[p + 2] * 256) + s[p + 3] = l
    <3>1. 1 \in 1..Len(r) /\ 2 \in 1..Len(r) /\ 3 \in 1..Len(r) /\ 4 \in 1..Len(r)
      BY <1>5, <2>2
    <3>2. (p + 1) - 1 = p /\ (p + 2) - 1 = p + 1 /\ (p + 3) - 1 = p + 2 /\ (p + 4) - 1 = p + 3
      OBVIOUS
    <3>3. s[p] = r[1] /\ s[p + 1] = r[2] /\ s[p + 2] = r[3] /\ s[p + 3] = r[4]
      BY <1>7, <3>1, <3>2
    <3> QED BY <2>3, <3>3
  <2>5. /\ OpAt(s, p) = c.op /\ NameAt(s, p) = p + 4 /\ PayloadAt(s, p) = (p + 4) + m
        /\ NextAt(s, p) = ((p + 4) + m) + l
    <3>1. OpAt(s, p) = c.op
      BY <1>1, <1>9, <2>4 DEF OpAt
    <3>2. NameAt(s, p) = p + 4
      BY <1>10, <3>1 DEF NameAt
    <3>3. PayloadAt(s, p) = (p + 4) + m
      BY <2>4, <3>2 DEF PayloadAt
    <3> QED BY <1>10, <2>4, <3>1, <3>2, <3>3 DEF NextAt
  <2>6. p \in 1..Len(s) + 1 /\ Whole(s, p)
    <3>1. p < Len(s) /\ p + 4 <= Len(s) + 1 /\ ((p + 4) + m) + l <= Len(s) + 1
      BY <1>5, <1>8, <2>2
    <3> QED BY <1>8, <2>5, <3>1 DEF Whole
  <2>7. SubSeq(s, p + 4, ((p + 4) + m) - 1) = c.name
    <3>1. \A k \in 1..m : 4 + k \in 1..Len(r) /\ (p + (4 + k)) - 1 = ((p + 4) + k) - 1
      BY <1>5, <2>2
    <3>2. \A k \in 1..m : s[((p + 4) + k) - 1] = c.name[k]
      BY <1>7, <2>3, <3>1
    <3>3. p + 4 \in Nat /\ 1 <= p + 4 /\ (p + 4) + m \in Nat /\ (p + 4) + m <= Len(s) + 1
      BY <1>5, <1>8, <2>2
    <3> DEFINE a == p + 4
    <3> HIDE DEF a
    <3>4. /\ a \in Nat /\ 1 <= a /\ a + m \in Nat /\ a + m <= Len(s) + 1
          /\ \A k \in 1..m : s[(a + k) - 1] = c.name[k]
      BY <3>2, <3>3 DEF a
    <3>5. SubSeq(s, a, (a + m) - 1) = c.name
      BY <1>1, <3>4, PieceIs DEF m
    <3> QED BY <3>5 DEF a
  <2>8. SubSeq(s, (p + 4) + m, (((p + 4) + m) + l) - 1) = c.payload
    <3> DEFINE a == (p + 4) + m
    <3>1. \A k \in 1..l : 4 + m + k \in 1..Len(r) /\ (p + (4 + m + k)) - 1 = (a + k) - 1
      BY <1>5, <2>2
    <3>2. ASSUME NEW k \in 1..l PROVE s[(a + k) - 1] = c.payload[k]
      <4>1. PICK j : j = 4 + m + k
        OBVIOUS
      <4>2. j \in 1..Len(r) /\ (p + j) - 1 = (a + k) - 1
        BY <3>1, <4>1
      <4>3. s[(p + j) - 1] = r[j]
        BY <1>7, <4>2
      <4>4. r[j] = c.payload[k]
        BY <2>3, <4>1
      <4> QED BY <4>2, <4>3, <4>4
    <3>3. a \in Nat /\ 1 <= a /\ a + l \in Nat /\ a + l <= Len(s) + 1
      BY <1>5, <1>8, <2>2
    <3> HIDE DEF a
    <3>4. SubSeq(s, a, (a + l) - 1) = c.payload
      BY <1>1, <3>2, <3>3, PieceIs DEF l
    <3> QED BY <3>4 DEF a
  <2>9. PacketAt(s, p) = c
    BY <1>1, <2>5, <2>7, <2>8 DEF PacketAt
  <2>10. NextAt(s, p) = p + Len(r)
    BY <1>5, <2>2, <2>5
  <2> QED BY <1>1, <1>9, <2>5, <2>6, <2>9, <2>10 DEF HandledAt, r
<1>11. CASE c.op # trigger_event
  <2>1. NameLayout(r, c.op, c.name)
    BY <1>3, <1>4, <1>11, NameRequest
  <2> HIDE DEF r
  <2>2. /\ Len(r) = 2 + m /\ r[1] = c.op /\ r[2] = m
        /\ \A i \in 1..m : r[2 + i] = c.name[i]
    BY <1>6, <2>1 DEF NameLayout
  <2> HIDE DEF m, l
  <2>3. s[p] = c.op /\ s[p + 1] = m
    <3>1. 1 \in 1..Len(r) /\ 2 \in 1..Len(r)
      BY <1>5, <2>2
    <3>2. (p + 1) - 1 = p /\ (p + 2) - 1 = p + 1
      OBVIOUS
    <3>3. s[p] = r[1] /\ s[p + 1] = r[2]
      BY <1>7, <3>1, <3>2
    <3> QED BY <2>2, <3>3
  <2>4. /\ OpAt(s, p) = c.op /\ NameAt(s, p) = p + 2 /\ PayloadAt(s, p) = (p + 2) + m
        /\ NextAt(s, p) = (p + 2) + m
    <3>1. OpAt(s, p) = c.op
      BY <1>1, <1>9, <2>3 DEF OpAt
    <3>2. NameAt(s, p) = p + 2
      BY <1>11, <3>1 DEF NameAt
    <3>3. PayloadAt(s, p) = (p + 2) + m
      BY <2>3, <3>2 DEF PayloadAt
    <3>4. NextAt(s, p) = ((p + 2) + m) + 0
      BY <1>11, <3>1, <3>3 DEF NextAt
    <3> QED BY <1>5, <3>1, <3>2, <3>3, <3>4
  <2>5. p \in 1..Len(s) + 1 /\ Whole(s, p)
    <3>1. p < Len(s) /\ p + 2 <= Len(s) + 1 /\ (p + 2) + m <= Len(s) + 1
      BY <1>5, <1>8, <2>2
    <3> QED BY <1>8, <2>4, <3>1 DEF Whole
  <2>6. SubSeq(s, p + 2, ((p + 2) + m) - 1) = c.name
    <3> DEFINE a == p + 2
    <3>1. \A k \in 1..m : 2 + k \in 1..Len(r) /\ (p + (2 + k)) - 1 = (a + k) - 1
      BY <1>5, <2>2
    <3>2. \A k \in 1..m : s[(a + k) - 1] = c.name[k]
      BY <1>7, <2>2, <3>1
    <3>3. a \in Nat /\ 1 <= a /\ a + m \in Nat /\ a + m <= Len(s) + 1
      BY <1>5, <1>8, <2>2
    <3> HIDE DEF a
    <3>4. SubSeq(s, a, (a + m) - 1) = c.name
      BY <1>1, <3>2, <3>3, PieceIs DEF m
    <3> QED BY <3>4 DEF a
  <2>7. SubSeq(s, (p + 2) + m, ((p + 2) + m) - 1) = c.payload
    <3>1. SubSeq(s, PayloadAt(s, p), NextAt(s, p) - 1) = <<>>
      BY <1>11, <2>4, <2>5, NoPayload
    <3> QED BY <1>11, <2>4, <3>1
  <2>8. PacketAt(s, p) = c
    BY <1>1, <2>4, <2>6, <2>7 DEF PacketAt
  <2>9. NextAt(s, p) = p + Len(r)
    BY <1>5, <2>2, <2>4
  <2> QED BY <1>1, <1>9, <2>4, <2>5, <2>8, <2>9 DEF HandledAt, r
<1> QED BY <1>10, <1>11

-----------------------------------------------------------------------------
(***************************************************************************)
(* What several calls send, and what the handlers are called for.          *)
(***************************************************************************)
\* How FlattenSeq puts k sequences together, one after the other.
Flattened(R, k, g) == g = [i \in 1..k |-> IF i = 1 THEN R[i] ELSE g[i - 1] \o R[i]]

\* The sequences that the pieces of R make, from none of them to all.
Sums(S, R, W) ==
  /\ W[0] = <<>>
  /\ \A i \in 0..Len(R) : W[i] \in Seq(S)
  /\ \A i \in 1..Len(R) : W[i] = W[i - 1] \o R[i]
  /\ W[Len(R)] = FlattenSeq(R)

\* The recursion of FlattenSeq has a solution.
LEMMA FlattenDefined ==
  ASSUME NEW R, NEW n \in Nat
  PROVE  \E g : Flattened(R, n, g)
<1> DEFINE S == {k \in Nat : \E g : Flattened(R, k, g)}
<1>1. 0 \in S
  <2> DEFINE g == [i \in 1..0 |-> R[i]]
  <2>1. g = [i \in 1..0 |-> IF i = 1 THEN R[i] ELSE g[i - 1] \o R[i]]
    <3>1. \A i \in 1..0 : FALSE
      OBVIOUS
    <3> QED BY <3>1
  <2> HIDE DEF g
  <2> QED BY <2>1 DEF Flattened
<1>2. ASSUME NEW k \in Nat, k \in S PROVE k + 1 \in S
  <2>1. PICK g : Flattened(R, k, g)
    BY <1>2
  <2> DEFINE h == [i \in 1..k + 1 |-> IF i = 1 THEN R[i] ELSE g[i - 1] \o R[i]]
  <2>2. ASSUME NEW i \in 1..k + 1
        PROVE  h[i] = IF i = 1 THEN R[i] ELSE h[i - 1] \o R[i]
    <3>1. CASE i = 1
      BY <3>1
    <3>2. CASE i # 1
      <4>1. i - 1 \in 1..k /\ i - 1 \in 1..k + 1
        BY <3>2
      <4>2. h[i - 1] = g[i - 1]
        BY <2>1, <4>1 DEF Flattened
      <4> QED BY <3>2, <4>2
    <3> QED BY <3>1, <3>2
  <2>3. h = [i \in 1..k + 1 |-> IF i = 1 THEN R[i] ELSE h[i - 1] \o R[i]]
    BY <2>2
  <2> HIDE DEF h
  <2>4. Flattened(R, k + 1, h)
    BY <2>3 DEF Flattened
  <2> QED BY <2>4
<1> HIDE DEF S
<1>3. n \in S
  BY <1>1, <1>2, Upwards
<1> QED BY <1>3 DEF S

\* FlattenSeq puts the pieces together.
LEMMA FlattenIs ==
  ASSUME NEW S, NEW R, NEW n \in Nat, Len(R) = n, n = 0 => R = <<>>,
         \A i \in 1..n : R[i] \in Seq(S)
  PROVE  \E W : Sums(S, R, W)
<1>1. CASE n = 0
  <2> DEFINE W == [i \in 0..0 |-> <<>>]
  <2>1. W[0] = <<>> /\ W[0] \in Seq(S)
    OBVIOUS
  <2>2. FlattenSeq(R) = <<>>
    BY <1>1 DEF FlattenSeq
  <2> HIDE DEF W
  <2>3. \A i \in 0..Len(R) : i = 0
    BY <1>1
  <2>4. \A i \in 1..Len(R) : FALSE
    BY <1>1
  <2>5. W[Len(R)] = FlattenSeq(R)
    BY <1>1, <2>1, <2>2
  <2>6. \A i \in 0..Len(R) : W[i] \in Seq(S)
    BY <2>1, <2>3
  <2>7. Sums(S, R, W)
    BY <2>1, <2>4, <2>5, <2>6 DEF Sums
  <2> QED BY <2>7
<1>2. CASE n # 0
  <2> DEFINE g == CHOOSE g : Flattened(R, n, g)
  <2>1. Flattened(R, n, g)
    BY FlattenDefined
  <2>2. FlattenSeq(R) = g[n]
    BY <1>2 DEF FlattenSeq, Flattened
  <2> HIDE DEF g
  <2>3. \A i \in 1..n : g[i] = IF i = 1 THEN R[i] ELSE g[i - 1] \o R[i]
    BY <2>1 DEF Flattened
  <2> DEFINE W == [i \in 0..n |-> IF i = 0 THEN <<>> ELSE g[i]]
  <2>4. W[0] = <<>> /\ \A i \in 1..n : W[i] = g[i]
    OBVIOUS
  <2> HIDE DEF W
  <2>5. ASSUME NEW i \in 1..n PROVE W[i] = W[i - 1] \o R[i]
    <3>1. CASE i = 1
      <4>1. W[i - 1] = <<>> /\ W[i] = R[i] /\ R[i] \in Seq(S)
        BY <2>3, <2>4, <3>1
      <4> QED BY <4>1, ConcatEmptySeq
    <3>2. CASE i # 1
      <4>1. i - 1 \in 1..n
        BY <3>2
      <4> QED BY <2>3, <2>4, <3>2, <4>1
    <3> QED BY <3>1, <3>2
  <2> DEFINE T == {k \in Nat : k <= n => W[k] \in Seq(S)}
  <2>6. 0 \in T
    <3>1. W[0] \in Seq(S)
      BY <2>4, EmptySeq
    <3> QED BY <3>1
  <2>7. ASSUME NEW k \in Nat, k \in T PROVE k + 1 \in T
    <3>1. ASSUME k + 1 <= n PROVE W[k + 1] \in Seq(S)
      <4>1. k + 1 \in 1..n /\ k <= n /\ (k + 1) - 1 = k
        BY <3>1
      <4>2. W[k + 1] = W[k] \o R[k + 1]
        BY <2>5, <4>1
      <4>3. W[k] \in Seq(S) /\ R[k + 1] \in Seq(S)
        BY <2>7, <4>1
      <4> QED BY <4>2, <4>3, ConcatProperties
    <3> QED BY <3>1
  <2> HIDE DEF T
  <2>8. \A k \in Nat : k \in T
    BY <2>6, <2>7, Upwards
  <2>9. \A i \in 0..n : W[i] \in Seq(S)
    BY <2>8 DEF T
  <2>10. W[n] = FlattenSeq(R)
    BY <1>2, <2>2, <2>4
  <2>11. Sums(S, R, W)
    BY <2>4, <2>5, <2>9, <2>10 DEF Sums
  <2> QED BY <2>11
<1> QED BY <1>1, <1>2

\* a is the beginning of b.
Begins(a, b) == Len(a) <= Len(b) /\ \A j \in 1..Len(a) : b[j] = a[j]

\* What the first k pieces make is the beginning of what all make.
LEMMA SumsBegin ==
  ASSUME NEW S, NEW R, NEW n \in Nat, Len(R) = n, NEW W, Sums(S, R, W),
         \A i \in 1..n : R[i] \in Seq(S), NEW k \in 0..n
  PROVE  Begins(W[k], W[n])
<1>1. /\ \A i \in 0..n : W[i] \in Seq(S)
      /\ \A i \in 1..n : W[i] = W[i - 1] \o R[i]
  BY DEF Sums
<1> DEFINE T == {d \in Nat : k + d <= n => Begins(W[k], W[k + d])}
<1>2. 0 \in T
  <2>1. k + 0 = k /\ W[k] \in Seq(S)
    BY <1>1
  <2>2. Begins(W[k], W[k])
    BY <2>1 DEF Begins
  <2> QED BY <2>1, <2>2
<1>3. ASSUME NEW d \in Nat, d \in T PROVE d + 1 \in T
  <2>1. ASSUME k + (d + 1) <= n PROVE Begins(W[k], W[k + (d + 1)])
    <3> DEFINE e == k + d
    <3>1. e \in 0..n /\ e + 1 \in 1..n /\ (e + 1) - 1 = e /\ k + (d + 1) = e + 1
      BY <2>1
    <3>2. Begins(W[k], W[e])
      BY <1>3, <3>1
    <3> HIDE DEF e
    <3> DEFINE a == W[k]
               b == W[e]
               r == R[e + 1]
    <3>3. a \in Seq(S) /\ b \in Seq(S) /\ r \in Seq(S) /\ W[e + 1] = b \o r /\ Begins(a, b)
      BY <1>1, <3>1, <3>2
    <3> HIDE DEF a, b, r
    <3>4. Len(b) <= Len(b \o r) /\ \A i \in 1..Len(b) : (b \o r)[i] = b[i]
      BY <3>3, Beginning
    <3>5. Len(a) \in Nat /\ Len(b) \in Nat /\ Len(b \o r) \in Nat
      BY <3>3
    <3>6. Len(a) <= Len(b) /\ \A j \in 1..Len(a) : b[j] = a[j]
      BY <3>3 DEF Begins
    <3>7. \A j \in 1..Len(a) : j \in 1..Len(b)
      BY <3>5, <3>6
    <3>8. Begins(a, b \o r)
      BY <3>4, <3>5, <3>6, <3>7 DEF Begins
    <3> QED BY <3>1, <3>3, <3>8 DEF a
  <2> QED BY <2>1
<1> HIDE DEF T
<1>4. \A d \in Nat : d \in T
  BY <1>2, <1>3, Upwards
<1>5. n - k \in Nat /\ k + (n - k) = n /\ k + (n - k) <= n
  OBVIOUS
<1> QED BY <1>4, <1>5 DEF T

\* There is a first call that does not fit, or all fit.
LEMMA FittingIs ==
  ASSUME NEW calls \in Seq(CallRecords)
  PROVE  Fitting(calls) \in 0..Len(calls) /\ \A i \in 1..Fitting(calls) : Fits(calls[i])
<1> DEFINE n == Len(calls)
           B == {k \in 0..n : k < n => ~Fits(calls[k + 1])}
<1>1. n \in Nat
  OBVIOUS
<1>2. n \in B /\ B \in SUBSET Nat
  BY <1>1
<1>3. PICK x \in B : \A y \in B : x <= y
  <2> HIDE DEF B, n
  <2> QED BY <1>2, HasLeast
<1>4. x \in 0..n /\ (x < n => ~Fits(calls[x + 1]))
  BY <1>3
<1>5. ASSUME NEW i \in 1..x PROVE Fits(calls[i])
  <2>1. i - 1 \in 0..n /\ i - 1 < n /\ (i - 1) + 1 = i /\ ~(x <= i - 1)
    BY <1>1, <1>4
  <2>2. i - 1 \notin B
    BY <1>3, <2>1
  <2> QED BY <2>1, <2>2
<1>6. \E k \in 0..Len(calls) : /\ \A i \in 1..k : Fits(calls[i])
                               /\ k < Len(calls) => ~Fits(calls[k + 1])
  BY <1>4, <1>5
<1> QED BY <1>6 DEF Fitting

\* The packets of what some calls send: the calls, as far as they fit.
LEMMA PacketsOfCalls ==
  ASSUME NEW calls \in Seq(CallRecords), NEW s \in Seq(Byte), s = Written(calls),
         \A i \in DOMAIN calls : calls[i].op # trigger_event => calls[i].payload = <<>>
  PROVE  /\ \E rest \in Seq(CallRecords) :
              PacketsOf(s) = SubSeq(calls, 1, Fitting(calls)) \o rest
         /\ Fitting(calls) = Len(calls) => PacketsOf(s) = calls
<1> DEFINE n == Len(calls)
           F == Fitting(calls)
           R == [i \in DOMAIN calls |-> request(calls[i])]
           P == PacketsFrom(s)
<1>1. /\ n \in Nat /\ DOMAIN calls = 1..n /\ \A i \in 1..n : calls[i] \in CallRecords
      /\ n = Len(calls)
  OBVIOUS
<1>2. F \in 0..n /\ \A i \in 1..F : Fits(calls[i])
  BY FittingIs
<1>3. /\ Len(R) = n /\ (n = 0 => R = <<>>) /\ FlattenSeq(R) = s
      /\ \A i \in 1..n : R[i] = request(calls[i]) /\ R[i] \in Seq(Octet)
  <2>1. R = [i \in 1..n |-> request(calls[i])]
    BY <1>1
  <2>2. \A i \in 1..n : R[i] = request(calls[i]) /\ R[i] \in Seq(Octet)
    BY <1>1, <2>1, RequestType
  <2>3. FlattenSeq(R) = s
    BY DEF Written
  <2> HIDE DEF R, n
  <2>4. Len(R) = n
    BY <1>1, <2>1
  <2>5. n = 0 => R = <<>>
    BY <2>1
  <2> QED BY <2>2, <2>3, <2>4, <2>5
<1>4. \A i \in 1..Len(s) + 1 : P[i] \in Seq(CallRecords)
  BY PacketsStep
<1> HIDE DEF n, F, R, P
<1>5. PICK W : Sums(Octet, R, W)
  BY <1>1, <1>3, FlattenIs
<1>6. /\ W[0] = <<>> /\ W[n] = s
      /\ \A i \in 0..n : W[i] \in Seq(Octet) /\ Begins(W[i], s)
      /\ \A i \in 1..n : W[i] = W[i - 1] \o request(calls[i])
  <2>1. /\ W[0] = <<>> /\ W[n] = s
        /\ \A i \in 0..n : W[i] \in Seq(Octet)
        /\ \A i \in 1..n : W[i] = W[i - 1] \o R[i]
    BY <1>3, <1>5 DEF Sums
  <2>2. \A i \in 0..n : Begins(W[i], W[n])
    BY <1>1, <1>3, <1>5, SumsBegin
  <2> QED BY <1>3, <2>1, <2>2
<1> DEFINE Sent(k) == /\ Len(W[k]) + 1 \in 1..Len(s) + 1
                      /\ P[1] = SubSeq(calls, 1, k) \o P[Len(W[k]) + 1]
           T == {k \in Nat : k <= F => Sent(k)}
<1>7. 0 \in T
  <2>1. Len(W[0]) + 1 = 1 /\ 1 \in 1..Len(s) + 1
    BY <1>6
  <2>2. SubSeq(calls, 1, 0) = <<>>
    BY SubSeqEmpty
  <2>3. <<>> \o P[1] = P[1]
    BY <1>4, <2>1, ConcatEmptySeq
  <2> QED BY <2>1, <2>2, <2>3
<1>8. ASSUME NEW k \in Nat, k \in T PROVE k + 1 \in T
  <2>0. k + 1 \in Nat
    OBVIOUS
  <2> HIDE DEF Sent
  <2> SUFFICES ASSUME k + 1 <= F PROVE Sent(k + 1)
    BY <2>0
  <2> DEFINE c == calls[k + 1]
             r == request(c)
             w == W[k]
             p == Len(w) + 1
  <2>1. k \in 0..n /\ k + 1 \in 1..n /\ k + 1 \in 0..n /\ (k + 1) - 1 = k /\ k <= F /\ k + 1 \in 1..F
    BY <1>1, <1>2
  <2>2. /\ p \in 1..Len(s) + 1
        /\ P[1] = SubSeq(calls, 1, k) \o P[p]
    <3>1. Sent(k)
      BY <1>8, <2>1
    <3> QED BY <3>1 DEF Sent
  <2>3. /\ c \in CallRecords /\ Fits(c) /\ (c.op # trigger_event => c.payload = <<>>)
    BY <1>1, <1>2, <2>1
  <2>4. w \in Seq(Octet) /\ r \in Seq(Octet) /\ W[k + 1] = w \o r /\ Begins(W[k + 1], s)
    BY <1>6, <2>1, <2>3, RequestType
  <2> DEFINE v == W[k + 1]
  <2> HIDE DEF T, c, r, w, v
  <2>5. /\ v \in Seq(Octet) /\ Len(v) = Len(w) + Len(r)
        /\ \A j \in 1..Len(r) : v[Len(w) + j] = r[j]
    <3>1. /\ w \o r \in Seq(Octet) /\ Len(w \o r) = Len(w) + Len(r)
          /\ \A j \in 1..Len(r) : (w \o r)[Len(w) + j] = r[j]
      BY <2>4
    <3> QED BY <2>4, <3>1 DEF v
  <2>6. Len(v) <= Len(s) /\ \A j \in 1..Len(v) : s[j] = v[j]
    BY <2>4 DEF Begins, v
  <2>7. Len(w) \in Nat /\ Len(r) \in Nat /\ Len(v) \in Nat /\ Len(s) \in Nat
    BY <2>4, <2>5
  <2>8. p \in Nat /\ 1 <= p /\ (p + Len(r)) - 1 = Len(v) /\ p + Len(r) = Len(v) + 1
        /\ \A j \in 1..Len(r) : (p + j) - 1 = Len(w) + j /\ Len(w) + j \in 1..Len(v)
    BY <2>5, <2>7
  <2> HIDE DEF p
  <2>9. Continues(s, p, r)
    BY <2>5, <2>6, <2>8 DEF Continues
  <2>10. /\ Whole(s, p) /\ NextAt(s, p) = p + Len(r) /\ HandledAt(s, p) = <<c>>
    BY <2>3, <2>8, <2>9, RequestAt DEF r
  <2>11. Len(v) + 1 \in 1..Len(s) + 1 /\ NextAt(s, p) = Len(v) + 1
    BY <2>6, <2>7, <2>8, <2>10
  <2>12. P[p] = <<c>> \o P[Len(v) + 1]
    BY <2>2, <2>10, <2>11, PacketsStep DEF P
  <2> DEFINE a == SubSeq(calls, 1, k)
             one == <<c>>
             b == P[Len(v) + 1]
  <2>13. a \in Seq(CallRecords)
    <3>1. \A i \in 1..k : calls[i] \in CallRecords
      BY <1>1, <2>1
    <3> QED BY <3>1, SubSeqProperties
  <2>14. one \in Seq(CallRecords) /\ b \in Seq(CallRecords)
    BY <1>4, <2>3, <2>11
  <2>15. SubSeq(calls, 1, k + 1) = a \o one
    <3>1. 1 \in 1..Len(calls) /\ k + 1 \in 1..Len(calls)
      BY <1>1, <2>1
    <3>2. SubSeq(calls, 1, k + 1) = SubSeq(calls, 1, (k + 1) - 1) \o <<calls[k + 1]>>
      BY <3>1, SubSeqRecursiveSecond
    <3> QED BY <2>1, <3>2 DEF c
  <2>16. P[1] = a \o (one \o b)
    BY <2>2, <2>12
  <2> HIDE DEF a, one, b
  <2>17. (a \o one) \o b = a \o (one \o b)
    BY <2>13, <2>14, ConcatAssociative
  <2> QED BY <2>11, <2>15, <2>16, <2>17 DEF b, v, Sent
<1>9. \A k \in Nat : k \in T
  <2> HIDE DEF T
  <2> QED BY <1>7, <1>8, Upwards
<1>10. F \in Nat /\ F <= F
  BY <1>1, <1>2
<1>11. /\ Len(W[F]) + 1 \in 1..Len(s) + 1
       /\ P[1] = SubSeq(calls, 1, F) \o P[Len(W[F]) + 1]
  BY <1>9, <1>10
<1>12. PacketsOf(s) = P[1]
  BY DEF PacketsOf, P
<1>13. \E rest \in Seq(CallRecords) : PacketsOf(s) = SubSeq(calls, 1, F) \o rest
  BY <1>4, <1>11, <1>12
<1>14. ASSUME F = n PROVE PacketsOf(s) = calls
  <2>1. Len(W[F]) = Len(s)
    BY <1>6, <1>14
  <2>2. ~Whole(s, Len(s) + 1)
    <3>1. ~(Len(s) + 1 < Len(s))
      OBVIOUS
    <3> QED BY <3>1 DEF Whole
  <2>3. P[Len(s) + 1] = <<>>
    BY <1>11, <2>1, <2>2, PacketsStep DEF P
  <2>4. SubSeq(calls, 1, F) = calls
    BY <1>14, SubSeqFull DEF n
  <2>5. calls \o <<>> = calls
    BY ConcatEmptySeq
  <2> QED BY <1>11, <1>12, <2>1, <2>3, <2>4, <2>5
<1> QED BY <1>13, <1>14 DEF F, n

\* What the parser has handled is what was called.
LEMMA FrameUnderstood ==
  ASSUME ReceiverInv, FrameInv
  PROVE  CallsUnderstood
<1> SUFFICES ASSUME NEW calls \in Calls, stream = Written(calls)
             PROVE  /\ \A i \in DOMAIN handled : i <= Fitting(calls) => handled[i] = calls[i]
                    /\ Fitting(calls) = Len(calls) => Len(handled) <= Len(calls)
                    /\ phase = "select" /\ received = Len(stream)
                         => Len(handled) >= Fitting(calls)
  BY DEF CallsUnderstood
<1> DEFINE F == Fitting(calls)
           all == PacketsOf(stream)
<1>1. /\ calls \in Seq(CallRecords) /\ F \in 0..Len(calls) /\ Len(calls) \in Nat
      /\ \A i \in DOMAIN calls : calls[i].op # trigger_event => calls[i].payload = <<>>
  BY CallsAreStreams, FittingIs
<1>2. stream \in Seq(Byte) /\ handled \in Seq(CallRecords)
  BY StreamsOfBytes DEF ReceiverInv, BufferInv, ReadInv, CallRecords
<1>3. PICK rest \in Seq(CallRecords) : all = SubSeq(calls, 1, F) \o rest
  BY <1>1, <1>2, PacketsOfCalls
<1>4. F = Len(calls) => all = calls
  BY <1>1, <1>2, PacketsOfCalls
<1>5. PICK p \in Nat : Here(p) /\ Settled(handled, stream, p)
  BY DEF FrameInv
<1>6. p \in 1..Len(stream) + 1 /\ Agrees(stream, stream, p)
  BY <1>5 DEF Here, Agrees
<1> DEFINE more == PacketsFrom(stream)[p]
<1>7. all = handled \o more /\ more \in Seq(CallRecords)
  BY <1>2, <1>5, <1>6, PacketsStep DEF Settled
<1> DEFINE a == SubSeq(calls, 1, F)
<1>8. a \in Seq(CallRecords) /\ Len(a) = F /\ \A i \in 1..F : a[i] = calls[i]
  <2> HIDE DEF F
  <2> QED BY <1>1
<1>9. all = a \o rest
  BY <1>3
<1>10. FramingExact
  BY FrameImplies
<1> HIDE DEF F, all, more, a
<1>11. Len(handled) <= Len(all) /\ \A i \in 1..Len(handled) : all[i] = handled[i]
  BY <1>2, <1>7, Beginning
<1>12. F <= Len(all) /\ \A i \in 1..F : all[i] = calls[i]
  BY <1>3, <1>8, <1>9, Beginning
<1>13. ASSUME NEW i \in DOMAIN handled, i <= F PROVE handled[i] = calls[i]
  <2>1. i \in 1..Len(handled) /\ i \in 1..F
    BY <1>1, <1>2, <1>13
  <2> QED BY <1>11, <1>12, <2>1
<1>14. F = Len(calls) => Len(handled) <= Len(calls)
  BY <1>4, <1>11
<1>15. ASSUME phase = "select", received = Len(stream) PROVE Len(handled) >= F
  <2>1. Arrived = stream
    BY <1>2, <1>15, SubSeqFull DEF Arrived
  <2>2. handled = all
    BY <1>10, <1>15, <2>1 DEF FramingExact, all
  <2>3. Len(handled) \in Nat /\ F \in Nat
    BY <1>1, <1>2
  <2> QED BY <1>12, <2>2, <2>3
<1> QED BY <1>13, <1>14, <1>15 DEF F

\* What a program calls through a library is what the server does, in order, each
\* once and nothing else, up to the first name or payload that does not fit.
THEOREM CallsArrive == Spec => []CallsUnderstood
<1>1. Init => FramedInv
  BY ReceiverInitInv, FrameInit DEF FramedInv
<1>2. FramedInv => CallsUnderstood
  BY FrameUnderstood DEF FramedInv
<1> QED BY <1>1, <1>2, FramedNext, PTL DEF Spec

-----------------------------------------------------------------------------
(***************************************************************************)
(* The numbers of a notice: the libraries' loops put together what the     *)
(* server took apart.                                                      *)
(***************************************************************************)
LEMMA OctetIsNat == \A b \in Octet : b \in Nat /\ b < 256
BY DEF Octet

\* The elements of a sequence.
LEMMA ElementsAre ==
  ASSUME NEW S, NEW b \in Seq(S), NEW n \in Nat, Len(b) = n
  PROVE  \A i \in 1..n : b[i] \in S
OBVIOUS

\* A function of 1..n is a sequence.
LEMMA IsSequence ==
  ASSUME NEW S, NEW n \in Nat, NEW b \in [1..n -> S]
  PROVE  b \in Seq(S) /\ Len(b) = n
OBVIOUS

\* Two bytes make a number of 16 bits.
LEMMA NumberOfTwo ==
  ASSUME NEW b \in Seq(Octet), Len(b) = 2
  PROVE  Number(b) = b[1] * 256 + b[2] /\ Number(b) \in Nat /\ Number(b) < 65536
<1> DEFINE F(g) == [i \in 0..Len(b) |-> IF i = 0 THEN 0 ELSE g[i - 1] * 256 + b[i]]
           w == [i \in 0..2 |-> IF i = 0 THEN 0 ELSE IF i = 1 THEN b[1] ELSE b[1] * 256 + b[2]]
           left == CHOOSE g : g = F(g)
<1>1. b[1] \in Octet /\ b[2] \in Octet
  OBVIOUS
<1>2. b[1] \in Nat /\ b[2] \in Nat /\ b[1] < 256 /\ b[2] < 256
  BY <1>1, OctetIsNat
<1>3. w = F(w)
  BY <1>2
<1>4. left = F(left)
  BY <1>3
<1>5. \A i \in 0..2 : left[i] = IF i = 0 THEN 0 ELSE left[i - 1] * 256 + b[i]
  <2> HIDE DEF left
  <2> QED BY <1>4
<1>6. Number(b) = left[2]
  BY DEF Number
<1> HIDE DEF left
<1>7. left[0] = 0 /\ left[1] = left[0] * 256 + b[1] /\ left[2] = left[1] * 256 + b[2]
  BY <1>5
<1> QED BY <1>2, <1>6, <1>7

\* Four make one of 32 bits.
LEMMA NumberOfFour ==
  ASSUME NEW b \in Seq(Octet), Len(b) = 4
  PROVE  Number(b) = ((b[1] * 256 + b[2]) * 256 + b[3]) * 256 + b[4] /\ Number(b) \in Nat
<1> DEFINE F(g) == [i \in 0..Len(b) |-> IF i = 0 THEN 0 ELSE g[i - 1] * 256 + b[i]]
           w == [i \in 0..4 |->
                  IF i = 0 THEN 0 ELSE IF i = 1 THEN b[1] ELSE IF i = 2 THEN b[1] * 256 + b[2]
                  ELSE IF i = 3 THEN (b[1] * 256 + b[2]) * 256 + b[3]
                  ELSE ((b[1] * 256 + b[2]) * 256 + b[3]) * 256 + b[4]]
           left == CHOOSE g : g = F(g)
<1>1. b[1] \in Octet /\ b[2] \in Octet /\ b[3] \in Octet /\ b[4] \in Octet
  <2>1. \A i \in 1..4 : b[i] \in Octet
    BY ElementsAre
  <2> QED BY <2>1
<1>2. b[1] \in Nat /\ b[2] \in Nat /\ b[3] \in Nat /\ b[4] \in Nat
  BY <1>1, OctetIsNat
<1>3. w = F(w)
  BY <1>2
<1>4. left = F(left)
  BY <1>3
<1>5. \A i \in 0..4 : left[i] = IF i = 0 THEN 0 ELSE left[i - 1] * 256 + b[i]
  <2> HIDE DEF left
  <2> QED BY <1>4
<1>6. Number(b) = left[4]
  BY DEF Number
<1> HIDE DEF left
<1>7. /\ left[0] = 0 /\ left[1] = left[0] * 256 + b[1] /\ left[2] = left[1] * 256 + b[2]
      /\ left[3] = left[2] * 256 + b[3] /\ left[4] = left[3] * 256 + b[4]
  BY <1>5
<1> QED BY <1>2, <1>6, <1>7

\* A number shifted by two of its bytes and by three.
LEMMA ShiftedMore ==
  ASSUME NEW v \in Nat
  PROVE  Shifted(v, 2) = (v \div 256) \div 256 /\ Shifted(v, 3) = ((v \div 256) \div 256) \div 256
<1> DEFINE F(g, k) == [j \in 0..k |-> IF j = 0 THEN v ELSE g[j - 1] \div 256]
           w(k) == [j \in 0..k |->
                     IF j = 0 THEN v ELSE IF j = 1 THEN v \div 256
                     ELSE IF j = 2 THEN (v \div 256) \div 256
                     ELSE ((v \div 256) \div 256) \div 256]
           right(k) == CHOOSE g : g = F(g, k)
<1>1. w(2) = F(w(2), 2) /\ w(3) = F(w(3), 3)
  OBVIOUS
<1>2. right(2) = F(right(2), 2) /\ right(3) = F(right(3), 3)
  BY <1>1
<1>3. Shifted(v, 2) = right(2)[2] /\ Shifted(v, 3) = right(3)[3]
  BY DEF Shifted
<1> HIDE DEF right
<1>4. /\ right(2)[0] = v /\ right(2)[1] = right(2)[0] \div 256
      /\ right(2)[2] = right(2)[1] \div 256
      /\ right(3)[0] = v /\ right(3)[1] = right(3)[0] \div 256
      /\ right(3)[2] = right(3)[1] \div 256 /\ right(3)[3] = right(3)[2] \div 256
  BY <1>2
<1> QED BY <1>3, <1>4

\* The four bytes of a value.
LEMMA FourBytes ==
  ASSUME NEW v \in Nat
  PROVE  /\ BigEndian(v, 4) \in Seq(Octet) /\ Len(BigEndian(v, 4)) = 4
         /\ \A i \in 1..4 : BigEndian(v, 4)[i] = Shifted(v, 4 - i) % 256
<1>1. \A k \in 0..3 : Shifted(v, k) \in Nat
  <2>1. v \div 256 \in Nat /\ (v \div 256) \div 256 \in Nat
        /\ ((v \div 256) \div 256) \div 256 \in Nat
    BY Halves
  <2>2. \A k \in 0..3 : k = 0 \/ k = 1 \/ k = 2 \/ k = 3
    OBVIOUS
  <2> QED BY <2>1, <2>2, ShiftedOnce, ShiftedMore
<1>2. \A i \in 1..4 : Shifted(v, 4 - i) \in Nat
  <2>1. \A i \in 1..4 : 4 - i \in 0..3
    OBVIOUS
  <2> QED BY <1>1, <2>1
<1>3. \A i \in 1..4 : Shifted(v, 4 - i) % 256 \in Octet
  BY <1>2, Halves
<1> DEFINE b == BigEndian(v, 4)
<1>4. b = [i \in 1..4 |-> Shifted(v, 4 - i) % 256]
  BY DEF BigEndian
<1> HIDE DEF b
<1>5. \A i \in 1..4 : b[i] = Shifted(v, 4 - i) % 256
  BY <1>4
<1>6. b \in [1..4 -> Octet]
  BY <1>3, <1>4
<1>7. b \in Seq(Octet) /\ Len(b) = 4
  BY <1>6, IsSequence
<1> QED BY <1>5, <1>7 DEF b

\* Two bytes give a length.
LEMMA LengthArrives ==
  ASSUME NEW v \in Nat, Shifted(v, 1) < 256, NEW b \in Seq(Octet), Len(b) = 2,
         \A i \in 1..2 : b[i] = BigEndian(v, 2)[i]
  PROVE  Number(b) = v
<1>1. b[1] = (v \div 256) % 256 /\ b[2] = v % 256
  BY BytesOfNumber
<1>2. Shifted(v, 1) = v \div 256 /\ Shifted(v, 0) = v
  BY ShiftedOnce
<1>3. v \div 256 \in Nat /\ ((v \div 256) * 256) + (v % 256) = v
  BY Halves
<1>4. (v \div 256) % 256 = v \div 256
  BY <1>2, <1>3, Halves
<1>5. b[1] = v \div 256 /\ b[2] = v % 256
  BY <1>1, <1>2, <1>4
<1> QED BY <1>3, <1>5, NumberOfTwo

\* Four bytes give the counter's value.
LEMMA ValueArrives ==
  ASSUME NEW v \in Nat, Shifted(v, 3) < 256, NEW b \in Seq(Octet), Len(b) = 4,
         \A i \in 1..4 : b[i] = BigEndian(v, 4)[i]
  PROVE  Number(b) = v
<1> DEFINE x == v \div 256
           y == x \div 256
           z == y \div 256
<1>1. Shifted(v, 3) = z /\ Shifted(v, 2) = y /\ Shifted(v, 1) = x /\ Shifted(v, 0) = v
  BY ShiftedOnce, ShiftedMore
<1>2. x \in Nat /\ (x * 256) + (v % 256) = v
  BY Halves
<1> HIDE DEF x
<1>3. y \in Nat /\ (y * 256) + (x % 256) = x
  BY <1>2, Halves
<1> HIDE DEF y
<1>4. z \in Nat /\ (z * 256) + (y % 256) = y
  BY <1>3, Halves
<1> HIDE DEF z
<1>5. z % 256 = z
  BY <1>1, <1>4, Halves
<1>6. \A i \in 1..4 : b[i] = Shifted(v, 4 - i) % 256
  BY FourBytes
<1>7. /\ b[1] = Shifted(v, 3) % 256 /\ b[2] = Shifted(v, 2) % 256
      /\ b[3] = Shifted(v, 1) % 256 /\ b[4] = Shifted(v, 0) % 256
  BY <1>6
<1>8. b[1] = z /\ b[2] = y % 256 /\ b[3] = x % 256 /\ b[4] = v % 256
  BY <1>1, <1>5, <1>7
<1>9. Number(b) = ((b[1] * 256 + b[2]) * 256 + b[3]) * 256 + b[4]
  BY NumberOfFour
<1>10. ((z * 256) + (y % 256)) = y /\ ((y * 256) + (x % 256)) = x
  BY <1>3, <1>4
<1> QED BY <1>2, <1>8, <1>9, <1>10

-----------------------------------------------------------------------------
(***************************************************************************)
(* The way back, module Notifier: the types of the fields of Details, and  *)
(* that the client waits only when it lacks bytes.                         *)
(***************************************************************************)
DetailSteps == {"header", "protocol_version", "name_length", "counter_value", "payload_length",
                "name", "payload", "call_counter_listeners", "call_event_listeners"}

NoticeSteps == {"name_length", "counter_value", "payload_length", "name", "payload"}

\* What listeners can be called with.
Heard == [op : {event_triggered}, name : Seq(Byte), payload : Seq(Byte)]
           \cup [op : {counter_changed}, name : Seq(Byte), value : Nat]

DetailsInv ==
  /\ phase \in {"recv", "process", "thrown"}
  /\ step \in DetailSteps
  /\ opcode \in 0..15
  /\ step \in NoticeSteps => opcode \in {event_triggered, counter_changed}
  /\ name_length \in 0..255
  /\ counter_value \in Nat
  /\ payload_length \in 0..UINT16_MAX
  /\ name \in Seq(Byte) /\ payload \in Seq(Byte)

OutboxInv ==
  /\ Len(stream) - received <= Room
  /\ sent \in Seq(Notice) /\ written \in Seq(Notice)

CalledInv == called \in Seq(Heard)

Starved == phase = "recv" => avaliable(buffer) < Needed

NotifierInv == BufferInv /\ DetailsInv /\ OutboxInv /\ CalledInv /\ Starved

Torn == torn \in BOOLEAN

\* How many bytes a step reads.
LEMMA NeededIs ==
  /\ step = "header"                 => Needed = 1
  /\ step = "protocol_version"       => Needed = 1
  /\ step = "name_length"            => Needed = 1
  /\ step = "counter_value"          => Needed = 4
  /\ step = "payload_length"         => Needed = 2
  /\ step = "name"                   => Needed = name_length
  /\ step = "payload"                => Needed = payload_length
  /\ step = "call_counter_listeners" => Needed = 0
  /\ step = "call_event_listeners"   => Needed = 0
BY DEF Needed

\* What a step waits for is a number.
LEMMA NeededType == DetailsInv => Needed \in Nat
<1> SUFFICES ASSUME DetailsInv PROVE Needed \in Nat
  OBVIOUS
<1>1. step \in DetailSteps /\ name_length \in Nat /\ payload_length \in Nat
  BY DEF DetailsInv
<1> QED BY <1>1, NeededIs DEF DetailSteps

\* A step gets the bytes it waited for.
LEMMA ProcessingGets ==
  ASSUME BufferInv, DetailsInv, NEW s, NEW n \in Nat, Processing(s, n), n = Needed
  PROVE  /\ step = s /\ phase = "process" /\ Get(n) /\ UNCHANGED <<sent, written, torn>>
         /\ BufferInv'
         /\ Read(n) = peek(buffer, n)
         /\ Read(n) \in Seq(Byte) /\ Len(Read(n)) = n /\ \A i \in 1..n : Read(n)[i] \in Octet
         /\ \A i \in 1..n : Read(n)[i] = stream[taken + i]
         /\ stream' = stream /\ received' = received /\ taken' = taken + n
         /\ taken \in Nat /\ taken + n <= Len(stream) /\ Len(stream) \in Nat
<1> DEFINE a == avaliable(buffer)
           m == IF n <= a THEN n ELSE a
<1>1. a \in Nat /\ n <= a
  <2>1. a \in Nat
    BY AvaliableType
  <2> QED BY <2>1 DEF Processing, can_process_input
<1>2. m = n
  BY <1>1
<1>3. Get(m) /\ step = s /\ phase = "process" /\ UNCHANGED <<sent, written, torn>>
  BY DEF Processing, outbox
<1>4. Get(n)
  BY <1>2, <1>3
<1>5. Read(n) = peek(buffer, m)
  BY DEF Read
<1>6. Read(n) = peek(buffer, n)
  BY <1>2, <1>5
<1>7. BufferInv'
  BY <1>4, GetInv
<1> DEFINE r == peek(buffer, n)
<1>8. /\ \A i \in 1..n : r[i] = stream[taken + i]
      /\ taken \in Nat /\ taken + n <= received /\ received <= Len(stream)
      /\ received \in Nat /\ Len(stream) \in Nat
  BY <1>1, PeekIs
<1>9. r \in Seq(Byte) /\ \A i \in 1..n : r[i] \in Byte
  BY <1>1, PeekBytes
<1>10. Len(r) = n
  <2>1. r = [i \in 1..n |-> buffer.memory[buffer.read + i]]
    BY DEF peek
  <2> HIDE DEF r
  <2> QED BY <1>9, <2>1
<1>11. stream' = stream /\ received' = received /\ taken' = taken + n
  BY <1>4 DEF Get
<1> HIDE DEF r, a, m
<1>12. taken + n <= Len(stream)
  BY <1>8
<1> QED BY <1>3, <1>4, <1>6, <1>7, <1>8, <1>9, <1>10, <1>11, <1>12, BytesAreOctets DEF r

\* Bytes sent behind the stream are behind those that were received.
LEMMA SentBehind ==
  ASSUME BufferInv, NEW b \in Seq(Byte), stream' = stream \o b,
         UNCHANGED <<buffer, peer, connected, received, taken>>
  PROVE  /\ BufferInv'
         /\ Len(stream') = Len(stream) + Len(b) /\ Len(stream) \in Nat /\ Len(b) \in Nat
         /\ \A i \in 1..Len(stream) : stream'[i] = stream[i]
         /\ \A i \in 1..Len(b) : stream'[Len(stream) + i] = b[i]
<1>1. stream \in Seq(Byte) /\ received \in 0..Len(stream) /\ taken \in 0..received
      /\ avaliable(buffer) = received - taken
  BY DEF BufferInv
<1> DEFINE t == stream \o b
           z == Len(stream)
<1>2. /\ t \in Seq(Byte) /\ Len(t) = z + Len(b) /\ z \in Nat /\ Len(b) \in Nat
      /\ \A i \in 1..z : t[i] = stream[i]
      /\ \A i \in 1..Len(b) : t[z + i] = b[i]
  BY <1>1
<1>3. t = stream'
  OBVIOUS
<1> HIDE DEF t, z
<1>4. received \in 0..Len(t) /\ received \in 0..z
  BY <1>1, <1>2 DEF z
<1>5. Holds(buffer, t, taken)
  <2>1. ASSUME NEW i \in 1..avaliable(buffer)
        PROVE  buffer.memory[buffer.read + i] = t[taken + i]
    <3> DEFINE u == avaliable(buffer)
    <3>1. i \in 1..u /\ u = received - taken /\ taken \in 0..received
      BY <1>1
    <3> HIDE DEF u
    <3>2. taken + i \in 1..z
      BY <1>2, <1>4, <3>1
    <3>3. buffer.memory[buffer.read + i] = stream[taken + i]
      BY DEF BufferInv, Holds
    <3> QED BY <1>2, <3>2, <3>3
  <2> QED BY <2>1 DEF Holds
<1>6. BufferInv'
  BY <1>2, <1>3, <1>4, <1>5 DEF BufferInv
<1> QED BY <1>2, <1>3, <1>6 DEF z

\* The version packet.
LEMMA VersionBytes ==
  /\ version_packet \in Seq(Byte) /\ Len(version_packet) = 2
  /\ version_packet[1] = version /\ version_packet[2] = protocol_version
BY NoticesFit DEF version_packet

\* A new connection, with the version on its way.
LEMMA NotifierStarts == NotifierInit => NotifierInv /\ Torn
<1> SUFFICES ASSUME NotifierInit PROVE NotifierInv /\ Torn
  OBVIOUS
<1>1. buffer = NewBuffer /\ InitialSize \in Nat
  BY SizeIsPower DEF NotifierInit, Sizes
<1>2. Buffer(buffer) /\ avaliable(buffer) = 0
  BY <1>1 DEF Buffer, NewBuffer, NewMemory, avaliable
<1>3. buffer.size = InitialSize
  BY <1>1 DEF NewBuffer
<1>4. stream \in Seq(Byte) /\ Len(stream) = 2
  BY VersionBytes DEF NotifierInit
<1>5. Holds(buffer, stream, taken) /\ SizeFits(buffer.size)
  BY <1>1, <1>2, <1>3 DEF Holds, SizeFits
<1>6. received \in 0..Len(stream) /\ taken \in 0..received /\ received - taken = 0
  BY <1>4 DEF NotifierInit
<1>7. BufferInv
  BY <1>2, <1>3, <1>4, <1>5, <1>6, SizeIsPower DEF NotifierInit, BufferInv
<1>8. step = "header" /\ Needed = 1
  BY NeededIs DEF NotifierInit
<1>9. Starved
  BY <1>2, <1>8 DEF Starved
<1>10. DetailsInv
  <2>1. <<>> \in Seq(Byte)
    BY EmptySeq
  <2>2. version \in 0..15
    BY DEF version
  <2>3. 0 \in 0..UINT16_MAX
    BY DEF UINT16_MAX
  <2> QED BY <2>1, <2>2, <2>3 DEF NotifierInit, DetailsInv, DetailSteps, NoticeSteps
<1>11. OutboxInv /\ CalledInv
  <2>1. <<>> \in Seq(Notice) /\ <<>> \in Seq(Heard)
    BY EmptySeq
  <2>2. Len(stream) - received <= Room
    <3>1. Room \in Nat /\ Room >= 2
      BY RoomForVersion, VersionBytes
    <3>2. received = 0
      BY DEF NotifierInit
    <3> QED BY <1>4, <3>1, <3>2
  <2> QED BY <2>1, <2>2 DEF NotifierInit, OutboxInv, CalledInv
<1>12. Torn
  BY DEF NotifierInit, Torn
<1> QED BY <1>7, <1>9, <1>10, <1>11, <1>12 DEF NotifierInv

\* A part of a packet, up to the whole.
LEMMA PartOf ==
  ASSUME NEW p \in Seq(Byte), NEW n \in 0..Len(p)
  PROVE  /\ SubSeq(p, 1, n) \in Seq(Byte) /\ Len(SubSeq(p, 1, n)) = n
         /\ \A i \in 1..n : SubSeq(p, 1, n)[i] = p[i]
<1>1. Len(p) \in Nat
  OBVIOUS
<1>2. \A i \in 1..n : i \in 1..Len(p) /\ p[i] \in Byte
  OBVIOUS
<1> QED BY <1>1, <1>2

\* The type of each field of Details.
LEMMA DetailsAre ==
  DetailsInv =>
      /\ step \in DetailSteps
      /\ opcode \in 0..15
      /\ step \in NoticeSteps => opcode \in {event_triggered, counter_changed}
      /\ name_length \in 0..255
      /\ counter_value \in Nat
      /\ payload_length \in 0..UINT16_MAX
      /\ name \in Seq(Byte)
      /\ payload \in Seq(Byte)
<1>1. DetailsInv => step \in DetailSteps /\ opcode \in 0..15
  BY DEF DetailsInv
<1>2. DetailsInv => (step \in NoticeSteps => opcode \in {event_triggered, counter_changed})
  BY DEF DetailsInv
<1>3. DetailsInv => name_length \in 0..255
  BY DEF DetailsInv
<1>4. DetailsInv => counter_value \in Nat
  BY DEF DetailsInv
<1>5. DetailsInv => payload_length \in 0..UINT16_MAX
  BY DEF DetailsInv
<1>6. DetailsInv => name \in Seq(Byte)
  BY DEF DetailsInv
<1>7. DetailsInv => payload \in Seq(Byte)
  BY DEF DetailsInv
<1> QED BY <1>1, <1>2, <1>3, <1>4, <1>5, <1>6, <1>7

\* They hold while the fields stay, wherever the loop is.
LEMMA DetailsKept ==
  ASSUME DetailsInv, phase' \in {"recv", "process", "thrown"},
         step' = step, opcode' = opcode, name_length' = name_length,
         counter_value' = counter_value, payload_length' = payload_length,
         name' = name, payload' = payload
  PROVE  DetailsInv'
<1>1. step' \in DetailSteps
  BY DetailsAre
<1>2. opcode' \in 0..15
  BY DetailsAre
<1>3. step' \in NoticeSteps => opcode' \in {event_triggered, counter_changed}
  BY DetailsAre
<1>4. phase' \in {"recv", "process", "thrown"}
  OBVIOUS
<1>5. name_length' \in 0..255
  BY DetailsAre
<1>6. counter_value' \in Nat
  BY DetailsAre
<1>7. payload_length' \in 0..UINT16_MAX
  BY DetailsAre
<1>8. name' \in Seq(Byte)
  BY DetailsAre
<1>9. payload' \in Seq(Byte)
  BY DetailsAre
<1> QED BY ONLY <1>1, <1>2, <1>3, <1>4, <1>5, <1>6, <1>7, <1>8, <1>9, SMTT(30)
          DEF DetailsInv, DetailSteps, NoticeSteps, event_triggered, counter_changed

\* What the socket takes of a packet.
LEMMA NotifyTypes ==
  ASSUME NotifierInv, NEW notice \in Notice, Notify(notice)
  PROVE  NotifierInv' /\ (Torn => Torn')
<1> DEFINE p == packet(notice)
<1>1. p \in Seq(Byte) /\ Len(p) \in Nat
  BY NoticesFit
<1>2. PICK n \in 0..Len(p) :
        /\ send(p, n)
        /\ written' = IF n = Len(p) THEN Append(written, notice) ELSE written
        /\ torn' = (torn \/ n \in 1..(Len(p) - 1))
  BY DEF Notify
<1>3. /\ sent' = Append(sent, notice)
      /\ UNCHANGED <<buffer, peer, connected, received, taken, phase, step, opcode, name_length,
                     counter_value, payload_length, name, payload, called>>
  BY DEF Notify, details
<1>4. stream' = stream \o SubSeq(p, 1, n) /\ (IF Len(p) <= Free THEN n = Len(p) ELSE n <= Free)
  BY <1>2 DEF send
<1> HIDE DEF p
<1>5. SubSeq(p, 1, n) \in Seq(Byte) /\ Len(SubSeq(p, 1, n)) = n
  BY <1>1, PartOf
<1>6. BufferInv' /\ Len(stream') = Len(stream) + n /\ Len(stream) \in Nat
  BY <1>3, <1>4, <1>5, SentBehind DEF NotifierInv
<1>7. DetailsInv'
  <2>1. DetailsInv /\ phase \in {"recv", "process", "thrown"}
    BY DEF NotifierInv, DetailsInv
  <2> QED BY <1>3, <2>1, DetailsKept
<1>8. Starved'
  <2>1. Needed' = Needed /\ avaliable(buffer)' = avaliable(buffer)
    BY <1>3 DEF Needed, avaliable
  <2> QED BY <1>3, <2>1 DEF NotifierInv, Starved
<1>9. OutboxInv' /\ CalledInv'
  <2>1. Len(stream') - received' <= Room
    <3>1. n <= Free
      BY <1>4
    <3>2. n <= Room - (Len(stream) - received)
      BY <3>1 DEF Free
    <3>3. received \in Nat /\ Room \in Nat /\ n \in Nat
      BY <1>1, RoomForVersion DEF NotifierInv, BufferInv
    <3>4. (Len(stream) + n) - received <= Room
      BY <1>6, <3>2, <3>3
    <3> QED BY <1>3, <1>6, <3>4
  <2>2. written' \in Seq(Notice) /\ sent' \in Seq(Notice)
    BY <1>2, <1>3 DEF NotifierInv, OutboxInv
  <2> QED BY <1>3, <2>1, <2>2 DEF NotifierInv, OutboxInv, CalledInv
<1>10. Torn => Torn'
  BY <1>2 DEF Torn
<1> QED BY <1>6, <1>7, <1>8, <1>9, <1>10 DEF NotifierInv

\* Whatever recv does, the fields stay.
LEMMA FillTypes ==
  ASSUME NotifierInv, ServerLeaves \/ receive \/ disconnected
  PROVE  NotifierInv' /\ (Torn => Torn')
<1>1. /\ UNCHANGED <<step, opcode, name_length, counter_value, payload_length, name, payload,
                     sent, written, torn, called, stream>>
      /\ Needed' = Needed
  <2>1. UNCHANGED <<step, opcode, name_length, counter_value, payload_length, name, payload,
                    sent, written, torn, called, stream>>
    <3>1. CASE ServerLeaves
      BY <3>1 DEF ServerLeaves, PeerLeaves, details, outbox
    <3>2. CASE receive
      BY <3>2 DEF receive, Receive, ReceiveError, details, outbox
    <3>3. CASE disconnected
      BY <3>3 DEF disconnected, ReceiveNothing, details, outbox
    <3> QED BY <3>1, <3>2, <3>3
  <2> QED BY <2>1 DEF Needed
<1>2. Torn => Torn'
  BY <1>1 DEF Torn
<1>3. BufferInv' /\ received' >= received /\ received \in Nat /\ received' \in Nat
      /\ phase' \in {"recv", "process", "thrown"} /\ Starved'
  <2>0. BufferInv /\ received \in Nat /\ DetailsInv /\ Starved
    BY DEF NotifierInv, BufferInv
  <2>1. CASE ServerLeaves
    <3>1. UNCHANGED <<phase, received, buffer>>
      BY <2>1 DEF ServerLeaves, PeerLeaves
    <3>2. BufferInv'
      BY <2>0, <2>1 DEF ServerLeaves, PeerLeaves, BufferInv
    <3>3. avaliable(buffer)' = avaliable(buffer)
      BY <3>1 DEF avaliable
    <3> QED BY <1>1, <2>0, <3>1, <3>2, <3>3 DEF Starved, DetailsInv
  <2>2. CASE receive
    <3>1. phase' = "process"
      BY <2>2 DEF receive
    <3>2. CASE ReceiveError
      BY <2>0, <3>1, <3>2, ReceiveErrorInv DEF ReceiveError, Starved
    <3>3. ASSUME NEW n \in 1..Len(stream), Receive(n)
          PROVE  BufferInv' /\ received' >= received /\ received' \in Nat
      BY <2>0, <3>3, ReceiveInv DEF Receive
    <3> QED BY <2>0, <2>2, <3>1, <3>2, <3>3 DEF receive, Starved
  <2>3. CASE disconnected
    <3>1. phase' = "thrown" /\ ReceiveNothing
      BY <2>3 DEF disconnected
    <3>2. BufferInv' /\ received' = received
      BY <2>0, <3>1, ReceiveNothingInv DEF ReceiveNothing
    <3>3. Starved'
      BY <3>1 DEF Starved
    <3> QED BY <2>0, <3>1, <3>2, <3>3
  <2> QED BY <2>1, <2>2, <2>3
<1>4. DetailsInv' /\ CalledInv'
  <2>1. CalledInv'
    BY <1>1 DEF NotifierInv, CalledInv, Heard, event_triggered, counter_changed
  <2>2. DetailsInv'
    BY <1>1, <1>3, DetailsKept DEF NotifierInv
  <2> QED BY <2>1, <2>2
<1>5. OutboxInv'
  <2>1. Len(stream) \in Nat /\ Room \in Nat /\ Len(stream) - received <= Room
    BY RoomForVersion DEF NotifierInv, OutboxInv, BufferInv
  <2> DEFINE z == Len(stream)
  <2>2. z \in Nat /\ z - received <= Room
    BY <2>1
  <2>3. z = Len(stream')
    BY <1>1
  <2> HIDE DEF z
  <2>4. z - received' <= Room
    <3>1. PICK r : r = received'
      OBVIOUS
    <3>2. PICK q : q = received
      OBVIOUS
    <3>3. r \in Nat /\ q \in Nat /\ r >= q /\ z - q <= Room
      BY <1>3, <2>2, <3>1, <3>2
    <3>4. z - r <= Room
      BY <2>1, <2>2, <3>3
    <3> QED BY <3>1, <3>4
  <2> QED BY <1>1, <2>3, <2>4 DEF NotifierInv, OutboxInv
<1> QED BY <1>2, <1>3, <1>4, <1>5 DEF NotifierInv

\* The fields have their types after a step that changes some of them.
LEMMA DetailsStep ==
  ASSUME DetailsInv, phase' \in {"recv", "process", "thrown"}, step' \in DetailSteps,
         step' \in NoticeSteps => opcode' \in {event_triggered, counter_changed},
         opcode' = opcode \/ opcode' \in 0..15,
         name_length' = name_length \/ name_length' \in 0..255,
         counter_value' = counter_value \/ counter_value' \in Nat,
         payload_length' = payload_length \/ payload_length' \in 0..UINT16_MAX,
         name' = name \/ name' \in Seq(Byte), payload' = payload \/ payload' \in Seq(Byte)
  PROVE  DetailsInv'
<1>1. phase' \in {"recv", "process", "thrown"} /\ step' \in DetailSteps
  OBVIOUS
<1>2. step' \in NoticeSteps => opcode' \in {event_triggered, counter_changed}
  OBVIOUS
<1>3. opcode' \in 0..15
  BY DetailsAre
<1>4. name_length' \in 0..255
  BY DetailsAre
<1>5. counter_value' \in Nat
  BY DetailsAre
<1>6. payload_length' \in 0..UINT16_MAX
  BY DetailsAre
<1>7. name' \in Seq(Byte)
  BY DetailsAre
<1>8. payload' \in Seq(Byte)
  BY DetailsAre
<1> QED BY ONLY <1>1, <1>2, <1>3, <1>4, <1>5, <1>6, <1>7, <1>8, SMTT(30)
          DEF DetailsInv, DetailSteps, NoticeSteps, event_triggered, counter_changed

\* A step leaves the rest as it should be.
LEMMA StepTypes ==
  ASSUME NotifierInv, NEW s, NEW n \in Nat, Processing(s, n), n = Needed,
         DetailsInv', phase' # "recv", called' \in Seq(Heard)
  PROVE  NotifierInv' /\ (Torn => Torn')
<1>1. BufferInv' /\ UNCHANGED <<sent, written, torn>> /\ stream' = stream /\ received' = received
  BY ProcessingGets DEF NotifierInv, Processing, outbox
<1>2. OutboxInv'
  BY <1>1 DEF NotifierInv, OutboxInv
<1>3. CalledInv'
  BY DEF CalledInv, Heard, event_triggered, counter_changed
<1>4. Starved'
  BY DEF Starved
<1>5. Torn => Torn'
  BY <1>1 DEF Torn
<1> QED BY <1>1, <1>2, <1>3, <1>4, <1>5 DEF NotifierInv

\* The number in two bytes.
LEMMA TwoBytes ==
  ASSUME NEW b \in Seq(Byte), Len(b) = 2
  PROVE  b \in Seq(Octet) /\ Number(b) \in 0..UINT16_MAX
<1>1. b \in Seq(Octet)
  BY BytesAreOctets, SeqMonotonic
<1>2. Number(b) = b[1] * 256 + b[2]
  BY <1>1, NumberOfTwo
<1>3. b[1] \in Octet /\ b[2] \in Octet
  BY <1>1
<1>4. ASSUME NEW x \in Octet, NEW y \in Octet PROVE x * 256 + y \in 0..UINT16_MAX
  <2>1. x \in Nat /\ x <= 255 /\ y \in Nat /\ y <= 255 /\ UINT16_MAX = 65535
    BY DEF Octet, UINT16_MAX
  <2>2. x * 256 + y \in Nat /\ x * 256 + y <= UINT16_MAX /\ UINT16_MAX \in Nat
    BY <2>1
  <2> QED BY <2>2
<1> QED BY <1>1, <1>2, <1>3, <1>4

\* Each step of the loop keeps the types.
LEMMA HeaderTypes == NotifierInv /\ process_header => NotifierInv' /\ (Torn => Torn')
<1> SUFFICES ASSUME NotifierInv, process_header PROVE NotifierInv' /\ (Torn => Torn')
  OBVIOUS
<1> DEFINE b == Read(1)[1]
           o == b % 16
<1>1. /\ Processing("header", 1) /\ opcode' = o
      /\ step' = CASE o = version -> "protocol_version"
                   [] o \in {event_triggered, counter_changed} -> "name_length"
                   [] OTHER -> "header"
      /\ UNCHANGED <<phase, name_length, counter_value, payload_length, name, payload, called>>
  BY DEF process_header
<1>2. 1 = Needed
  BY <1>1, NeededIs DEF Processing
<1>3. phase = "process" /\ BufferInv /\ DetailsInv /\ called \in Seq(Heard)
  BY <1>1 DEF Processing, NotifierInv, CalledInv
<1>4. b \in Octet
  BY <1>1, <1>2, <1>3, ProcessingGets
<1> HIDE DEF b
<1>5. o \in 0..15
  BY <1>4 DEF Octet
<1> HIDE DEF o
<1>6. step' = "protocol_version" \/ step' = "header"
      \/ (step' = "name_length" /\ o \in {event_triggered, counter_changed})
  BY <1>1 DEF version, event_triggered, counter_changed
<1>7. step' \in DetailSteps
      /\ (step' \in NoticeSteps => opcode' \in {event_triggered, counter_changed})
  BY <1>1, <1>6 DEF DetailSteps, NoticeSteps
<1>8. DetailsInv'
  BY <1>1, <1>3, <1>5, <1>7, DetailsStep
<1> QED BY <1>1, <1>2, <1>3, <1>8, StepTypes

\* The version's step throws, or goes on.
LEMMA VersionTypes == NotifierInv /\ process_version => NotifierInv' /\ (Torn => Torn')
<1> SUFFICES ASSUME NotifierInv, process_version PROVE NotifierInv' /\ (Torn => Torn')
  OBVIOUS
<1>1. /\ Processing("protocol_version", 1)
      /\ (step' = "header" /\ phase' = phase) \/ (phase' = "thrown" /\ step' = step)
      /\ UNCHANGED <<opcode, name_length, counter_value, payload_length, name, payload, called>>
  BY DEF process_version, details
<1>2. step = "protocol_version" /\ 1 = Needed
  BY <1>1, NeededIs DEF Processing
<1>3. phase = "process" /\ BufferInv /\ DetailsInv /\ called \in Seq(Heard)
  BY <1>1 DEF Processing, NotifierInv, CalledInv
<1>4. step' \in DetailSteps
      /\ (step' \in NoticeSteps => opcode' \in {event_triggered, counter_changed})
  BY <1>1, <1>2 DEF DetailSteps, NoticeSteps
<1>5. phase' \in {"process", "thrown"}
  BY <1>1, <1>3
<1>6. DetailsInv'
  BY <1>1, <1>3, <1>4, <1>5, DetailsStep
<1> QED BY <1>1, <1>2, <1>3, <1>5, <1>6, StepTypes

\* The steps that read numbers.
LEMMA NumbersTypes ==
  NotifierInv /\ (process_name_length \/ process_counter_value \/ process_payload_length)
    => NotifierInv' /\ (Torn => Torn')
<1>1. ASSUME NotifierInv, process_name_length PROVE NotifierInv' /\ (Torn => Torn')
  <2> DEFINE b == Read(1)[1]
  <2>1. /\ Processing("name_length", 1) /\ name_length' = b
        /\ step' = IF opcode = event_triggered THEN "payload_length" ELSE "counter_value"
        /\ UNCHANGED <<phase, opcode, counter_value, payload_length, name, payload, called>>
    BY <1>1 DEF process_name_length
  <2>2. step = "name_length" /\ 1 = Needed
    BY <2>1, NeededIs DEF Processing
  <2>3. phase = "process" /\ BufferInv /\ DetailsInv /\ called \in Seq(Heard)
    BY <1>1, <2>1 DEF Processing, NotifierInv, CalledInv
  <2>4. b \in 0..255
    BY <2>1, <2>2, <2>3, ProcessingGets DEF Octet
  <2> HIDE DEF b
  <2>5. step' \in DetailSteps
        /\ (step' \in NoticeSteps => opcode' \in {event_triggered, counter_changed})
    BY <2>1, <2>2, <2>3, DetailsAre DEF DetailSteps, NoticeSteps
  <2>6. DetailsInv'
    BY <2>1, <2>3, <2>4, <2>5, DetailsStep
  <2> QED BY <1>1, <2>1, <2>2, <2>3, <2>6, StepTypes
<1>2. ASSUME NotifierInv, process_counter_value PROVE NotifierInv' /\ (Torn => Torn')
  <2> DEFINE b == Read(4)
             v == Number(b)
  <2>1. /\ Processing("counter_value", 4) /\ counter_value' = v /\ step' = "name"
        /\ UNCHANGED <<phase, opcode, name_length, payload_length, name, payload, called>>
    BY <1>2 DEF process_counter_value
  <2>2. step = "counter_value" /\ 4 = Needed
    BY <2>1, NeededIs DEF Processing
  <2>3. phase = "process" /\ BufferInv /\ DetailsInv /\ called \in Seq(Heard)
    BY <1>2, <2>1 DEF Processing, NotifierInv, CalledInv
  <2>4. b \in Seq(Byte) /\ Len(b) = 4
    BY <2>1, <2>2, <2>3, ProcessingGets
  <2> HIDE DEF b
  <2>5. v \in Nat
    BY <2>4, BytesAreOctets, SeqMonotonic, NumberOfFour
  <2> HIDE DEF v
  <2>6. step' \in DetailSteps
        /\ (step' \in NoticeSteps => opcode' \in {event_triggered, counter_changed})
    BY <2>1, <2>2, <2>3, DetailsAre DEF DetailSteps, NoticeSteps
  <2>7. DetailsInv'
    BY <2>1, <2>3, <2>5, <2>6, DetailsStep
  <2> QED BY <1>2, <2>1, <2>2, <2>3, <2>7, StepTypes
<1>3. ASSUME NotifierInv, process_payload_length PROVE NotifierInv' /\ (Torn => Torn')
  <2> DEFINE b == Read(2)
             v == Number(b)
  <2>1. /\ Processing("payload_length", 2) /\ payload_length' = v /\ step' = "name"
        /\ UNCHANGED <<phase, opcode, name_length, counter_value, name, payload, called>>
    BY <1>3 DEF process_payload_length
  <2>2. step = "payload_length" /\ 2 = Needed
    BY <2>1, NeededIs DEF Processing
  <2>3. phase = "process" /\ BufferInv /\ DetailsInv /\ called \in Seq(Heard)
    BY <1>3, <2>1 DEF Processing, NotifierInv, CalledInv
  <2>4. b \in Seq(Byte) /\ Len(b) = 2
    BY <2>1, <2>2, <2>3, ProcessingGets
  <2> HIDE DEF b
  <2>5. v \in 0..UINT16_MAX
    BY <2>4, TwoBytes
  <2> HIDE DEF v
  <2>6. step' \in DetailSteps
        /\ (step' \in NoticeSteps => opcode' \in {event_triggered, counter_changed})
    BY <2>1, <2>2, <2>3, DetailsAre DEF DetailSteps, NoticeSteps
  <2>7. DetailsInv'
    BY <2>1, <2>3, <2>5, <2>6, DetailsStep
  <2> QED BY <1>3, <2>1, <2>2, <2>3, <2>7, StepTypes
<1> QED BY <1>1, <1>2, <1>3

\* The steps that read strings.
LEMMA StringsTypes ==
  NotifierInv /\ (process_name \/ process_payload) => NotifierInv' /\ (Torn => Torn')
<1>1. ASSUME NotifierInv, process_name PROVE NotifierInv' /\ (Torn => Torn')
  <2> DEFINE b == Read(name_length)
  <2>1. /\ Processing("name", name_length) /\ name' = b
        /\ step' = IF opcode = event_triggered THEN "payload" ELSE "call_counter_listeners"
        /\ UNCHANGED <<phase, opcode, name_length, counter_value, payload_length, payload, called>>
    BY <1>1 DEF process_name
  <2>2. step = "name" /\ name_length = Needed
    BY <2>1, NeededIs DEF Processing
  <2>3. phase = "process" /\ BufferInv /\ DetailsInv /\ called \in Seq(Heard)
    BY <1>1, <2>1 DEF Processing, NotifierInv, CalledInv
  <2>4. name_length \in Nat
    <3>1. name_length \in 0..255
      BY <2>3, DetailsAre
    <3> QED BY <3>1
  <2>5. b \in Seq(Byte)
    BY <2>1, <2>2, <2>3, <2>4, ProcessingGets
  <2> HIDE DEF b
  <2>6. step' \in DetailSteps
        /\ (step' \in NoticeSteps => opcode' \in {event_triggered, counter_changed})
    BY <2>1, <2>2, <2>3, DetailsAre DEF DetailSteps, NoticeSteps
  <2>7. DetailsInv'
    BY <2>1, <2>3, <2>5, <2>6, DetailsStep
  <2> QED BY <1>1, <2>1, <2>2, <2>3, <2>4, <2>7, StepTypes
<1>2. ASSUME NotifierInv, process_payload PROVE NotifierInv' /\ (Torn => Torn')
  <2> DEFINE b == Read(payload_length)
  <2>1. /\ Processing("payload", payload_length) /\ payload' = b /\ step' = "call_event_listeners"
        /\ UNCHANGED <<phase, opcode, name_length, counter_value, payload_length, name, called>>
    BY <1>2 DEF process_payload
  <2>2. step = "payload" /\ payload_length = Needed
    BY <2>1, NeededIs DEF Processing
  <2>3. phase = "process" /\ BufferInv /\ DetailsInv /\ called \in Seq(Heard)
    BY <1>2, <2>1 DEF Processing, NotifierInv, CalledInv
  <2>4. payload_length \in Nat
    <3>1. payload_length \in 0..UINT16_MAX
      BY <2>3, DetailsAre
    <3> QED BY <3>1 DEF UINT16_MAX
  <2>5. b \in Seq(Byte)
    BY <2>1, <2>2, <2>3, <2>4, ProcessingGets
  <2> HIDE DEF b
  <2>6. step' \in DetailSteps
        /\ (step' \in NoticeSteps => opcode' \in {event_triggered, counter_changed})
    BY <2>1, <2>2, <2>3, DetailsAre DEF DetailSteps, NoticeSteps
  <2>7. DetailsInv'
    BY <2>1, <2>3, <2>5, <2>6, DetailsStep
  <2> QED BY <1>2, <2>1, <2>2, <2>3, <2>4, <2>7, StepTypes
<1> QED BY <1>1, <1>2

\* The listeners are called with what Heard says.
LEMMA CallTypes == NotifierInv /\ call_listeners => NotifierInv' /\ (Torn => Torn')
<1> SUFFICES ASSUME NotifierInv, call_listeners PROVE NotifierInv' /\ (Torn => Torn')
  OBVIOUS
<1>1. step' = "header"
      /\ UNCHANGED <<phase, opcode, name_length, counter_value, payload_length, name, payload>>
  BY DEF call_listeners, details
<1>2. BufferInv /\ DetailsInv /\ called \in Seq(Heard)
  BY DEF NotifierInv, CalledInv
<1>3. step' \in DetailSteps
      /\ (step' \in NoticeSteps => opcode' \in {event_triggered, counter_changed})
  BY <1>1 DEF DetailSteps, NoticeSteps
<1>4. PICK c \in Heard, s \in {"call_event_listeners", "call_counter_listeners"} :
        Processing(s, 0) /\ called' = Append(called, c)
  <2>1. name \in Seq(Byte) /\ payload \in Seq(Byte) /\ counter_value \in Nat
    BY <1>2, DetailsAre
  <2>2. [op |-> event_triggered, name |-> name, payload |-> payload] \in Heard
    BY <2>1 DEF Heard
  <2>3. [op |-> counter_changed, name |-> name, value |-> counter_value] \in Heard
    BY <2>1 DEF Heard
  <2> QED BY <2>2, <2>3 DEF call_listeners
<1>5. phase = "process" /\ 0 = Needed
  BY <1>4, NeededIs DEF Processing
<1>6. called' \in Seq(Heard)
  BY <1>2, <1>4
<1>7. DetailsInv'
  BY <1>1, <1>2, <1>3, <1>5, DetailsStep
<1> QED BY <1>1, <1>4, <1>5, <1>6, <1>7, StepTypes

\* The client waits only when it lacks bytes.
LEMMA ProcessedTypes == NotifierInv /\ processed_all => NotifierInv' /\ (Torn => Torn')
<1> SUFFICES ASSUME NotifierInv, processed_all PROVE NotifierInv' /\ (Torn => Torn')
  OBVIOUS
<1>1. /\ phase' = "recv" /\ ~(avaliable(buffer) >= Needed)
      /\ UNCHANGED <<buffer, peer, connected, stream, received, taken>>
      /\ UNCHANGED <<step, opcode, name_length, counter_value, payload_length, name, payload,
                     sent, written, torn, called>>
  BY DEF processed_all, can_process_input, bufferVars, details, outbox
<1>2. BufferInv /\ DetailsInv
  BY DEF NotifierInv
<1>3. BufferInv'
  BY <1>1, <1>2 DEF BufferInv
<1>4. DetailsInv'
  BY <1>1, <1>2, DetailsKept
<1>5. OutboxInv'
  BY <1>1 DEF NotifierInv, OutboxInv
<1>6. CalledInv'
  BY <1>1 DEF NotifierInv, CalledInv, Heard, event_triggered, counter_changed
<1>7. Starved'
  <2>1. PICK n : n = Needed
    OBVIOUS
  <2>2. PICK a : a = avaliable(buffer)
    OBVIOUS
  <2>3. n \in Nat /\ a \in Nat /\ ~(a >= n)
    BY <1>1, <1>2, <2>1, <2>2, NeededType, AvaliableType
  <2>4. a < n
    BY <2>3
  <2>5. Needed' = n /\ avaliable(buffer)' = a
    BY <1>1, <2>1, <2>2 DEF Needed, avaliable
  <2> QED BY <2>4, <2>5 DEF Starved
<1>8. Torn => Torn'
  BY <1>1 DEF Torn
<1> QED BY <1>3, <1>4, <1>5, <1>6, <1>7, <1>8 DEF NotifierInv

\* Every step keeps the types.
LEMMA NotifierNextInv ==
  NotifierInv /\ Torn /\ [NotifierNext]_notifierVars => NotifierInv' /\ Torn'
<1> SUFFICES ASSUME NotifierInv, Torn, [NotifierNext]_notifierVars PROVE NotifierInv' /\ Torn'
  OBVIOUS
<1>1. ASSUME NEW notice \in Notice, Notify(notice) PROVE NotifierInv' /\ Torn'
  BY <1>1, NotifyTypes
<1>2. CASE ServerLeaves \/ receive \/ disconnected
  BY <1>2, FillTypes
<1>3. CASE process_header \/ process_version
  BY <1>3, HeaderTypes, VersionTypes
<1>4. CASE process_name_length \/ process_counter_value \/ process_payload_length
  BY <1>4, NumbersTypes
<1>5. CASE process_name \/ process_payload
  BY <1>5, StringsTypes
<1>6. CASE call_listeners \/ processed_all
  BY <1>6, CallTypes, ProcessedTypes
<1>7. CASE UNCHANGED notifierVars
  <2>1. /\ UNCHANGED <<buffer, peer, connected, stream, received, taken>>
        /\ UNCHANGED <<phase, step, opcode, name_length, counter_value, payload_length, name,
                       payload, sent, written, torn, called>>
    BY <1>7 DEF notifierVars, bufferVars, details, outbox
  <2>2. BufferInv /\ DetailsInv /\ phase \in {"recv", "process", "thrown"}
    BY DEF NotifierInv, DetailsInv
  <2>3. BufferInv'
    BY <2>1, <2>2 DEF BufferInv
  <2>4. DetailsInv'
    BY <2>1, <2>2, DetailsKept
  <2>5. OutboxInv'
    BY <2>1 DEF NotifierInv, OutboxInv
  <2>6. CalledInv'
    BY <2>1 DEF NotifierInv, CalledInv, Heard, event_triggered, counter_changed
  <2>7. Needed' = Needed /\ avaliable(buffer)' = avaliable(buffer)
    BY <2>1 DEF Needed, avaliable
  <2>8. Starved'
    BY <2>1, <2>7 DEF NotifierInv, Starved
  <2>9. Torn'
    BY <2>1 DEF Torn
  <2> QED BY <2>3, <2>4, <2>5, <2>6, <2>8, <2>9 DEF NotifierInv
<1> QED BY <1>1, <1>2, <1>3, <1>4, <1>5, <1>6, <1>7 DEF NotifierNext

\* The invariant has the types.
LEMMA NotifierInvImplies == NotifierInv /\ Torn => NotifierTypeOK
<1> SUFFICES ASSUME NotifierInv, Torn PROVE NotifierTypeOK
  OBVIOUS
<1>1. BufferInv /\ DetailsInv /\ OutboxInv
  BY DEF NotifierInv
<1>2. stream \in Seq(Byte) /\ received \in 0..Len(stream) /\ taken \in 0..received
  BY <1>1 DEF BufferInv
<1>3. phase \in {"recv", "process", "thrown"}
  BY <1>1 DEF DetailsInv
<1>4. Len(stream) - received <= Room /\ sent \in Seq(Notice) /\ written \in Seq(Notice)
  BY <1>1 DEF OutboxInv
<1> QED BY <1>1, <1>2, <1>3, <1>4, DetailsAre
        DEF NotifierTypeOK, Torn, DetailSteps, NoticeSteps

\* Every variable of the connection's client end has its type, whatever the server
\* sends, the sockets take and recv returns: Client::Details and its InputBuffer.
THEOREM NotifierTypeCorrect == NotifierSpec => []NotifierTypeOK
<1>1. NotifierInit => NotifierInv /\ Torn
  BY NotifierStarts
<1>2. NotifierInv /\ Torn /\ [NotifierNext]_notifierVars => NotifierInv' /\ Torn'
  BY NotifierNextInv
<1>3. NotifierInv /\ Torn => NotifierTypeOK
  BY NotifierInvImplies
<1> QED BY <1>1, <1>2, <1>3, PTL DEF NotifierSpec

\* The bytes of an event, as the server sends it.
EventBytes(p, nm, pl) ==
  /\ p \in Seq(Octet)
  /\ Len(p) = 4 + Len(nm) + Len(pl)
  /\ p[1] = event_triggered /\ p[2] = Len(nm)
  /\ \A i \in 1..2 : p[2 + i] = BigEndian(Len(pl), 2)[i]
  /\ \A i \in 1..Len(nm) : p[4 + i] = nm[i]
  /\ \A i \in 1..Len(pl) : p[4 + Len(nm) + i] = pl[i]

\* What send_event builds.
LEMMA EventPacket ==
  ASSUME NEW n, n.op = event_triggered, NEW nm \in Seq(Octet), n.name = nm,
         NEW pl \in Seq(Octet), n.payload = pl, Len(nm) < 256
  PROVE  EventBytes(packet(n), nm, pl)
<1> DEFINE s == Start(event_triggered, nm)
           l == BigEndian(Len(pl), 2)
           h == s \o l
           g == h \o nm
           p == g \o pl
<1>1. packet(n) = p
  BY DEF packet, Start
<1>2. Len(nm) \in Nat /\ Len(pl) \in Nat /\ event_triggered \in Octet
  BY DEF event_triggered, Octet
<1>3. s \in Seq(Octet) /\ Len(s) = 2 /\ s[1] = event_triggered /\ s[2] = Len(nm)
  <2>1. Len(nm) % 256 = Len(nm)
    BY <1>2, Halves
  <2> QED BY <1>2, <2>1, StartOfPacket
<1>4. l \in Seq(Octet) /\ Len(l) = 2
  BY <1>2, BytesOfNumber
<1> HIDE DEF s, l
<1>5. /\ h \in Seq(Octet) /\ Len(h) = 4
      /\ \A i \in 1..2 : h[i] = s[i]
      /\ \A i \in 1..2 : h[2 + i] = l[i]
  <2>1. Joined(h, s, 2, l)
    BY <1>3, <1>4, AfterHeader
  <2> HIDE DEF h
  <2> QED BY <1>4, <2>1 DEF Joined
<1> HIDE DEF h
<1>6. /\ g \in Seq(Octet) /\ Len(g) = 4 + Len(nm)
      /\ \A i \in 1..4 : g[i] = h[i]
      /\ \A i \in 1..Len(nm) : g[4 + i] = nm[i]
  <2>1. Joined(g, h, 4, nm)
    BY <1>5, AfterHeader
  <2> HIDE DEF g
  <2> QED BY <2>1 DEF Joined
<1> HIDE DEF g
<1> DEFINE k == 4 + Len(nm)
<1>7. k \in Nat /\ Len(g) = k
  BY <1>2, <1>6
<1>8. /\ p \in Seq(Octet) /\ Len(p) = k + Len(pl)
      /\ \A i \in 1..k : p[i] = g[i]
      /\ \A i \in 1..Len(pl) : p[k + i] = pl[i]
  <2> HIDE DEF k
  <2>1. Joined(p, g, k, pl)
    BY <1>6, <1>7, AfterHeader
  <2> HIDE DEF p
  <2> QED BY <2>1 DEF Joined
<1> HIDE DEF p
<1>9. /\ p[1] = s[1] /\ p[2] = s[2]
      /\ \A i \in 1..2 : p[2 + i] = l[i]
      /\ \A i \in 1..Len(nm) : p[4 + i] = nm[i]
  <2>1. \A i \in 1..4 : p[i] = h[i]
    BY <1>2, <1>6, <1>8
  <2>2. \A i \in 1..Len(nm) : p[4 + i] = g[4 + i]
    BY <1>2, <1>8
  <2>3. \A i \in 1..2 : p[i] = s[i] /\ p[2 + i] = l[i]
    BY <1>5, <2>1
  <2> QED BY <1>6, <2>2, <2>3
<1> QED BY <1>1, <1>3, <1>8, <1>9 DEF EventBytes, l

\* The bytes of a counter's change.
CounterBytes(p, nm, vl) ==
  /\ p \in Seq(Octet)
  /\ Len(p) = 6 + Len(nm)
  /\ p[1] = counter_changed /\ p[2] = Len(nm)
  /\ \A i \in 1..4 : p[2 + i] = BigEndian(vl, 4)[i]
  /\ \A i \in 1..Len(nm) : p[6 + i] = nm[i]

\* What send_counter_event builds.
LEMMA CounterPacket ==
  ASSUME NEW n, n.op = counter_changed, NEW nm \in Seq(Octet), n.name = nm,
         NEW vl \in Nat, n.value = vl, Len(nm) < 256
  PROVE  CounterBytes(packet(n), nm, vl)
<1> DEFINE s == Start(counter_changed, nm)
           v == BigEndian(vl, 4)
           h == s \o v
           p == h \o nm
<1>1. packet(n) = p
  <2>1. n.op # event_triggered
    BY DEF event_triggered, counter_changed
  <2> QED BY <2>1 DEF packet, Start
<1>2. Len(nm) \in Nat /\ counter_changed \in Octet
  BY DEF counter_changed, Octet
<1>3. s \in Seq(Octet) /\ Len(s) = 2 /\ s[1] = counter_changed /\ s[2] = Len(nm)
  <2>1. Len(nm) % 256 = Len(nm)
    BY <1>2, Halves
  <2> QED BY <1>2, <2>1, StartOfPacket
<1>4. v \in Seq(Octet) /\ Len(v) = 4
  BY FourBytes
<1> HIDE DEF s, v
<1>5. /\ h \in Seq(Octet) /\ Len(h) = 6
      /\ \A i \in 1..2 : h[i] = s[i]
      /\ \A i \in 1..4 : h[2 + i] = v[i]
  <2>1. Joined(h, s, 2, v)
    BY <1>3, <1>4, AfterHeader
  <2> HIDE DEF h
  <2> QED BY <1>4, <2>1 DEF Joined
<1> HIDE DEF h
<1>6. /\ p \in Seq(Octet) /\ Len(p) = 6 + Len(nm)
      /\ \A i \in 1..6 : p[i] = h[i]
      /\ \A i \in 1..Len(nm) : p[6 + i] = nm[i]
  <2>1. Joined(p, h, 6, nm)
    BY <1>5, AfterHeader
  <2> HIDE DEF p
  <2> QED BY <2>1 DEF Joined
<1> HIDE DEF p
<1>7. p[1] = s[1] /\ p[2] = s[2] /\ \A i \in 1..4 : p[2 + i] = v[i]
  BY <1>5, <1>6
<1> QED BY <1>1, <1>3, <1>6, <1>7 DEF CounterBytes, v


\* What the server sends for an event, and for a counter's change.
EventNotice(n) ==
  /\ n = [op |-> event_triggered, name |-> n.name, payload |-> n.payload]
  /\ n.op = event_triggered /\ n.name \in Seq(Byte) /\ n.payload \in Seq(Byte)
  /\ Shifted(Len(n.payload), 1) < 256
  /\ EventBytes(packet(n), n.name, n.payload)

CounterNotice(n) ==
  /\ n = [op |-> counter_changed, name |-> n.name, value |-> n.value]
  /\ n.op = counter_changed /\ n.name \in Seq(Byte) /\ n.value \in Nat
  /\ Shifted(n.value, 3) < 256
  /\ CounterBytes(packet(n), n.name, n.value)

\* A string of bytes has octets.
LEMMA StringOctets == Seq(Byte) \subseteq Seq(Octet)
BY BytesAreOctets, SeqMonotonic

\* A notice is one of the two.
LEMMA NoticeIs == \A n \in Notice : EventNotice(n) \/ CounterNotice(n)
<1> SUFFICES ASSUME NEW n \in Notice PROVE EventNotice(n) \/ CounterNotice(n)
  OBVIOUS
<1>0. Len(n.name) < 256
  BY NoticesFit
<1>1. CASE /\ n \in [op : {event_triggered}, name : Seq(Byte), payload : Seq(Byte)]
           /\ Shifted(Len(n.payload), 1) < 256
  <2>1. /\ n = [op |-> event_triggered, name |-> n.name, payload |-> n.payload]
        /\ n.op = event_triggered /\ n.name \in Seq(Byte) /\ n.payload \in Seq(Byte)
    BY <1>1
  <2>2. n.name \in Seq(Octet) /\ n.payload \in Seq(Octet)
    BY <2>1, StringOctets
  <2>3. EventBytes(packet(n), n.name, n.payload)
    BY <1>0, <2>1, <2>2, EventPacket
  <2> QED BY <1>1, <2>1, <2>3 DEF EventNotice
<1>2. CASE /\ n \in [op : {counter_changed}, name : Seq(Byte), value : Nat]
           /\ Shifted(n.value, 3) < 256
  <2>1. /\ n = [op |-> counter_changed, name |-> n.name, value |-> n.value]
        /\ n.op = counter_changed /\ n.name \in Seq(Byte) /\ n.value \in Nat
    BY <1>2
  <2>2. n.name \in Seq(Octet)
    BY <2>1, StringOctets
  <2>3. CounterBytes(packet(n), n.name, n.value)
    BY <1>0, <2>1, <2>2, CounterPacket
  <2> QED BY <1>2, <2>1, <2>3 DEF CounterNotice
<1> QED BY <1>1, <1>2, NoticesFit

\* What the server writes of a notice, field by field.
LEMMA OpTells ==
  ASSUME NEW n \in Notice
  PROVE  /\ n.op \in {event_triggered, counter_changed}
         /\ n.op = event_triggered => EventNotice(n)
         /\ n.op = counter_changed => CounterNotice(n)
         /\ n.name \in Seq(Byte) /\ Len(n.name) \in Nat
         /\ packet(n)[1] = n.op /\ packet(n)[2] = Len(n.name)
         /\ packet(n) \in Seq(Byte) /\ Len(packet(n)) \in Nat /\ Len(packet(n)) >= 4
<1>1. packet(n) \in Seq(Byte)
  BY NoticesFit
<1>2. EventNotice(n) => /\ n.op = event_triggered /\ n.name \in Seq(Byte)
                        /\ packet(n)[1] = n.op /\ packet(n)[2] = Len(n.name)
                        /\ Len(packet(n)) >= 4
  BY DEF EventNotice, EventBytes
<1>3. CounterNotice(n) => /\ n.op = counter_changed /\ n.name \in Seq(Byte)
                          /\ packet(n)[1] = n.op /\ packet(n)[2] = Len(n.name)
                          /\ Len(packet(n)) >= 4
  BY DEF CounterNotice, CounterBytes
<1>4. event_triggered # counter_changed
  BY DEF event_triggered, counter_changed
<1> QED BY <1>1, <1>2, <1>3, <1>4, NoticeIs
-----------------------------------------------------------------------------
(***************************************************************************)
(* The order of notices.  B gives where each packet of the stream ends,    *)
(* until one is cut short: the notices called are the first of those       *)
(* written, and the step, the fields read and the place in the stream are  *)
(* those of the packet after them.                                         *)
(***************************************************************************)
Frames(B) ==
  /\ B \in [0..Len(written) -> 2..Len(stream)]
  /\ B[0] = 2 /\ B[Len(written)] = Len(stream)
  /\ stream[1] = version /\ stream[2] = protocol_version
  /\ \A i \in 0..Len(written) - 1 :
       /\ B[i + 1] = B[i] + Len(packet(written[i + 1]))
       /\ \A j \in 1..Len(packet(written[i + 1])) :
            stream[B[i] + j] = packet(written[i + 1])[j]

CalledFirst ==
  Len(called) <= Len(written) /\ \A i \in 1..Len(called) : called[i] = written[i]

Upcoming == written[Len(called) + 1]

Within(B, o) == Len(called) < Len(written) /\ taken = B[Len(called)] + o

NameKnown == opcode = Upcoming.op /\ name_length = Len(Upcoming.name)

Reached(B) ==
  /\ step = "header" => (taken = B[Len(called)] \/ (taken = 0 /\ Len(called) = 0))
  /\ step = "protocol_version" => taken = 1 /\ Len(called) = 0
  /\ step = "name_length" => Within(B, 1) /\ opcode = Upcoming.op
  /\ step = "counter_value" => Within(B, 2) /\ NameKnown /\ Upcoming.op = counter_changed
  /\ step = "payload_length" => Within(B, 2) /\ NameKnown /\ Upcoming.op = event_triggered
  /\ step = "name" =>
       /\ NameKnown
       /\ \/ /\ Upcoming.op = event_triggered /\ Within(B, 4)
             /\ payload_length = Len(Upcoming.payload)
          \/ /\ Upcoming.op = counter_changed /\ Within(B, 6)
             /\ counter_value = Upcoming.value
  /\ step = "payload" =>
       /\ Upcoming.op = event_triggered /\ Within(B, 4 + Len(Upcoming.name))
       /\ payload_length = Len(Upcoming.payload) /\ name = Upcoming.name
  /\ step = "call_event_listeners" =>
       /\ Upcoming = [op |-> event_triggered, name |-> name, payload |-> payload]
       /\ Within(B, Len(packet(Upcoming)))
  /\ step = "call_counter_listeners" =>
       /\ Upcoming = [op |-> counter_changed, name |-> name, value |-> counter_value]
       /\ Within(B, Len(packet(Upcoming)))

Following(B) == Frames(B) /\ CalledFirst /\ Reached(B) /\ (phase = "thrown" => ~connected)

NoticesInv == torn \/ \E B : Following(B)

\* Inside the next packet there is a next notice.
LEMMA UpcomingIs ==
  ASSUME NotifierInv, NEW B, Frames(B), CalledFirst, Len(called) < Len(written)
  PROVE  /\ Upcoming \in Notice /\ Len(called) \in 0..Len(written) - 1
         /\ Len(called) \in Nat /\ Len(written) \in Nat /\ Len(stream) \in Nat
         /\ B[Len(called)] \in Nat
         /\ B[Len(called) + 1] = B[Len(called)] + Len(packet(Upcoming))
         /\ B[Len(called)] + Len(packet(Upcoming)) <= Len(stream)
         /\ \A j \in 1..Len(packet(Upcoming)) :
              stream[B[Len(called)] + j] = packet(Upcoming)[j]
<1>1. written \in Seq(Notice) /\ called \in Seq(Heard) /\ stream \in Seq(Byte)
  BY DEF NotifierInv, OutboxInv, CalledInv, BufferInv
<1> DEFINE k == Len(called)
           m == Len(written)
           z == Len(stream)
<1>2. k \in Nat /\ m \in Nat /\ z \in Nat /\ k < m
  BY <1>1
<1>3. written[k + 1] \in Notice
  <2>1. k + 1 \in 1..m
    BY <1>2
  <2> HIDE DEF k
  <2> QED BY <1>1, <2>1
<1>4. B \in [0..m -> 2..z] /\ \A i \in 0..m - 1 :
        /\ B[i + 1] = B[i] + Len(packet(written[i + 1]))
        /\ \A j \in 1..Len(packet(written[i + 1])) : stream[B[i] + j] = packet(written[i + 1])[j]
  BY DEF Frames
<1>5. Upcoming = written[k + 1]
  BY DEF Upcoming
<1> HIDE DEF k, m, z
<1>6. k \in 0..m - 1 /\ k \in 0..m /\ k + 1 \in 0..m
  BY <1>2
<1>7. B[k] \in 2..z /\ B[k + 1] \in 2..z
  BY <1>4, <1>6
<1>8. /\ B[k + 1] = B[k] + Len(packet(Upcoming))
      /\ \A j \in 1..Len(packet(Upcoming)) : stream[B[k] + j] = packet(Upcoming)[j]
  BY <1>4, <1>5, <1>6
<1>9. B[k] \in Nat /\ B[k + 1] <= z
  BY <1>2, <1>7
<1> QED BY <1>2, <1>3, <1>5, <1>6, <1>8, <1>9 DEF k, m, z

\* A step reads what the server wrote there, and goes on behind it.
LEMMA NoticeMoves ==
  ASSUME NotifierInv, NEW B, Frames(B), CalledFirst, NEW s, NEW n \in Nat,
         Processing(s, n), n = Needed, called' = called
  PROVE  /\ step = s /\ phase = "process" /\ connected' = connected
         /\ taken \in Nat /\ taken' = taken + n /\ taken + n <= Len(stream)
         /\ Len(stream) \in Nat
         /\ written' = written /\ torn' = torn /\ stream' = stream
         /\ Frames(B)' /\ CalledFirst' /\ Upcoming' = Upcoming
         /\ Read(n) \in Seq(Byte) /\ Len(Read(n)) = n
         /\ \A i \in 1..n : Read(n)[i] = stream[taken + i]
         /\ \A o \in Nat : Within(B, o) => Within(B, o + n)'
         /\ \A o \in Nat : Within(B, o) /\ o + n <= Len(packet(Upcoming))
              => \A i \in 1..n : Read(n)[i] = packet(Upcoming)[o + i]
<1>1. /\ step = s /\ phase = "process" /\ connected' = connected
      /\ taken \in Nat /\ taken' = taken + n /\ taken + n <= Len(stream) /\ Len(stream) \in Nat
      /\ written' = written /\ torn' = torn /\ stream' = stream
      /\ Read(n) \in Seq(Byte) /\ Len(Read(n)) = n
      /\ \A i \in 1..n : Read(n)[i] = stream[taken + i]
  BY ProcessingGets DEF NotifierInv, Get
<1>2. Frames(B)' /\ CalledFirst' /\ Upcoming' = Upcoming
  <2>1. Frames(B)'
    BY <1>1 DEF Frames, version, protocol_version
  <2>2. CalledFirst' /\ Upcoming' = Upcoming
    BY <1>1 DEF CalledFirst, Upcoming
  <2> QED BY <2>1, <2>2
<1>3. ASSUME NEW o \in Nat, Within(B, o)
      PROVE  /\ Within(B, o + n)'
             /\ o + n <= Len(packet(Upcoming))
                  => \A i \in 1..n : Read(n)[i] = packet(Upcoming)[o + i]
  <2> DEFINE b == B[Len(called)]
             l == Len(packet(Upcoming))
  <2>1. Len(called) < Len(written) /\ taken = b + o
    BY <1>3 DEF Within
  <2>2. /\ b \in Nat /\ Upcoming \in Notice
        /\ \A j \in 1..l : stream[b + j] = packet(Upcoming)[j]
    BY <2>1, UpcomingIs
  <2>3. l \in Nat
    BY <2>2, OpTells
  <2>4. Within(B, o + n)'
    <3>1. taken' = b + (o + n)
      <4> HIDE DEF b
      <4> QED BY <1>1, <2>1, <2>2
    <3> QED BY <1>1, <2>1, <3>1 DEF Within
  <2>5. ASSUME o + n <= l, NEW i \in 1..n PROVE Read(n)[i] = packet(Upcoming)[o + i]
    <3> HIDE DEF b, l
    <3>1. o + i \in 1..l /\ taken + i = b + (o + i)
      BY <2>1, <2>2, <2>3, <2>5
    <3>2. Read(n)[i] = stream[taken + i]
      BY <1>1
    <3> QED BY <2>2, <3>1, <3>2
  <2> QED BY <2>4, <2>5
<1> QED BY <1>1, <1>2, <1>3

\* The header of the version, or that of the next packet.
LEMMA HeaderFollows ==
  ASSUME NotifierInv, NEW B, Following(B), process_header
  PROVE  Following(B)'
<1> DEFINE b == Read(1)[1]
           o == b % 16
<1>1. /\ Processing("header", 1) /\ opcode' = o
      /\ step' = CASE o = version -> "protocol_version"
                   [] o \in {event_triggered, counter_changed} -> "name_length"
                   [] OTHER -> "header"
      /\ phase' = phase /\ called' = called
  BY DEF process_header
<1>2. 1 = Needed
  BY <1>1, NeededIs DEF Processing
<1>3. Frames(B) /\ CalledFirst /\ Reached(B)
  BY DEF Following
<1>4. /\ step = "header" /\ phase = "process"
      /\ taken \in Nat /\ taken' = taken + 1 /\ taken + 1 <= Len(stream) /\ Len(stream) \in Nat
      /\ Frames(B)' /\ CalledFirst' /\ Upcoming' = Upcoming
      /\ \A i \in 1..1 : Read(1)[i] = stream[taken + i]
      /\ \A i \in Nat : Within(B, i) => Within(B, i + 1)'
      /\ \A i \in Nat : Within(B, i) /\ i + 1 <= Len(packet(Upcoming))
           => \A j \in 1..1 : Read(1)[j] = packet(Upcoming)[i + j]
  BY <1>1, <1>2, <1>3, NoticeMoves
<1>5. b = stream[taken + 1]
  BY <1>4
<1>6. taken = B[Len(called)] \/ (taken = 0 /\ Len(called) = 0)
  BY <1>3, <1>4 DEF Reached
<1>7. CASE taken = B[Len(called)]
  <2>1. Len(called) < Len(written)
    <3> DEFINE k == Len(called)
               m == Len(written)
    <3>1. k \in Nat /\ m \in Nat /\ k <= m
      BY <1>3 DEF CalledFirst, NotifierInv, CalledInv, OutboxInv
    <3>2. B[m] = Len(stream) /\ taken = B[k]
      BY <1>3, <1>7 DEF Frames
    <3> HIDE DEF k, m
    <3>3. k # m
      BY <1>4, <3>2
    <3>4. k < m
      BY <3>1, <3>3
    <3> QED BY <3>4 DEF k, m
  <2>2. Upcoming \in Notice /\ B[Len(called)] \in Nat
    BY <1>3, <2>1, UpcomingIs
  <2>3. Within(B, 0)
    BY <1>7, <2>1, <2>2 DEF Within
  <2>4. /\ Upcoming.op \in {event_triggered, counter_changed}
        /\ packet(Upcoming)[1] = Upcoming.op /\ 0 + 1 <= Len(packet(Upcoming))
    <3>1. Len(packet(Upcoming)) \in Nat /\ Len(packet(Upcoming)) >= 4
      BY <2>2, OpTells
    <3> QED BY <2>2, <3>1, OpTells
  <2>5. b = Upcoming.op
    <3>1. b = packet(Upcoming)[0 + 1]
      BY <1>4, <2>3, <2>4
    <3> QED BY <2>4, <3>1
  <2> HIDE DEF b
  <2>6. o = Upcoming.op
    BY <2>4, <2>5 DEF event_triggered, counter_changed
  <2> HIDE DEF o
  <2>7. step' = "name_length"
    BY <1>1, <2>4, <2>6 DEF version, event_triggered, counter_changed
  <2>8. Within(B, 1)'
    <3>1. Within(B, 0 + 1)'
      BY <1>4, <2>3
    <3> QED BY <3>1
  <2>9. Reached(B)'
    BY <1>1, <1>4, <2>6, <2>7, <2>8 DEF Reached
  <2> QED BY <1>1, <1>4, <2>9 DEF Following
<1>8. CASE taken = 0 /\ Len(called) = 0
  <2>1. b = 0
    BY <1>3, <1>5, <1>8 DEF Frames, version
  <2> HIDE DEF b
  <2>2. o = 0
    BY <2>1
  <2> HIDE DEF o
  <2>3. step' = "protocol_version"
    BY <1>1, <2>2 DEF version, event_triggered, counter_changed
  <2>4. taken' = 1 /\ Len(called') = 0
    BY <1>1, <1>4, <1>8
  <2>5. Reached(B)'
    BY <2>3, <2>4 DEF Reached
  <2> QED BY <1>1, <1>4, <2>5 DEF Following
<1> QED BY <1>6, <1>7, <1>8

\* The version is the one that the client supports.
LEMMA VersionFollows ==
  ASSUME NotifierInv, NEW B, Following(B), process_version
  PROVE  Following(B)'
<1>1. /\ Processing("protocol_version", 1) /\ called' = called
      /\ IF Read(1)[1] = protocol_version
         THEN step' = "header" /\ phase' = phase
         ELSE phase' = "thrown" /\ step' = step
  BY DEF process_version
<1>2. 1 = Needed
  BY <1>1, NeededIs DEF Processing
<1>3. Frames(B) /\ CalledFirst /\ Reached(B)
  BY DEF Following
<1>4. /\ step = "protocol_version" /\ phase = "process"
      /\ taken \in Nat /\ taken' = taken + 1 /\ Frames(B)' /\ CalledFirst'
      /\ \A i \in 1..1 : Read(1)[i] = stream[taken + i]
  BY <1>1, <1>2, <1>3, NoticeMoves
<1>5. taken = 1 /\ Len(called) = 0
  BY <1>3, <1>4 DEF Reached
<1>6. Read(1)[1] = protocol_version
  <2>1. Read(1)[1] = stream[1 + 1]
    BY <1>4, <1>5
  <2> QED BY <1>3, <2>1 DEF Frames
<1>7. step' = "header" /\ phase' = "process"
  BY <1>1, <1>4, <1>6
<1>8. taken' = B[Len(called')]
  BY <1>1, <1>3, <1>4, <1>5 DEF Frames
<1>9. Reached(B)'
  BY <1>7, <1>8 DEF Reached
<1> QED BY <1>4, <1>7, <1>9 DEF Following

\* The length of the name.
LEMMA NameLengthFollows ==
  ASSUME NotifierInv, NEW B, Following(B), process_name_length
  PROVE  Following(B)'
<1> DEFINE b == Read(1)[1]
<1>1. /\ Processing("name_length", 1) /\ name_length' = b /\ opcode' = opcode
      /\ step' = IF opcode = event_triggered THEN "payload_length" ELSE "counter_value"
      /\ phase' = phase /\ called' = called
  BY DEF process_name_length
<1>2. 1 = Needed
  BY <1>1, NeededIs DEF Processing
<1>3. Frames(B) /\ CalledFirst /\ Reached(B)
  BY DEF Following
<1>4. /\ step = "name_length" /\ phase = "process" /\ Frames(B)' /\ CalledFirst'
      /\ Upcoming' = Upcoming
      /\ \A i \in Nat : Within(B, i) => Within(B, i + 1)'
      /\ \A i \in Nat : Within(B, i) /\ i + 1 <= Len(packet(Upcoming))
           => \A j \in 1..1 : Read(1)[j] = packet(Upcoming)[i + j]
  BY <1>1, <1>2, <1>3, NoticeMoves
<1>5. Within(B, 1) /\ opcode = Upcoming.op
  BY <1>3, <1>4 DEF Reached
<1>6. Upcoming \in Notice
  BY <1>3, <1>5, UpcomingIs DEF Within
<1>7. /\ Upcoming.op \in {event_triggered, counter_changed}
      /\ packet(Upcoming)[2] = Len(Upcoming.name) /\ 1 + 1 <= Len(packet(Upcoming))
  <2>1. Len(packet(Upcoming)) \in Nat /\ Len(packet(Upcoming)) >= 4
    BY <1>6, OpTells
  <2> QED BY <1>6, <2>1, OpTells
<1>8. b = Len(Upcoming.name)
  <2>1. b = packet(Upcoming)[1 + 1]
    BY <1>4, <1>5, <1>7
  <2> QED BY <1>7, <2>1
<1> HIDE DEF b
<1>9. Within(B, 2)'
  <2>1. Within(B, 1 + 1)'
    BY <1>4, <1>5
  <2> QED BY <2>1
<1>10. NameKnown'
  BY <1>1, <1>4, <1>5, <1>8 DEF NameKnown
<1>11. \/ step' = "payload_length" /\ Upcoming.op = event_triggered
       \/ step' = "counter_value" /\ Upcoming.op = counter_changed
  BY <1>1, <1>5, <1>7 DEF event_triggered, counter_changed
<1>12. Reached(B)'
  BY <1>4, <1>9, <1>10, <1>11 DEF Reached, event_triggered, counter_changed
<1> QED BY <1>1, <1>4, <1>12 DEF Following

\* The value of a counter.
LEMMA ValueFollows ==
  ASSUME NotifierInv, NEW B, Following(B), process_counter_value
  PROVE  Following(B)'
<1> DEFINE b == Read(4)
<1>0. PICK n \in Nat : n = 4
  OBVIOUS
<1>1. /\ Processing("counter_value", 4) /\ counter_value' = Number(b) /\ step' = "name"
      /\ opcode' = opcode /\ name_length' = name_length
      /\ phase' = phase /\ called' = called
  BY DEF process_counter_value
<1>2. 4 = Needed
  BY <1>1, NeededIs DEF Processing
<1>3. Frames(B) /\ CalledFirst /\ Reached(B)
  BY DEF Following
<1>4. /\ step = "counter_value" /\ phase = "process" /\ Frames(B)' /\ CalledFirst'
      /\ Upcoming' = Upcoming
      /\ b \in Seq(Byte) /\ Len(b) = 4
      /\ \A i \in Nat : Within(B, i) => Within(B, i + 4)'
      /\ \A i \in Nat : Within(B, i) /\ i + 4 <= Len(packet(Upcoming))
           => \A j \in 1..4 : b[j] = packet(Upcoming)[i + j]
  <2>1. Processing("counter_value", n) /\ n = Needed /\ b = Read(n)
    BY <1>0, <1>1, <1>2
  <2> HIDE DEF b
  <2>2. /\ step = "counter_value" /\ phase = "process" /\ Frames(B)' /\ CalledFirst'
        /\ Upcoming' = Upcoming
        /\ b \in Seq(Byte) /\ Len(b) = n
        /\ \A i \in Nat : Within(B, i) => Within(B, i + n)'
        /\ \A i \in Nat : Within(B, i) /\ i + n <= Len(packet(Upcoming))
             => \A j \in 1..n : b[j] = packet(Upcoming)[i + j]
    BY <1>1, <1>3, <2>1, NoticeMoves
  <2> QED BY <1>0, <2>2
<1> HIDE DEF b
<1>5. Within(B, 2) /\ NameKnown /\ Upcoming.op = counter_changed
  BY <1>3, <1>4 DEF Reached
<1>6. CounterNotice(Upcoming)
  BY <1>3, <1>5, UpcomingIs, OpTells DEF Within
<1>7. /\ Upcoming.value \in Nat /\ Shifted(Upcoming.value, 3) < 256
      /\ Len(packet(Upcoming)) = 6 + Len(Upcoming.name) /\ Len(Upcoming.name) \in Nat
      /\ \A i \in 1..4 : packet(Upcoming)[2 + i] = BigEndian(Upcoming.value, 4)[i]
  BY <1>6 DEF CounterNotice, CounterBytes
<1>8. \A i \in 1..4 : b[i] = packet(Upcoming)[2 + i]
  <2>1. 2 + 4 <= Len(packet(Upcoming))
    BY <1>7
  <2> QED BY <1>4, <1>5, <2>1
<1>9. Number(b) = Upcoming.value
  <2>1. b \in Seq(Octet)
    BY <1>4, StringOctets
  <2>2. \A i \in 1..4 : b[i] = BigEndian(Upcoming.value, 4)[i]
    BY <1>7, <1>8
  <2> QED BY <1>4, <1>7, <2>1, <2>2, ValueArrives
<1>10. Within(B, 6)'
  <2>1. Within(B, 2 + 4)'
    BY <1>4, <1>5
  <2> QED BY <2>1
<1>11. NameKnown'
  BY <1>1, <1>4, <1>5 DEF NameKnown
<1>12. counter_value' = Upcoming.value
  BY <1>1, <1>9
<1>13. Reached(B)'
  BY <1>1, <1>4, <1>5, <1>10, <1>11, <1>12 DEF Reached, event_triggered, counter_changed
<1> QED BY <1>1, <1>4, <1>13 DEF Following

\* The length of the payload.
LEMMA PayloadLengthFollows ==
  ASSUME NotifierInv, NEW B, Following(B), process_payload_length
  PROVE  Following(B)'
<1> DEFINE b == Read(2)
<1>0. PICK n \in Nat : n = 2
  OBVIOUS
<1>1. /\ Processing("payload_length", 2) /\ payload_length' = Number(b) /\ step' = "name"
      /\ opcode' = opcode /\ name_length' = name_length
      /\ phase' = phase /\ called' = called
  BY DEF process_payload_length
<1>2. 2 = Needed
  BY <1>1, NeededIs DEF Processing
<1>3. Frames(B) /\ CalledFirst /\ Reached(B)
  BY DEF Following
<1>4. /\ step = "payload_length" /\ phase = "process" /\ Frames(B)' /\ CalledFirst'
      /\ Upcoming' = Upcoming
      /\ b \in Seq(Byte) /\ Len(b) = 2
      /\ \A i \in Nat : Within(B, i) => Within(B, i + 2)'
      /\ \A i \in Nat : Within(B, i) /\ i + 2 <= Len(packet(Upcoming))
           => \A j \in 1..2 : b[j] = packet(Upcoming)[i + j]
  <2>1. Processing("payload_length", n) /\ n = Needed /\ b = Read(n)
    BY <1>0, <1>1, <1>2
  <2> HIDE DEF b
  <2>2. /\ step = "payload_length" /\ phase = "process" /\ Frames(B)' /\ CalledFirst'
        /\ Upcoming' = Upcoming
        /\ b \in Seq(Byte) /\ Len(b) = n
        /\ \A i \in Nat : Within(B, i) => Within(B, i + n)'
        /\ \A i \in Nat : Within(B, i) /\ i + n <= Len(packet(Upcoming))
             => \A j \in 1..n : b[j] = packet(Upcoming)[i + j]
    BY <1>1, <1>3, <2>1, NoticeMoves
  <2> QED BY <1>0, <2>2
<1> HIDE DEF b
<1>5. Within(B, 2) /\ NameKnown /\ Upcoming.op = event_triggered
  BY <1>3, <1>4 DEF Reached
<1>6. Upcoming \in Notice
  BY <1>3, <1>5, UpcomingIs DEF Within
<1>7. EventNotice(Upcoming)
  BY <1>5, <1>6, OpTells
<1> DEFINE v == Len(Upcoming.payload)
<1>8. /\ v \in Nat /\ Shifted(v, 1) < 256
      /\ \A i \in 1..2 : packet(Upcoming)[2 + i] = BigEndian(v, 2)[i]
  BY <1>7 DEF EventNotice, EventBytes
<1> HIDE DEF v
<1>9. \A i \in 1..2 : b[i] = packet(Upcoming)[2 + i]
  <2>1. 2 + 2 <= Len(packet(Upcoming))
    <3>1. Len(packet(Upcoming)) \in Nat /\ Len(packet(Upcoming)) >= 4
      BY <1>6, OpTells
    <3> QED BY <3>1
  <2> QED BY <1>4, <1>5, <2>1
<1>10. Number(b) = v
  <2>1. b \in Seq(Octet)
    BY <1>4, StringOctets
  <2>2. \A i \in 1..2 : b[i] = BigEndian(v, 2)[i]
    BY <1>8, <1>9
  <2> QED BY <1>4, <1>8, <2>1, <2>2, LengthArrives
<1>11. Within(B, 4)'
  <2>1. Within(B, 2 + 2)'
    BY <1>4, <1>5
  <2> QED BY <2>1
<1>12. NameKnown'
  BY <1>1, <1>4, <1>5 DEF NameKnown
<1>13. payload_length' = Len(Upcoming.payload)
  BY <1>1, <1>10 DEF v
<1>14. Reached(B)'
  BY <1>1, <1>4, <1>5, <1>11, <1>12, <1>13 DEF Reached, event_triggered, counter_changed
<1> QED BY <1>1, <1>4, <1>14 DEF Following

\* The name, behind the lengths of an event or the value of a counter.
LEMMA NameFollows ==
  ASSUME NotifierInv, NEW B, Following(B), process_name
  PROVE  Following(B)'
<1> DEFINE b == Read(name_length)
<1>0. PICK u : u = Upcoming
  OBVIOUS
<1>1. /\ Processing("name", name_length) /\ name' = b /\ opcode' = opcode
      /\ step' = IF opcode = event_triggered THEN "payload" ELSE "call_counter_listeners"
      /\ payload_length' = payload_length /\ counter_value' = counter_value
      /\ phase' = phase /\ called' = called
  BY DEF process_name
<1>2. step = "name" /\ name_length = Needed
  BY <1>1, NeededIs DEF Processing
<1>3. Frames(B) /\ CalledFirst /\ Reached(B)
  BY DEF Following
<1>4. /\ opcode = u.op /\ name_length = Len(u.name)
      /\ \/ u.op = event_triggered /\ Within(B, 4) /\ payload_length = Len(u.payload)
         \/ u.op = counter_changed /\ Within(B, 6) /\ counter_value = u.value
  BY <1>0, <1>2, <1>3 DEF Reached, NameKnown
<1>5. u \in Notice
  BY <1>0, <1>3, <1>4, UpcomingIs DEF Within
<1> DEFINE n == Len(u.name)
<1>6. n \in Nat /\ n = name_length /\ u.name \in Seq(Byte)
  BY <1>4, <1>5, OpTells
<1>7. /\ phase = "process" /\ Frames(B)' /\ CalledFirst' /\ Upcoming' = u
      /\ b \in Seq(Byte) /\ Len(b) = n
      /\ \A i \in Nat : Within(B, i) => Within(B, i + n)'
      /\ \A i \in Nat : Within(B, i) /\ i + n <= Len(packet(u))
           => \A j \in 1..n : b[j] = packet(u)[i + j]
  BY <1>0, <1>1, <1>2, <1>3, <1>6, NoticeMoves
<1> HIDE DEF b
<1>8. CASE u.op = event_triggered
  <2>1. Within(B, 4) /\ payload_length = Len(u.payload)
    BY <1>4, <1>8 DEF event_triggered, counter_changed
  <2>2. EventNotice(u)
    BY <1>5, <1>8, OpTells
  <2>3. /\ Len(packet(u)) = 4 + n + Len(u.payload) /\ Len(u.payload) \in Nat
        /\ \A i \in 1..n : packet(u)[4 + i] = u.name[i]
    BY <2>2 DEF EventNotice, EventBytes
  <2>4. b = u.name
    <3>1. 4 + n <= Len(packet(u))
      BY <1>6, <2>3
    <3>2. \A i \in 1..n : b[i] = u.name[i]
      BY <1>7, <2>1, <2>3, <3>1
    <3> QED BY <1>6, <1>7, <3>2, SeqEqual
  <2>5. step' = "payload"
    BY <1>1, <1>4, <1>8
  <2>6. Within(B, 4 + n)'
    BY <1>7, <2>1
  <2>7. PICK m : m = 4 + n
    OBVIOUS
  <2>8. Within(B, m)' /\ m = 4 + Len(u.name)
    BY <2>6, <2>7
  <2>9. Within(B, 4 + Len(Upcoming.name))'
    <3>1. Len(called') < Len(written') /\ taken' = B[Len(called')] + m
      BY <2>8 DEF Within
    <3> QED BY <1>7, <2>8, <3>1 DEF Within
  <2>10. payload_length' = Len(u.payload) /\ name' = u.name
    BY <1>1, <2>1, <2>4
  <2>11. Reached(B)'
    BY <1>7, <1>8, <2>5, <2>9, <2>10 DEF Reached, event_triggered
  <2> QED BY <1>1, <1>7, <2>11 DEF Following
<1>9. CASE u.op = counter_changed
  <2>1. Within(B, 6) /\ counter_value = u.value
    BY <1>4, <1>9 DEF event_triggered, counter_changed
  <2>2. CounterNotice(u)
    BY <1>5, <1>9, OpTells
  <2>3. /\ Len(packet(u)) = 6 + n
        /\ \A i \in 1..n : packet(u)[6 + i] = u.name[i]
    BY <2>2 DEF CounterNotice, CounterBytes
  <2>4. b = u.name
    <3>1. 6 + n <= Len(packet(u))
      BY <1>6, <2>3
    <3>2. \A i \in 1..n : b[i] = u.name[i]
      BY <1>7, <2>1, <2>3, <3>1
    <3> QED BY <1>6, <1>7, <3>2, SeqEqual
  <2>5. step' = "call_counter_listeners"
    BY <1>1, <1>4, <1>9 DEF event_triggered, counter_changed
  <2>6. Within(B, 6 + n)'
    BY <1>7, <2>1
  <2>7. PICK m : m = 6 + n
    OBVIOUS
  <2>8. Within(B, m)' /\ m = Len(packet(u))
    BY <2>3, <2>6, <2>7
  <2>9. Within(B, Len(packet(Upcoming)))'
    <3>1. Len(called') < Len(written') /\ taken' = B[Len(called')] + m
      BY <2>8 DEF Within
    <3> QED BY <1>7, <2>8, <3>1 DEF Within
  <2>10. u = [op |-> counter_changed, name |-> name', value |-> counter_value']
    BY <1>1, <2>1, <2>2, <2>4 DEF CounterNotice
  <2>11. Upcoming' = [op |-> counter_changed, name |-> name', value |-> counter_value']
    BY <1>7, <2>10
  <2>12. Reached(B)'
    BY <2>5, <2>9, <2>11 DEF Reached, counter_changed
  <2> QED BY <1>1, <1>7, <2>12 DEF Following
<1> QED BY <1>4, <1>8, <1>9

\* The payload, behind the name.
LEMMA PayloadFollows ==
  ASSUME NotifierInv, NEW B, Following(B), process_payload
  PROVE  Following(B)'
<1> DEFINE b == Read(payload_length)
<1>0. PICK u : u = Upcoming
  OBVIOUS
<1>1. /\ Processing("payload", payload_length) /\ payload' = b /\ step' = "call_event_listeners"
      /\ name' = name /\ phase' = phase /\ called' = called
  BY DEF process_payload
<1>2. step = "payload" /\ payload_length = Needed
  BY <1>1, NeededIs DEF Processing
<1>3. Frames(B) /\ CalledFirst /\ Reached(B)
  BY DEF Following
<1>4. /\ u.op = event_triggered /\ Within(B, 4 + Len(u.name))
      /\ payload_length = Len(u.payload) /\ name = u.name
  BY <1>0, <1>2, <1>3 DEF Reached
<1>5. u \in Notice
  BY <1>0, <1>3, <1>4, UpcomingIs DEF Within
<1>6. EventNotice(u)
  BY <1>4, <1>5, OpTells
<1> DEFINE n == Len(u.payload)
           k == Len(u.name)
           o == 4 + k
<1>7. /\ n \in Nat /\ n = payload_length /\ u.payload \in Seq(Byte) /\ k \in Nat
      /\ Len(packet(u)) = 4 + k + n
      /\ \A i \in 1..n : packet(u)[4 + k + i] = u.payload[i]
  BY <1>4, <1>6 DEF EventNotice, EventBytes
<1>8. o \in Nat /\ Len(packet(u)) = o + n /\ Within(B, o)
      /\ \A i \in 1..n : packet(u)[o + i] = u.payload[i]
  <2>1. Within(B, o)
    BY <1>4
  <2> HIDE DEF k
  <2>2. o \in Nat /\ Len(packet(u)) = o + n
    BY <1>7
  <2>3. \A i \in 1..n : packet(u)[o + i] = u.payload[i]
    BY <1>7
  <2> QED BY <2>1, <2>2, <2>3
<1>9. /\ phase = "process" /\ Frames(B)' /\ CalledFirst' /\ Upcoming' = u
      /\ b \in Seq(Byte) /\ Len(b) = n
      /\ \A i \in Nat : Within(B, i) => Within(B, i + n)'
      /\ \A i \in Nat : Within(B, i) /\ i + n <= Len(packet(u))
           => \A j \in 1..n : b[j] = packet(u)[i + j]
  BY <1>0, <1>1, <1>2, <1>3, <1>7, NoticeMoves
<1> HIDE DEF b, o, k
<1>10. b = u.payload
  <2>1. o + n <= Len(packet(u))
    BY <1>7, <1>8
  <2>2. \A i \in 1..n : b[i] = u.payload[i]
    BY <1>8, <1>9, <2>1
  <2> QED BY <1>7, <1>9, <2>2, SeqEqual
<1>11. Within(B, o + n)'
  BY <1>8, <1>9
<1>12. PICK m : m = o + n
  OBVIOUS
<1>13. Within(B, m)' /\ m = Len(packet(u))
  BY <1>8, <1>11, <1>12
<1>14. Within(B, Len(packet(Upcoming)))'
  <2>1. Len(called') < Len(written') /\ taken' = B[Len(called')] + m
    BY <1>13 DEF Within
  <2> QED BY <1>9, <1>13, <2>1 DEF Within
<1>15. u = [op |-> event_triggered, name |-> name', payload |-> payload']
  BY <1>1, <1>4, <1>6, <1>10 DEF EventNotice
<1>16. Upcoming' = [op |-> event_triggered, name |-> name', payload |-> payload']
  BY <1>9, <1>15
<1>17. Reached(B)'
  BY <1>1, <1>14, <1>16 DEF Reached, event_triggered
<1> QED BY <1>1, <1>9, <1>17 DEF Following

\* Appending keeps what there is.
LEMMA Appended ==
  ASSUME NEW S, NEW q \in Seq(S), NEW x, NEW k \in Nat, k = Len(q)
  PROVE  /\ Len(Append(q, x)) = k + 1
         /\ Append(q, x)[k + 1] = x
         /\ \A i \in 1..k : Append(q, x)[i] = q[i]
OBVIOUS

\* The listeners are called for the next notice, and its packet is over.
LEMMA CallFollows ==
  ASSUME NotifierInv, NEW B, Following(B), call_listeners
  PROVE  Following(B)'
<1>0. PICK u : u = Upcoming
  OBVIOUS
<1>1. /\ step' = "header" /\ phase' = phase
      /\ \E s \in {"call_event_listeners", "call_counter_listeners"} :
           Processing(s, 0) /\ step = s
  BY DEF call_listeners, Processing
<1>2. 0 = Needed
  BY <1>1, NeededIs
<1>3. Frames(B) /\ CalledFirst /\ Reached(B)
  BY DEF Following
<1>4. /\ phase = "process" /\ taken' = taken + 0 /\ taken \in Nat
      /\ written' = written /\ stream' = stream
  BY <1>1, <1>2, ProcessingGets DEF NotifierInv, Processing, outbox
<1>5. Within(B, Len(packet(u))) /\ called' = Append(called, u)
  <2>1. CASE Processing("call_event_listeners", 0)
             /\ called' = Append(called,
                          [op |-> event_triggered, name |-> name, payload |-> payload])
    <3>1. step = "call_event_listeners"
      BY <2>1 DEF Processing
    <3> QED BY <1>0, <1>3, <2>1, <3>1 DEF Reached
  <2>2. CASE Processing("call_counter_listeners", 0)
             /\ called' = Append(called,
                          [op |-> counter_changed, name |-> name, value |-> counter_value])
    <3>1. step = "call_counter_listeners"
      BY <2>2 DEF Processing
    <3> QED BY <1>0, <1>3, <2>2, <3>1 DEF Reached
  <2> QED BY <2>1, <2>2 DEF call_listeners
<1>6. PICK k \in Nat : k = Len(called)
  BY DEF NotifierInv, CalledInv
<1>7. PICK m \in Nat : m = Len(written)
  BY DEF NotifierInv, OutboxInv
<1>8. /\ Len(called') = k + 1 /\ called'[k + 1] = u
      /\ \A i \in 1..k : called'[i] = called[i]
  BY <1>5, <1>6, Appended DEF NotifierInv, CalledInv
<1>9. k < m /\ taken = B[k] + Len(packet(u))
  BY <1>5, <1>6, <1>7 DEF Within
<1>10. /\ u = written[k + 1] /\ B[k] \in Nat
       /\ B[k + 1] = B[k] + Len(packet(u))
  BY <1>0, <1>3, <1>6, <1>7, <1>9, UpcomingIs DEF Upcoming
<1>11. Frames(B)'
  BY <1>3, <1>4 DEF Frames, version, protocol_version
<1>12. CalledFirst'
  <2>1. \A i \in 1..k : called[i] = written[i]
    BY <1>3, <1>6 DEF CalledFirst
  <2>2. \A i \in 1..k + 1 : i \in 1..k \/ i = k + 1
    BY <1>6
  <2>3. \A i \in 1..k + 1 : called'[i] = written[i]
    BY <1>8, <1>10, <2>1, <2>2
  <2>4. k + 1 <= m
    BY <1>6, <1>7, <1>9
  <2> QED BY <1>4, <1>7, <1>8, <2>3, <2>4 DEF CalledFirst
<1>13. taken' = B[Len(called')]
  BY <1>4, <1>8, <1>9, <1>10
<1>14. Reached(B)'
  BY <1>1, <1>13 DEF Reached
<1> QED BY <1>1, <1>4, <1>11, <1>12, <1>14 DEF Following

\* What the server leaves alone stays as it was.
LEMMA FollowingKept ==
  ASSUME NEW B, Following(B),
         UNCHANGED <<stream, taken, step, opcode, name_length, counter_value, payload_length, name,
                     payload, written, called>>,
         phase' = "thrown" => ~connected'
  PROVE  Following(B)'
<1>1. Frames(B)' /\ CalledFirst'
  BY DEF Following, Frames, CalledFirst, version, protocol_version
<1>2. Upcoming' = Upcoming /\ \A o : Within(B, o)' <=> Within(B, o)
  BY DEF Upcoming, Within
<1>3. NameKnown' <=> NameKnown
  BY <1>2 DEF NameKnown
<1>4. Within(B, 4 + Len(Upcoming.name))' <=> Within(B, 4 + Len(Upcoming.name))
  BY <1>2 DEF Within
<1>5. Within(B, Len(packet(Upcoming)))' <=> Within(B, Len(packet(Upcoming)))
  BY <1>2 DEF Within
<1>6. Reached(B)'
  BY <1>2, <1>3, <1>4, <1>5 DEF Following, Reached, event_triggered, counter_changed
<1> QED BY <1>1, <1>6 DEF Following

\* A packet is taken whole: it ends where the stream does.
Extended(B, k, l) == [i \in 0..k + 1 |-> IF i <= k THEN B[i] ELSE B[k] + l]

\* The stream goes on with the l bytes of p behind its first e.
Grows(p, l, e) ==
  /\ Len(stream') = e + l
  /\ \A i \in 1..e : stream'[i] = stream[i]
  /\ \A i \in 1..l : stream'[e + i] = p[i]

\* The frames of a stream to which a whole packet was added.
LEMMA FramesExtended ==
  ASSUME NotifierInv, NEW B, Frames(B), NEW n \in Notice, NEW k \in Nat, k = Len(written),
         written' = Append(written, n),
         NEW p \in Seq(Byte), p = packet(n), NEW l \in Nat, l = Len(p),
         NEW e \in Nat, e = Len(stream), Grows(p, l, e), NEW C, C = Extended(B, k, l)
  PROVE  /\ Frames(C)'
         /\ \A i \in 0..k : C[i] = B[i]
         /\ Len(written') = k + 1 /\ \A i \in 1..k : written'[i] = written[i]
<1>1. /\ Len(stream') = e + l
      /\ \A i \in 1..e : stream'[i] = stream[i]
      /\ \A i \in 1..l : stream'[e + i] = p[i]
  BY DEF Grows
<1>2. /\ Len(written') = k + 1 /\ written'[k + 1] = n
      /\ \A i \in 1..k : written'[i] = written[i]
  BY Appended DEF NotifierInv, OutboxInv
<1>4. /\ B \in [0..k -> 2..e] /\ B[0] = 2 /\ B[k] = e
      /\ stream[1] = version /\ stream[2] = protocol_version
      /\ \A i \in 0..k - 1 : /\ B[i + 1] = B[i] + Len(packet(written[i + 1]))
                             /\ \A j \in 1..Len(packet(written[i + 1])) :
                                  stream[B[i] + j] = packet(written[i + 1])[j]
  BY DEF Frames
<1>5. \A i \in 1..k : written[i] \in Notice
  BY ElementsAre DEF NotifierInv, OutboxInv
<1>6. C = [i \in 0..k + 1 |-> IF i <= k THEN B[i] ELSE B[k] + l]
  BY DEF Extended
<1>7. \A i \in 0..k : C[i] = B[i] /\ B[i] \in 2..e
  <2>1. \A i \in 0..k : i \in 0..k + 1 /\ i <= k
    OBVIOUS
  <2> QED BY <1>4, <1>6, <2>1
<1>8. C[k + 1] = e + l
  <2>1. k + 1 \in 0..k + 1 /\ ~(k + 1 <= k)
    OBVIOUS
  <2> QED BY <1>4, <1>6, <2>1
<1>9. e >= 2
  <2>1. k \in 0..k
    OBVIOUS
  <2>2. B[k] \in 2..e /\ B[k] = e
    BY <1>4, <1>7, <2>1
  <2> QED BY <2>2
<1>10. C \in [0..k + 1 -> 2..e + l]
  <2>2. \A i \in 0..k + 1 : i \in 0..k \/ i = k + 1
    OBVIOUS
  <2>4. \A x \in 2..e : x \in 2..e + l
    OBVIOUS
  <2>5. \A i \in 0..k : C[i] \in 2..e + l
    BY <1>7, <2>4
  <2>6. C[k + 1] \in 2..e + l
    BY <1>8, <1>9
  <2>7. \A i \in 0..k + 1 : C[i] \in 2..e + l
    BY <2>2, <2>5, <2>6
  <2> QED BY <1>6, <2>7
<1>11. C[0] = 2 /\ stream'[1] = version /\ stream'[2] = protocol_version
  <2>1. 1 \in 1..e /\ 2 \in 1..e /\ 0 \in 0..k
    BY <1>9
  <2> QED BY <1>1, <1>4, <1>7, <2>1
<1>12. ASSUME NEW i \in 0..k
       PROVE  /\ C[i + 1] = C[i] + Len(packet(written'[i + 1]))
              /\ \A j \in 1..Len(packet(written'[i + 1])) :
                   stream'[C[i] + j] = packet(written'[i + 1])[j]
  <2>1. CASE i = k
    <3>1. C[i] = e /\ written'[i + 1] = n
      BY <1>2, <1>4, <1>7, <2>1
    <3>2. packet(written'[i + 1]) = p
      BY <3>1
    <3>3. C[i + 1] = e + l
      BY <1>8, <2>1
    <3>4. \A j \in 1..l : stream'[C[i] + j] = p[j]
      BY <1>1, <3>1
    <3> QED BY <3>1, <3>2, <3>3, <3>4
  <2>2. CASE i # k
    <3>1. i \in 0..k - 1 /\ i + 1 \in 1..k /\ i + 1 \in 0..k
      BY <2>2
    <3>2. written'[i + 1] = written[i + 1] /\ C[i] = B[i] /\ C[i + 1] = B[i + 1]
          /\ written[i + 1] \in Notice
      BY <1>2, <1>5, <1>7, <3>1
    <3> DEFINE q == packet(written[i + 1])
               b == B[i]
    <3>3. Len(q) \in Nat /\ b \in Nat /\ b + Len(q) <= e
      <4>1. Len(q) \in Nat
        BY <3>2, OpTells
      <4>2. B[i + 1] = b + Len(q) /\ B[i + 1] \in 2..e /\ b \in 2..e
        BY <1>4, <1>7, <3>1
      <4> HIDE DEF q, b
      <4> QED BY <4>1, <4>2
    <3>4. \A j \in 1..Len(q) : stream[b + j] = q[j]
      BY <1>4, <3>1
    <3> HIDE DEF q, b
    <3>5. \A j \in 1..Len(q) : b + j \in 1..e
      BY <3>3
    <3>6. \A j \in 1..Len(q) : stream'[b + j] = q[j]
      BY <1>1, <3>4, <3>5
    <3> QED BY <1>4, <3>1, <3>2, <3>6 DEF q, b
  <2> QED BY <2>1, <2>2
<1>13. Frames(C)'
  <2>1. Len(written') - 1 = k
    BY <1>2
  <2>2. C \in [0..Len(written') -> 2..Len(stream')] /\ C[Len(written')] = Len(stream')
    BY <1>1, <1>2, <1>8, <1>10
  <2>3. \A i \in 0..Len(written') - 1 :
          /\ C[i + 1] = C[i] + Len(packet(written'[i + 1]))
          /\ \A j \in 1..Len(packet(written'[i + 1])) :
               stream'[C[i] + j] = packet(written'[i + 1])[j]
    BY <1>12, <2>1
  <2> QED BY <1>11, <2>2, <2>3 DEF Frames, version, protocol_version
<1> QED BY <1>2, <1>7, <1>13

\* Behind what the client has reached, the stream may grow.
LEMMA ReachedBehind ==
  ASSUME NEW B, CalledFirst, Reached(B), NEW k \in Nat, k = Len(written),
         NEW a \in Nat, a = Len(called),
         NEW C, \A i \in 0..k : C[i] = B[i],
         Len(written') = k + 1, \A i \in 1..k : written'[i] = written[i],
         UNCHANGED <<taken, step, opcode, name_length, counter_value, payload_length, name,
                     payload, called>>
  PROVE  CalledFirst' /\ Reached(C)'
<1>1. a <= k /\ a \in 0..k
  BY DEF CalledFirst
<1>2. CalledFirst'
  <2>1. \A i \in 1..a : called[i] = written[i]
    BY DEF CalledFirst
  <2>2. \A i \in 1..a : i \in 1..k
    BY <1>1
  <2>3. \A i \in 1..a : called'[i] = written'[i]
    BY <2>1, <2>2
  <2>4. Len(called') <= Len(written')
    BY <1>1
  <2> QED BY <2>3, <2>4 DEF CalledFirst
<1>3. C[a] = B[a]
  BY <1>1
<1>4. ASSUME NEW o, Within(B, o) PROVE Upcoming' = Upcoming /\ Within(C, o)'
  <2>1. a < k /\ taken = B[a] + o
    BY <1>4 DEF Within
  <2>2. a + 1 \in 1..k
    BY <2>1
  <2>3. written'[a + 1] = written[a + 1]
    BY <2>2
  <2>4. a < k + 1
    BY <2>1
  <2> QED BY <1>3, <2>1, <2>3, <2>4 DEF Within, Upcoming
<1>5. PICK u : u = Upcoming
  OBVIOUS
<1>6. \A o : Within(B, o) => Upcoming' = u /\ Within(C, o)'
  BY <1>4, <1>5
<1>7. NameKnown /\ Upcoming' = u => NameKnown'
  BY <1>5 DEF NameKnown
<1>8. step = "header" => (taken' = C[Len(called')] \/ (taken' = 0 /\ Len(called') = 0))
  BY <1>3 DEF Reached
<1>9. step = "protocol_version" => taken' = 1 /\ Len(called') = 0
  BY DEF Reached
<1>10. step = "name_length" => Within(C, 1)' /\ opcode' = Upcoming'.op
  BY <1>5, <1>6 DEF Reached
<1>11. step = "counter_value" => Within(C, 2)' /\ NameKnown' /\ Upcoming'.op = counter_changed
  BY <1>5, <1>6, <1>7 DEF Reached
<1>12. step = "payload_length" => Within(C, 2)' /\ NameKnown' /\ Upcoming'.op = event_triggered
  BY <1>5, <1>6, <1>7 DEF Reached
<1>13. step = "name" =>
         /\ NameKnown'
         /\ \/ /\ Upcoming'.op = event_triggered /\ Within(C, 4)'
               /\ payload_length' = Len(Upcoming'.payload)
            \/ /\ Upcoming'.op = counter_changed /\ Within(C, 6)'
               /\ counter_value' = Upcoming'.value
  BY <1>5, <1>6, <1>7 DEF Reached
<1>14. step = "payload" =>
         /\ Upcoming'.op = event_triggered
         /\ Within(C, 4 + Len(Upcoming.name))'
         /\ payload_length' = Len(Upcoming'.payload) /\ name' = Upcoming'.name
  <2> SUFFICES ASSUME step = "payload"
               PROVE  /\ Upcoming'.op = event_triggered
                      /\ Within(C, 4 + Len(Upcoming.name))'
                      /\ payload_length' = Len(Upcoming'.payload) /\ name' = Upcoming'.name
    OBVIOUS
  <2>1. /\ u.op = event_triggered /\ Within(B, 4 + Len(u.name))
        /\ payload_length = Len(u.payload) /\ name = u.name
    BY <1>5 DEF Reached
  <2>2. PICK o : o = 4 + Len(u.name)
    OBVIOUS
  <2>3. Within(B, o)
    BY <2>1, <2>2
  <2>4. Upcoming' = u /\ Within(C, o)'
    BY <1>6, <2>3
  <2>5. Len(called') < Len(written') /\ taken' = C[Len(called')] + o
    BY <2>4 DEF Within
  <2>6. Within(C, 4 + Len(Upcoming.name))'
    BY <2>2, <2>4, <2>5 DEF Within
  <2> QED BY <2>1, <2>4, <2>6
<1>15. ASSUME Within(B, Len(packet(Upcoming))), NEW r, Upcoming = r
       PROVE  Upcoming' = r /\ Within(C, Len(packet(Upcoming)))'
  <2>1. PICK o : o = Len(packet(u))
    OBVIOUS
  <2>2. Within(B, o)
    BY <1>5, <1>15, <2>1
  <2>3. Upcoming' = u /\ Within(C, o)'
    BY <1>6, <2>2
  <2>4. Len(called') < Len(written') /\ taken' = C[Len(called')] + o
    BY <2>3 DEF Within
  <2> QED BY <1>5, <1>15, <2>1, <2>3, <2>4 DEF Within
<1>16. step = "call_event_listeners" =>
         /\ Upcoming' = [op |-> event_triggered, name |-> name', payload |-> payload']
         /\ Within(C, Len(packet(Upcoming)))'
  BY <1>15 DEF Reached
<1>17. step = "call_counter_listeners" =>
         /\ Upcoming' = [op |-> counter_changed, name |-> name', value |-> counter_value']
         /\ Within(C, Len(packet(Upcoming)))'
  BY <1>15 DEF Reached
<1>18. Reached(C)'
  BY <1>8, <1>9, <1>10, <1>11, <1>12, <1>13, <1>14, <1>16, <1>17
     DEF Reached, event_triggered, counter_changed
<1> QED BY <1>2, <1>18

\* What the socket takes of a packet: the whole of it, nothing, or the connection
\* is torn.
LEMMA NotifyFollows ==
  ASSUME NotifierInv, NEW B, Following(B), NEW notice \in Notice, Notify(notice)
  PROVE  torn' \/ \E C : Following(C)'
<1> SUFFICES ASSUME ~torn' PROVE \E C : Following(C)'
  OBVIOUS
<1>1. PICK p \in Seq(Byte) : p = packet(notice)
  BY NoticesFit
<1>2. PICK l \in Nat : l = Len(p)
  OBVIOUS
<1>3. l >= 4
  BY <1>1, <1>2, OpTells
<1>4. PICK n \in 0..l :
        /\ stream' = stream \o SubSeq(p, 1, n)
        /\ written' = IF n = l THEN Append(written, notice) ELSE written
        /\ torn' = (torn \/ n \in 1..(l - 1))
  BY <1>1, <1>2 DEF Notify, send
<1>5. /\ UNCHANGED <<buffer, peer, connected, received, taken, phase, step, opcode, name_length,
                     counter_value, payload_length, name, payload, called>>
  BY DEF Notify, details
<1>6. n = 0 \/ n = l
  <2>1. n \notin 1..(l - 1)
    BY <1>4
  <2> QED BY <1>4, <2>1
<1>7. SubSeq(p, 1, n) \in Seq(Byte) /\ Len(SubSeq(p, 1, n)) = n
      /\ \A i \in 1..n : SubSeq(p, 1, n)[i] = p[i]
  BY <1>2, PartOf
<1>8. /\ Len(stream') = Len(stream) + n /\ Len(stream) \in Nat
      /\ \A i \in 1..Len(stream) : stream'[i] = stream[i]
      /\ \A i \in 1..n : stream'[Len(stream) + i] = p[i]
  <2> DEFINE b == SubSeq(p, 1, n)
  <2>1. b \in Seq(Byte) /\ Len(b) = n /\ stream' = stream \o b /\ \A i \in 1..n : b[i] = p[i]
    BY <1>4, <1>7
  <2> HIDE DEF b
  <2>2. /\ Len(stream') = Len(stream) + Len(b) /\ Len(stream) \in Nat
        /\ \A i \in 1..Len(stream) : stream'[i] = stream[i]
        /\ \A i \in 1..Len(b) : stream'[Len(stream) + i] = b[i]
    BY <1>5, <2>1, SentBehind DEF NotifierInv
  <2> QED BY <2>1, <2>2
<1>9. Frames(B) /\ CalledFirst /\ Reached(B) /\ (phase = "thrown" => ~connected)
  BY DEF Following
<1>10. CASE n = 0
  <2>1. n # l
    BY <1>3, <1>10
  <2>2. written' = written
    BY <1>4, <2>1
  <2>3. stream' = stream
    <3>1. stream \in Seq(Byte) /\ SubSeq(p, 1, n) \in Seq(Byte)
      BY <1>7 DEF NotifierInv, BufferInv
    <3>2. stream' \in Seq(Byte) /\ Len(stream') = Len(stream)
      BY <1>4, <1>8, <1>10, <3>1
    <3> QED BY <1>8, <3>1, <3>2, SeqEqual
  <2>4. Following(B)'
    BY <1>5, <1>9, <2>2, <2>3, FollowingKept
  <2> QED BY <2>4
<1>11. CASE n = l
  <2>1. written' = Append(written, notice)
    BY <1>4, <1>11
  <2>2. PICK k \in Nat : k = Len(written)
    BY DEF NotifierInv, OutboxInv
  <2>3. PICK a \in Nat : a = Len(called)
    BY DEF NotifierInv, CalledInv
  <2>4. PICK e \in Nat : e = Len(stream)
    BY <1>8
  <2>5. PICK C : C = Extended(B, k, l)
    OBVIOUS
  <2>6. Grows(p, l, e)
    BY <1>8, <1>11, <2>4 DEF Grows
  <2>7. /\ Frames(C)' /\ \A i \in 0..k : C[i] = B[i]
        /\ Len(written') = k + 1 /\ \A i \in 1..k : written'[i] = written[i]
    BY <1>1, <1>2, <1>9, <2>1, <2>2, <2>4, <2>5, <2>6, FramesExtended
  <2>8. CalledFirst' /\ Reached(C)'
    BY <1>5, <1>9, <2>2, <2>3, <2>7, ReachedBehind
  <2>9. phase' = "thrown" => ~connected'
    BY <1>5, <1>9
  <2>10. Following(C)'
    BY <2>7, <2>8, <2>9 DEF Following
  <2> QED BY <2>10
<1> QED BY <1>6, <1>10, <1>11

\* Whatever recv does, and when the loop ends, the client is where it was.
LEMMA FillFollows ==
  ASSUME NotifierInv, NEW B, Following(B),
         ServerLeaves \/ receive \/ disconnected \/ processed_all \/ UNCHANGED notifierVars
  PROVE  Following(B)'
<1>1. UNCHANGED <<stream, taken, step, opcode, name_length, counter_value, payload_length, name,
                  payload, written, called>>
  <2>1. CASE ServerLeaves
    BY <2>1 DEF ServerLeaves, PeerLeaves, details, outbox
  <2>2. CASE receive
    BY <2>2 DEF receive, Receive, ReceiveError, details, outbox
  <2>3. CASE disconnected
    BY <2>3 DEF disconnected, ReceiveNothing, details, outbox
  <2>4. CASE processed_all
    BY <2>4 DEF processed_all, bufferVars, details, outbox
  <2>5. CASE UNCHANGED notifierVars
    BY <2>5 DEF notifierVars, bufferVars, details, outbox
  <2> QED BY <2>1, <2>2, <2>3, <2>4, <2>5
<1>2. phase' = "thrown" => ~connected'
  <2>1. phase = "thrown" => ~connected
    BY DEF Following
  <2>2. CASE ServerLeaves
    BY <2>1, <2>2 DEF ServerLeaves, PeerLeaves
  <2>3. CASE receive
    BY <2>3 DEF receive
  <2>4. CASE disconnected
    BY <2>4 DEF disconnected, ReceiveNothing
  <2>5. CASE processed_all
    BY <2>5 DEF processed_all
  <2>6. CASE UNCHANGED notifierVars
    BY <2>1, <2>6 DEF notifierVars, bufferVars
  <2> QED BY <2>2, <2>3, <2>4, <2>5, <2>6
<1> QED BY <1>1, <1>2, FollowingKept

\* Every step keeps the order of the notices, or tears the stream.
LEMMA NoticesNext ==
  NotifierInv /\ NoticesInv /\ [NotifierNext]_notifierVars => NoticesInv'
<1> SUFFICES ASSUME NotifierInv, NoticesInv, [NotifierNext]_notifierVars PROVE NoticesInv'
  OBVIOUS
<1>1. CASE torn
  <2>1. torn'
    <3>1. ASSUME NEW notice \in Notice, Notify(notice) PROVE torn'
      BY <1>1, <3>1 DEF Notify
    <3>2. CASE UNCHANGED torn
      BY <1>1, <3>2
    <3>3. CASE ServerLeaves \/ receive \/ disconnected \/ processed_all
      BY <1>1, <3>3 DEF ServerLeaves, receive, disconnected, processed_all, outbox
    <3>4. CASE process_header \/ process_version \/ process_name_length \/ process_counter_value
      BY <1>1, <3>4 DEF process_header, process_version, process_name_length,
                        process_counter_value, Processing, outbox
    <3>5. CASE process_payload_length \/ process_name \/ process_payload \/ call_listeners
      BY <1>1, <3>5 DEF process_payload_length, process_name, process_payload, call_listeners,
                        Processing, outbox
    <3>6. CASE UNCHANGED notifierVars
      BY <1>1, <3>6 DEF notifierVars, outbox
    <3> QED BY <3>1, <3>3, <3>4, <3>5, <3>6 DEF NotifierNext
  <2> QED BY <2>1 DEF NoticesInv
<1>2. ASSUME NEW B, Following(B) PROVE NoticesInv'
  <2>1. ASSUME NEW notice \in Notice, Notify(notice) PROVE torn' \/ \E C : Following(C)'
    BY <1>2, <2>1, NotifyFollows
  <2>2. ASSUME ServerLeaves \/ receive \/ disconnected \/ processed_all \/ UNCHANGED notifierVars
        PROVE  Following(B)'
    BY <1>2, <2>2, FillFollows
  <2>3. ASSUME process_header \/ process_version \/ process_name_length
        PROVE  Following(B)'
    BY <1>2, <2>3, HeaderFollows, VersionFollows, NameLengthFollows
  <2>4. ASSUME process_counter_value \/ process_payload_length
        PROVE  Following(B)'
    BY <1>2, <2>4, ValueFollows, PayloadLengthFollows
  <2>5. ASSUME process_name \/ process_payload \/ call_listeners
        PROVE  Following(B)'
    BY <1>2, <2>5, NameFollows, PayloadFollows, CallFollows
  <2>6. torn' \/ \E C : Following(C)'
    BY <2>1, <2>2, <2>3, <2>4, <2>5 DEF NotifierNext
  <2> QED BY <2>6 DEF NoticesInv
<1> QED BY <1>1, <1>2 DEF NoticesInv

\* At first the client has read nothing of the version.
LEMMA NoticesStart == NotifierInit => NoticesInv
<1> SUFFICES ASSUME NotifierInit PROVE NoticesInv
  OBVIOUS
<1> DEFINE B == [i \in 0..0 |-> 2]
<1>1. /\ stream = version_packet /\ taken = 0 /\ step = "header" /\ phase = "recv"
      /\ written = <<>> /\ called = <<>>
  BY DEF NotifierInit
<1>2. Len(stream) = 2 /\ stream[1] = version /\ stream[2] = protocol_version
  BY <1>1, VersionBytes
<1>3. Len(written) = 0 /\ Len(called) = 0
  BY <1>1
<1>4. B \in [0..0 -> 2..2] /\ B[0] = 2
  OBVIOUS
<1> HIDE DEF B
<1>5. Frames(B)
  <2>1. ~ \E i \in 0..Len(written) - 1 : TRUE
    BY <1>3
  <2> QED BY <1>2, <1>3, <1>4, <2>1 DEF Frames
<1>6. CalledFirst
  BY <1>3 DEF CalledFirst
<1>7. Reached(B)
  BY <1>1, <1>3 DEF Reached
<1>8. Following(B)
  BY <1>1, <1>5, <1>6, <1>7 DEF Following
<1> QED BY <1>8 DEF NoticesInv

\* As long as a notice has arrived and was not called, the client has bytes to read.
LEMMA NoticeWaits ==
  ASSUME NotifierInv, NEW B, Following(B), received = Len(stream), Len(called) < Len(written)
  PROVE  phase # "recv"
<1> SUFFICES ASSUME phase = "recv" PROVE FALSE
  OBVIOUS
<1>1. Frames(B) /\ CalledFirst /\ Reached(B)
  BY DEF Following
<1>2. PICK u \in Notice : u = Upcoming
  BY <1>1, UpcomingIs
<1>3. PICK b \in Nat : b = B[Len(called)]
  BY <1>1, UpcomingIs
<1>4. PICK l \in Nat : l = Len(packet(u))
  BY OpTells
<1>5. PICK z \in Nat : z = Len(stream)
  BY <1>1, UpcomingIs
<1>6. b + l <= z /\ l >= 4
  BY <1>1, <1>2, <1>3, <1>4, <1>5, UpcomingIs, OpTells
<1>7. PICK n \in Nat : n = Needed
  BY NeededType DEF NotifierInv
<1>8. taken \in Nat /\ z - taken < n
  <2>1. PICK a : a = avaliable(buffer)
    OBVIOUS
  <2>2. a < n
    BY <1>7, <2>1 DEF NotifierInv, Starved
  <2>3. a = z - taken /\ taken \in Nat
    BY <1>5, <2>1 DEF NotifierInv, BufferInv
  <2> QED BY <2>2, <2>3
<1>9. PICK k \in Nat : k = Len(u.name)
  BY OpTells
<1>10. ASSUME NEW o \in Nat, Within(B, o), o + n <= l PROVE FALSE
  <2>1. taken = b + o
    BY <1>3, <1>10 DEF Within
  <2> QED BY <1>6, <1>8, <1>10, <2>1
<1>11. CASE step = "header"
  <2>1. n = 1
    BY <1>7, <1>11, NeededIs
  <2>2. taken = b \/ taken = 0
    BY <1>1, <1>3, <1>11 DEF Reached
  <2> QED BY <1>6, <1>8, <2>1, <2>2
<1>12. CASE step = "protocol_version"
  <2>1. n = 1 /\ taken = 1
    BY <1>1, <1>7, <1>12, NeededIs DEF Reached
  <2> QED BY <1>6, <1>8, <2>1
<1>13. CASE step = "name_length"
  <2>1. n = 1 /\ Within(B, 1)
    BY <1>1, <1>7, <1>13, NeededIs DEF Reached
  <2>2. 1 + n <= l
    BY <1>6, <2>1
  <2> QED BY <1>10, <2>1, <2>2
<1>14. CASE step = "counter_value"
  <2>1. n = 4 /\ Within(B, 2) /\ u.op = counter_changed
    BY <1>1, <1>2, <1>7, <1>14, NeededIs DEF Reached
  <2>2. l = 6 + k
    BY <1>4, <1>9, <2>1, OpTells DEF CounterNotice, CounterBytes
  <2>3. 2 + n <= l
    BY <2>1, <2>2
  <2> QED BY <1>10, <2>1, <2>3
<1>15. CASE step = "payload_length"
  <2>1. n = 2 /\ Within(B, 2)
    BY <1>1, <1>7, <1>15, NeededIs DEF Reached
  <2>2. 2 + n <= l
    BY <1>6, <2>1
  <2> QED BY <1>10, <2>1, <2>2
<1>16. CASE step = "name"
  <2>1. n = k
    BY <1>1, <1>2, <1>7, <1>9, <1>16, NeededIs DEF Reached, NameKnown
  <2>2. CASE u.op = event_triggered /\ Within(B, 4)
    <3>1. PICK m \in Nat : l = 4 + k + m
      <4>1. EventNotice(u)
        BY <2>2, OpTells
      <4>2. Len(u.payload) \in Nat /\ l = 4 + k + Len(u.payload)
        BY <1>4, <1>9, <4>1 DEF EventNotice, EventBytes
      <4> QED BY <4>2
    <3>2. 4 + n <= l
      BY <2>1, <3>1
    <3> QED BY <1>10, <2>2, <3>2
  <2>3. CASE u.op = counter_changed /\ Within(B, 6)
    <3>1. CounterNotice(u)
      BY <2>3, OpTells
    <3>2. l = 6 + k
      BY <1>4, <1>9, <3>1 DEF CounterNotice, CounterBytes
    <3>3. 6 + n <= l
      BY <2>1, <3>2
    <3> QED BY <1>10, <2>3, <3>3
  <2> QED BY <1>1, <1>2, <1>16, <2>2, <2>3 DEF Reached
<1>17. CASE step = "payload"
  <2>1. /\ u.op = event_triggered /\ Within(B, 4 + k) /\ payload_length = Len(u.payload)
        /\ n = payload_length
    BY <1>1, <1>2, <1>7, <1>9, <1>17, NeededIs DEF Reached
  <2>2. EventNotice(u)
    BY <2>1, OpTells
  <2>3. l = 4 + k + n
    BY <1>4, <1>9, <2>1, <2>2 DEF EventNotice, EventBytes
  <2>4. PICK o \in Nat : o = 4 + k
    OBVIOUS
  <2>5. Within(B, o) /\ o + n <= l
    BY <2>1, <2>3, <2>4
  <2> QED BY <1>10, <2>5
<1>18. CASE step \in {"call_event_listeners", "call_counter_listeners"}
  <2>1. n = 0
    BY <1>7, <1>18, NeededIs
  <2>2. Within(B, l)
    BY <1>1, <1>2, <1>4, <1>18 DEF Reached
  <2>3. l + n <= l
    BY <2>1
  <2> QED BY <1>10, <2>2, <2>3
<1>19. step \in DetailSteps
  BY DetailsAre DEF NotifierInv
<1> QED BY <1>11, <1>12, <1>13, <1>14, <1>15, <1>16, <1>17, <1>18, <1>19 DEF DetailSteps

\* A sequence whose elements are the first of another is its prefix.
LEMMA FirstIsPrefix ==
  ASSUME NEW S, NEW a \in Seq(S), NEW R, NEW b \in Seq(R), Len(a) <= Len(b),
         \A i \in 1..Len(a) : a[i] = b[i]
  PROVE  IsPrefix(a, b) /\ (Len(a) = Len(b) => a = b)
<1>1. PICK k \in Nat : k = Len(a)
  OBVIOUS
<1>2. k <= Len(b) /\ Len(b) \in Nat
  BY <1>1
<1>3. /\ Len(SubSeq(a, 1, k)) = k /\ SubSeq(a, 1, k) \in Seq(S)
      /\ \A i \in 1..k : SubSeq(a, 1, k)[i] = a[i]
  BY <1>1
<1>4. /\ Len(SubSeq(b, 1, k)) = k /\ SubSeq(b, 1, k) \in Seq(R)
      /\ \A i \in 1..k : SubSeq(b, 1, k)[i] = b[i]
  BY <1>2
<1>5. SubSeq(a, 1, k) = SubSeq(b, 1, k)
  BY <1>1, <1>3, <1>4, SeqEqual
<1>6. Len(a) = Len(b) => a = b
  BY SeqEqual
<1> QED BY <1>1, <1>5, <1>6 DEF IsPrefix

\* The invariant says what the listeners were called with.
LEMMA NoticesImply == NotifierInv /\ NoticesInv => CallsAreNotices
<1> SUFFICES ASSUME NotifierInv, NoticesInv, ~torn
             PROVE  /\ IsPrefix(called, written)
                    /\ (phase = "recv" /\ received = Len(stream)) => called = written
                    /\ phase = "thrown" => ~connected
  BY DEF CallsAreNotices
<1>1. PICK B : Following(B)
  BY DEF NoticesInv
<1>2. CalledFirst /\ (phase = "thrown" => ~connected)
  BY <1>1 DEF Following
<1>3. called \in Seq(Heard) /\ written \in Seq(Notice)
  BY DEF NotifierInv, CalledInv, OutboxInv
<1>4. IsPrefix(called, written) /\ (Len(called) = Len(written) => called = written)
  BY <1>2, <1>3, FirstIsPrefix DEF CalledFirst
<1>5. phase = "recv" /\ received = Len(stream) => Len(called) = Len(written)
  <2>1. Len(called) \in Nat /\ Len(written) \in Nat /\ Len(called) <= Len(written)
    BY <1>2, <1>3 DEF CalledFirst
  <2>2. phase = "recv" /\ received = Len(stream) => ~(Len(called) < Len(written))
    BY <1>1, NoticeWaits
  <2> QED BY <2>1, <2>2
<1> QED BY <1>2, <1>4, <1>5

\* Until a packet is cut short, the client library calls its listeners for exactly
\* the notices that the socket took, in order and each once, and misses none of
\* those that have arrived: send_event and send_counter_event against
\* Client::Details, for every notice whose lengths and value fit their bytes.
THEOREM NoticesArrive == NotifierSpec => []CallsAreNotices
<1> DEFINE I == NotifierInv /\ Torn /\ NoticesInv
<1>1. NotifierInit => I
  BY NotifierStarts, NoticesStart
<1>2. I /\ [NotifierNext]_notifierVars => I'
  BY NotifierNextInv, NoticesNext
<1>3. I => CallsAreNotices
  BY NoticesImply
<1> QED BY <1>1, <1>2, <1>3, PTL DEF NotifierSpec

===============================================================================
