-------------------------- MODULE StreamBus_proofs --------------------------
(***************************************************************************)
(* Proofs about StreamBus for every ring and channel size and any number   *)
(* of clients: type correctness, the bounds of the buffers, and that the   *)
(* bus implements StreamLog.                                               *)
(***************************************************************************)
EXTENDS StreamBus, TLAPS

\* The ring holds the last frames, all of them until it is full.
RingIsTail ==
    /\ Len(buffer) <= BufSize
    /\ Len(buffer) <= seq
    /\ seq > 0 => Len(buffer) > 0
    /\ \A i \in 1..Len(buffer) : buffer[i] = seq - Len(buffer) + i

\* Durable frames of a channel are in the order of their seq.
Ordered(q) ==
    \A i, j \in 1..Len(q) :
        i < j /\ q[i] # Ephemeral /\ q[j] # Ephemeral => q[i] < q[j]
Durables(q) == {n \in Nat \ {Ephemeral} : \E i \in 1..Len(q) : q[i] = n}

\* Of a connected client: its channel holds frames it does not have, in order,
\* and all of them unless it was cut.
Fed(c) ==
    /\ c \in subs
    /\ pos[c] <= seq
    /\ Ordered(ch[c])
    /\ Durables(ch[c]) \subseteq (pos[c] + 1)..seq
    /\ c \notin done => Durables(ch[c]) = (pos[c] + 1)..seq

BusInv ==
    /\ RingIsTail
    /\ \A c \in Clients : Len(ch[c]) <= Capacity
    /\ ListedIsConnected
    /\ \A c \in Clients : conn[c] = "off" => c \notin done
    /\ \A c \in Clients : c \notin stale => cursor[c] \in {0, pos[c]} /\ pos[c] <= seq
    /\ \A c \in Clients : conn[c] = "on" => Fed(c)

-----------------------------------------------------------------------------
\* The end of a sequence is a sequence (Ring, ReplayFrom).
LEMMA SuffixType ==
    ASSUME NEW S, NEW q \in Seq(S), NEW m \in 1..Len(q)
    PROVE  /\ SubSeq(q, m, Len(q)) \in Seq(S)
           /\ Len(SubSeq(q, m, Len(q))) = Len(q) - m + 1
           /\ \A i \in 1..(Len(q) - m + 1) : SubSeq(q, m, Len(q))[i] = q[m + i - 1]
  OBVIOUS

\* Appending one element.
LEMMA AppendType ==
    ASSUME NEW S, NEW q \in Seq(S), NEW e \in S
    PROVE  /\ Append(q, e) \in Seq(S)
           /\ Len(Append(q, e)) = Len(q) + 1
           /\ \A i \in 1..Len(q) : Append(q, e)[i] = q[i]
           /\ Append(q, e)[Len(q) + 1] = e
  OBVIOUS

\* Cutting a ring of one frame too many (bus.go Publish).
LEMMA RingCut ==
    ASSUME NEW q \in Seq(Nat), NEW s \in Nat \ {0}, Len(q) \in 1..(BufSize + 1), Len(q) <= s,
           \A i \in 1..Len(q) : q[i] = s - Len(q) + i
    PROVE  /\ Ring(q) \in Seq(Nat)
           /\ Len(Ring(q)) \in 1..BufSize /\ Len(Ring(q)) <= s
           /\ \A i \in 1..Len(Ring(q)) : Ring(q)[i] = s - Len(Ring(q)) + i
<1>1. BufSize \in Nat \ {0} /\ Len(q) \in Nat
  BY BufAssumption
<1>2. CASE Len(q) > BufSize
  <2>1. Len(q) = BufSize + 1 /\ 2 \in 1..Len(q) /\ Len(q) - BufSize + 1 = 2
    BY <1>1, <1>2
  <2>2. Ring(q) = SubSeq(q, 2, Len(q))
    BY <1>2, <2>1 DEF Ring
  <2>3. /\ SubSeq(q, 2, Len(q)) \in Seq(Nat)
        /\ Len(SubSeq(q, 2, Len(q))) = Len(q) - 2 + 1
        /\ \A i \in 1..(Len(q) - 2 + 1) : SubSeq(q, 2, Len(q))[i] = q[2 + i - 1]
    BY <2>1, SuffixType
  <2>4. Ring(q) \in Seq(Nat) /\ Len(Ring(q)) = BufSize
    BY <1>1, <2>1, <2>2, <2>3
  <2>5. \A i \in 1..BufSize : Ring(q)[i] = q[i + 1]
    BY <1>1, <2>1, <2>2, <2>3
  <2>6. \A i \in 1..BufSize : q[i + 1] = s - BufSize + i
    BY <1>1, <2>1
  <2> QED
    BY <1>1, <2>1, <2>4, <2>5, <2>6
<1>3. CASE ~(Len(q) > BufSize)
  BY <1>1, <1>3 DEF Ring
<1> QED
  BY <1>2, <1>3

\* The ring after one more frame (bus.go Publish).
LEMMA RingAfter ==
    ASSUME TypeOK, RingIsTail, seq' = seq + 1, buffer' = Ring(Append(buffer, seq + 1))
    PROVE  buffer' \in Seq(Nat) /\ RingIsTail'
<1>1. seq \in Nat /\ buffer \in Seq(Nat) /\ Len(buffer) \in Nat /\ BufSize \in Nat \ {0}
  BY BufAssumption DEF TypeOK
<1>2. PICK q : q = Append(buffer, seq + 1)
  OBVIOUS
<1>3. /\ q \in Seq(Nat) /\ Len(q) = Len(buffer) + 1
      /\ \A i \in 1..Len(buffer) : q[i] = buffer[i]
      /\ q[Len(buffer) + 1] = seq + 1
  BY <1>1, <1>2, AppendType
<1>4. \A i \in 1..Len(q) : q[i] = (seq + 1) - Len(q) + i
  <2>1. \A i \in 1..Len(buffer) : q[i] = seq - Len(buffer) + i
    BY <1>3 DEF RingIsTail
  <2>2. ASSUME NEW i \in 1..Len(q) PROVE q[i] = (seq + 1) - Len(q) + i
    <3>1. i \in 1..Len(buffer) \/ i = Len(buffer) + 1
      BY <1>1, <1>3
    <3>2. (seq + 1) - Len(q) + i = seq - Len(buffer) + i
      BY <1>1, <1>3
    <3>3. CASE i \in 1..Len(buffer)
      BY <2>1, <3>2, <3>3
    <3>4. CASE i = Len(buffer) + 1
      BY <1>1, <1>3, <3>2, <3>4
    <3> QED
      BY <3>1, <3>3, <3>4
  <2> QED
    BY <2>2
<1>5. Len(q) \in 1..(BufSize + 1) /\ Len(q) <= seq + 1 /\ seq + 1 \in Nat \ {0}
  BY <1>1, <1>3 DEF RingIsTail
<1>6. /\ Ring(q) \in Seq(Nat)
      /\ Len(Ring(q)) \in 1..BufSize /\ Len(Ring(q)) <= seq + 1
      /\ \A i \in 1..Len(Ring(q)) : Ring(q)[i] = (seq + 1) - Len(Ring(q)) + i
  BY <1>3, <1>4, <1>5, RingCut
<1>7. buffer' = Ring(q)
  BY <1>2
<1> QED
  BY <1>1, <1>6, <1>7 DEF RingIsTail

\* The end of the ring from its m-th frame on.
LEMMA RingEnd ==
    ASSUME NEW b \in Seq(Nat), NEW s \in Nat, NEW m \in 1..Len(b), Len(b) <= s,
           \A i \in 1..Len(b) : b[i] = s - Len(b) + i
    PROVE  LET q == SubSeq(b, m, Len(b)) IN
           /\ q \in Seq(Nat) /\ Len(q) = Len(b) - m + 1
           /\ Ordered(q)
           /\ Durables(q) = (s - Len(b) + m)..s
<1>1. Len(b) \in Nat
  OBVIOUS
<1>2. PICK q : q = SubSeq(b, m, Len(b))
  OBVIOUS
<1>3. PICK n : n = Len(b) - m + 1
  OBVIOUS
<1>4. n \in Nat \ {0}
  BY <1>1, <1>3
<1>5. q \in Seq(Nat) /\ Len(q) = n /\ \A i \in 1..n : q[i] = b[m + i - 1]
  BY <1>2, <1>3, SuffixType
<1>6. \A i \in 1..n : q[i] = s - n + i
  <2>1. ASSUME NEW i \in 1..n PROVE m + i - 1 \in 1..Len(b)
    BY <1>1, <1>3, <1>4
  <2> QED
    BY <1>1, <1>3, <1>5, <2>1
<1>7. Ordered(q)
  BY <1>4, <1>5, <1>6 DEF Ordered
<1>8. s - Len(b) + m = s - n + 1 /\ s - n + 1 \in Nat \ {0}
  BY <1>1, <1>3
<1>9. Durables(q) = (s - n + 1)..s
  <2>1. ASSUME NEW k \in (s - n + 1)..s PROVE k \in Durables(q)
    <3>1. k \in Nat \ {0} /\ k - (s - n) \in 1..n
      BY <1>4, <1>8
    <3>2. q[k - (s - n)] = k
      BY <1>4, <1>6, <3>1
    <3> QED
      BY <1>5, <3>1, <3>2 DEF Durables, Ephemeral
  <2>2. ASSUME NEW k \in Durables(q) PROVE k \in (s - n + 1)..s
    <3>1. PICK i \in 1..n : q[i] = k
      BY <1>5 DEF Durables
    <3> QED
      BY <1>4, <1>6, <1>8, <3>1
  <2> QED
    BY <2>1, <2>2
<1> QED
  BY <1>2, <1>3, <1>5, <1>7, <1>8, <1>9

\* What Subscribe replays: the frames after the cursor (subscribe.go).
LEMMA Replay ==
    ASSUME TypeOK, RingIsTail, NEW c \in Clients, ~Evicted(c)
    PROVE  /\ ReplayFrom(c) \in Seq(Nat) /\ Len(ReplayFrom(c)) <= BufSize
           /\ Ordered(ReplayFrom(c))
           /\ Durables(ReplayFrom(c)) = (IF Behind(c) THEN cursor[c] + 1 ELSE seq + 1)..seq
<1>1. /\ buffer \in Seq(Nat) /\ seq \in Nat /\ cursor[c] \in Nat /\ BufSize \in Nat \ {0}
      /\ Len(buffer) \in Nat
  BY BufAssumption DEF TypeOK
<1>2. CASE ~Behind(c)
  <2>1. ReplayFrom(c) = << >>
    BY <1>2 DEF ReplayFrom
  <2>2. Durables(<< >>) = {} /\ Ordered(<< >>) /\ << >> \in Seq(Nat) /\ Len(<< >>) = 0
    BY DEF Durables, Ordered
  <2>3. (seq + 1)..seq = {}
    BY <1>1
  <2>4. (IF Behind(c) THEN cursor[c] + 1 ELSE seq + 1) = seq + 1
    BY <1>2
  <2>5. Len(ReplayFrom(c)) <= BufSize
    BY <1>1, <2>1
  <2>6. Durables(ReplayFrom(c)) = (seq + 1)..seq
    BY <2>1, <2>2, <2>3
  <2>7. ReplayFrom(c) \in Seq(Nat) /\ Ordered(ReplayFrom(c))
    BY <2>1, <2>2
  <2> QED
    BY <2>4, <2>5, <2>6, <2>7
<1>3. CASE Behind(c)
  <2>1. PICK m : m = cursor[c] - (seq - Len(buffer)) + 1
    OBVIOUS
  <2>2. Len(buffer) > 0 /\ Len(buffer) <= seq /\ Len(buffer) <= BufSize
    BY <1>1, <1>3 DEF Behind, RingIsTail
  <2>3. \A i \in 1..Len(buffer) : buffer[i] = seq - Len(buffer) + i
    BY DEF RingIsTail
  <2>4. 1 \in 1..Len(buffer) /\ buffer[1] = seq - Len(buffer) + 1
    BY <1>1, <2>2, <2>3
  <2>5. buffer[1] <= cursor[c] + 1
    BY <1>1, <1>3, <2>2, <2>4 DEF Evicted
  <2>6. m \in 1..Len(buffer)
    <3>1. cursor[c] >= seq - Len(buffer) /\ cursor[c] < seq
      BY <1>1, <1>3, <2>2, <2>4, <2>5 DEF Behind
    <3> QED
      BY <1>1, <2>1, <2>2, <3>1
  <2>7. IsNext(c, m)
    <3>1. buffer[m] = cursor[c] + 1
      BY <1>1, <2>1, <2>3, <2>6
    <3>2. ASSUME NEW j \in 1..(m - 1) PROVE buffer[j] <= cursor[c]
      <4>1. j \in 1..Len(buffer) /\ j < m
        BY <1>1, <2>6
      <4>2. buffer[j] = seq - Len(buffer) + j
        BY <2>3, <4>1
      <4> QED
        BY <1>1, <2>1, <2>6, <4>1, <4>2
    <3> QED
      BY <1>1, <3>1, <3>2 DEF IsNext
  <2>8. ASSUME NEW i \in DOMAIN buffer, IsNext(c, i) PROVE i = m
    <3>1. i \in 1..Len(buffer)
      BY <1>1
    <3>2. i >= m
      BY <1>1, <2>1, <2>3, <2>6, <2>8, <3>1 DEF IsNext
    <3>3. ~(m < i)
      BY <1>1, <2>1, <2>3, <2>6, <2>8, <3>1, SMTT(30) DEF IsNext
    <3> QED
      BY <2>6, <3>1, <3>2, <3>3
  <2>9. m \in DOMAIN buffer
    BY <1>1, <2>6
  <2>10. (CHOOSE i \in DOMAIN buffer : IsNext(c, i)) = m
    BY <2>7, <2>8, <2>9
  <2>11. ReplayFrom(c) = SubSeq(buffer, m, Len(buffer))
    BY <1>3, <2>10 DEF ReplayFrom
  <2>12. seq - Len(buffer) + m = cursor[c] + 1
    BY <1>1, <2>1
  <2>13. LET q == SubSeq(buffer, m, Len(buffer)) IN
         /\ q \in Seq(Nat) /\ Len(q) = Len(buffer) - m + 1
         /\ Ordered(q)
         /\ Durables(q) = (seq - Len(buffer) + m)..seq
    BY <1>1, <2>2, <2>3, <2>6, RingEnd
  <2>14. Len(buffer) - m + 1 <= BufSize
    BY <1>1, <2>2, <2>6
  <2> QED
    BY <1>1, <1>3, <2>11, <2>12, <2>13, <2>14
<1> QED
  BY <1>2, <1>3

-----------------------------------------------------------------------------
(***************************************************************************)
(* Channels.                                                               *)
(***************************************************************************)
\* A durable frame goes to the end of the order (bus.go Publish).
LEMMA DurableAppended ==
    ASSUME NEW q \in Seq(Nat), NEW s \in Nat, NEW p \in Nat,
           Ordered(q), Durables(q) \subseteq (p + 1)..s
    PROVE  /\ Ordered(Append(q, s + 1))
           /\ Durables(Append(q, s + 1)) = Durables(q) \cup {s + 1}
<1>1. PICK r : r = Append(q, s + 1)
  OBVIOUS
<1>2. /\ r \in Seq(Nat) /\ Len(r) = Len(q) + 1 /\ Len(q) \in Nat
      /\ \A i \in 1..Len(q) : r[i] = q[i]
      /\ r[Len(q) + 1] = s + 1
  BY <1>1, AppendType
<1>3. \A i \in 1..Len(q) : q[i] \in Nat /\ (q[i] # 0 => q[i] \in Durables(q))
  BY DEF Durables, Ephemeral
<1>4. \A i \in 1..Len(q) : q[i] # 0 => q[i] < s + 1
  BY <1>3
<1>5. \A i \in 1..Len(r) : i \in 1..Len(q) \/ i = Len(q) + 1
  BY <1>2
<1>6. Ordered(r)
  <2> SUFFICES ASSUME NEW i \in 1..Len(r), NEW j \in 1..Len(r), i < j, r[i] # 0, r[j] # 0
               PROVE  r[i] < r[j]
    BY DEF Ordered, Ephemeral
  <2>1. i \in 1..Len(q)
    BY <1>2
  <2>2. CASE j \in 1..Len(q)
    <3>1. q[i] < q[j]
      BY <1>2, <2>1, <2>2 DEF Ordered, Ephemeral
    <3> QED
      BY <1>2, <2>1, <2>2, <3>1
  <2>3. CASE j = Len(q) + 1
    BY <1>2, <1>4, <2>1, <2>3
  <2> QED
    BY <1>5, <2>2, <2>3
<1>7. Durables(r) = Durables(q) \cup {s + 1}
  <2>1. \A k \in Durables(r) : k \in Durables(q) \cup {s + 1}
    BY <1>2, <1>5 DEF Durables
  <2>2. Len(q) + 1 \in 1..Len(r) /\ 1..Len(q) \subseteq 1..Len(r)
    BY <1>2
  <2>3. \A k \in Durables(q) \cup {s + 1} : k \in Durables(r)
    BY <1>2, <2>2 DEF Durables, Ephemeral
  <2> QED
    BY <2>1, <2>3
<1> QED
  BY <1>1, <1>6, <1>7

\* An ephemeral frame leaves the durable ones as they were (bus.go Publish).
LEMMA EphemeralAppended ==
    ASSUME NEW q \in Seq(Nat), Ordered(q)
    PROVE  Ordered(Append(q, Ephemeral)) /\ Durables(Append(q, Ephemeral)) = Durables(q)
<1>1. PICK r : r = Append(q, Ephemeral)
  OBVIOUS
<1>2. /\ r \in Seq(Nat) /\ Len(r) = Len(q) + 1 /\ Len(q) \in Nat
      /\ \A i \in 1..Len(q) : r[i] = q[i]
      /\ r[Len(q) + 1] = Ephemeral
  BY <1>1, AppendType DEF Ephemeral
<1>3. \A i \in 1..Len(r) : i \in 1..Len(q) \/ i = Len(q) + 1
  BY <1>2
<1>4. 1..Len(q) \subseteq 1..Len(r)
  BY <1>2
<1>5. Ordered(r)
  BY <1>2, <1>3 DEF Ordered
<1>6. Durables(r) = Durables(q)
  BY <1>2, <1>3, <1>4 DEF Durables
<1> QED
  BY <1>1, <1>5, <1>6

\* The first durable frame of a channel is its oldest (sse.go StreamSSE).
LEMMA FrameTaken ==
    ASSUME NEW q \in Seq(Nat), q # << >>, Ordered(q)
    PROVE  /\ Ordered(Tail(q)) /\ Tail(q) \in Seq(Nat) /\ Len(Tail(q)) = Len(q) - 1
           /\ Head(q) \in Nat
           /\ Head(q) = Ephemeral => Durables(Tail(q)) = Durables(q)
           /\ Head(q) # Ephemeral =>
                 /\ Head(q) \in Durables(q)
                 /\ \A k \in Durables(q) : Head(q) <= k
                 /\ Durables(Tail(q)) = Durables(q) \ {Head(q)}
<1>1. PICK r : r = Tail(q)
  OBVIOUS
<1>2. /\ r \in Seq(Nat) /\ Len(q) \in Nat \ {0} /\ Len(r) = Len(q) - 1
      /\ \A i \in 1..Len(r) : r[i] = q[i + 1]
      /\ Head(q) = q[1] /\ Head(q) \in Nat
  BY <1>1
<1>3. \A i \in 1..Len(r) : i + 1 \in 1..Len(q)
  BY <1>2
<1>4. \A i \in 1..Len(q) : i = 1 \/ (i - 1 \in 1..Len(r) /\ r[i - 1] = q[i] /\ i > 1)
  BY <1>2
<1>5. 1 \in 1..Len(q) /\ \A i \in 1..Len(q) : q[i] \in Nat
  BY <1>2
<1>6. Ordered(r)
  <2>1. \A i, j \in 1..Len(r) : i < j => i + 1 < j + 1
    BY <1>2
  <2> QED
    BY <1>2, <1>3, <2>1 DEF Ordered
<1>7. \A k \in Durables(r) : k \in Durables(q)
  BY <1>2, <1>3 DEF Durables
<1>8. \A k \in Durables(q) : k = q[1] \/ k \in Durables(r)
  BY <1>4 DEF Durables
<1>9. CASE Head(q) = Ephemeral
  <2>1. \A k \in Durables(q) : k \in Durables(r)
    BY <1>2, <1>8, <1>9 DEF Durables
  <2> QED
    BY <1>1, <1>2, <1>6, <1>7, <1>9, <2>1
<1>10. CASE Head(q) # Ephemeral
  <2>1. \A i \in 1..Len(q) : i = 1 \/ q[i] = Ephemeral \/ q[1] < q[i]
    BY <1>2, <1>4, <1>5, <1>10 DEF Ordered
  <2>2. Head(q) \in Durables(q)
    BY <1>2, <1>5, <1>10 DEF Durables
  <2>3. \A k \in Durables(q) : Head(q) <= k
    BY <1>2, <2>1 DEF Durables
  <2>4. \A k \in Durables(r) : k # Head(q)
    <3>1. ASSUME NEW i \in 1..Len(r), r[i] # Ephemeral PROVE r[i] # Head(q)
      <4>1. i + 1 \in 1..Len(q) /\ i + 1 # 1 /\ r[i] = q[i + 1]
        BY <1>2, <1>3
      <4>2. q[1] < q[i + 1] /\ q[i + 1] \in Nat
        BY <1>5, <2>1, <3>1, <4>1
      <4> QED
        BY <1>2, <4>1, <4>2
    <3> QED
      BY <3>1 DEF Durables
  <2> QED
    BY <1>1, <1>2, <1>6, <1>7, <1>8, <1>10, <2>2, <2>3, <2>4
<1> QED
  BY <1>9, <1>10

-----------------------------------------------------------------------------
(***************************************************************************)
(* The inductive invariant.                                                *)
(***************************************************************************)
LEMMA InitBus == ASSUME Init PROVE TypeOK /\ BusInv
<1>1. << >> \in Seq(Nat) /\ Len(<< >>) = 0
  OBVIOUS
<1>2. BufSize \in Nat \ {0} /\ Capacity \in Nat
  BY BufAssumption
<1>3. TypeOK
  BY <1>1 DEF Init, TypeOK
<1> QED
  BY <1>1, <1>2, <1>3 DEF Init, BusInv, RingIsTail, ListedIsConnected

\* Every step keeps every variable in its type and every buffer in its bounds.
LEMMA NextType ==
    ASSUME TypeOK, BusInv, [Next]_vars
    PROVE  TypeOK' /\ RingIsTail' /\ \A c \in Clients : Len(ch'[c]) <= Capacity
<1>0. /\ BufSize \in Nat \ {0} /\ Capacity \in Nat /\ BufSize <= Capacity
      /\ ch \in [Clients -> Seq(Nat)] /\ seq \in Nat
      /\ \A c \in Clients : Len(ch[c]) <= Capacity /\ Len(ch[c]) \in Nat
  BY BufAssumption DEF TypeOK, BusInv
<1>1. CASE UNCHANGED vars
  BY <1>1 DEF vars, TypeOK, BusInv, RingIsTail
<1>2. ASSUME NEW n \in Nat, NEW S \in SUBSET Clients, \A c \in S : ~Full(c),
             ch' = [c \in Clients |-> IF c \in S THEN Append(ch[c], n) ELSE ch[c]]
      PROVE  ch' \in [Clients -> Seq(Nat)] /\ \A c \in Clients : Len(ch'[c]) <= Capacity
  <2> SUFFICES ASSUME NEW c \in Clients
               PROVE  ch'[c] \in Seq(Nat) /\ Len(ch'[c]) <= Capacity
    BY <1>2
  <2>1. CASE c \notin S
    BY <1>0, <1>2, <2>1
  <2>2. CASE c \in S
    <3>1. ch'[c] = Append(ch[c], n) /\ ~Full(c)
      BY <1>2, <2>2
    <3>2. Append(ch[c], n) \in Seq(Nat) /\ Len(Append(ch[c], n)) = Len(ch[c]) + 1
      BY <1>0, AppendType
    <3> QED
      BY <1>0, <3>1, <3>2 DEF Full
  <2> QED
    BY <2>1, <2>2
<1>3. CASE PublishDurable
  <2>1. buffer' \in Seq(Nat) /\ RingIsTail'
    BY <1>3, RingAfter DEF PublishDurable, BusInv
  <2>2. PICK taking \in SUBSET {c \in subs : ~Full(c)} :
           ch' = [c \in Clients |-> IF c \in taking THEN Append(ch[c], seq + 1) ELSE ch[c]]
    BY <1>3 DEF PublishDurable
  <2>3. taking \in SUBSET Clients /\ \A c \in taking : ~Full(c)
    BY <2>2 DEF TypeOK
  <2>4. seq + 1 \in Nat
    BY <1>0
  <2>5. ch' \in [Clients -> Seq(Nat)] /\ \A c \in Clients : Len(ch'[c]) <= Capacity
    BY <1>2, <2>2, <2>3, <2>4
  <2> QED
    BY <1>3, <2>1, <2>4, <2>5 DEF PublishDurable, TypeOK
<1>4. CASE PublishEphemeral
  <2> DEFINE S == {c \in subs : ~Full(c)}
  <2>1. S \in SUBSET Clients /\ \A c \in S : ~Full(c)
    BY DEF TypeOK
  <2>2. ch' = [c \in Clients |-> IF c \in S THEN Append(ch[c], 0) ELSE ch[c]]
    BY <1>4 DEF PublishEphemeral, Ephemeral
  <2>3. ch' \in [Clients -> Seq(Nat)] /\ \A c \in Clients : Len(ch'[c]) <= Capacity
    BY <1>2, <2>1, <2>2
  <2> QED
    BY <1>4, <2>3 DEF PublishEphemeral, TypeOK, BusInv, RingIsTail
<1>5. ASSUME NEW c \in Clients, Subscribe(c)
      PROVE  TypeOK' /\ RingIsTail' /\ \A d \in Clients : Len(ch'[d]) <= Capacity
  <2>1. ReplayFrom(c) \in Seq(Nat) /\ Len(ReplayFrom(c)) <= BufSize
    BY <1>5, Replay DEF Subscribe, BusInv
  <2>2. ch' = [ch EXCEPT ![c] = ReplayFrom(c)]
    BY <1>5 DEF Subscribe, Attach
  <2>3. ch' \in [Clients -> Seq(Nat)] /\ \A d \in Clients : Len(ch'[d]) <= Capacity
    BY <1>0, <2>1, <2>2
  <2> QED
    BY <1>5, <2>3 DEF Subscribe, Attach, TypeOK, BusInv, RingIsTail
<1>6. ASSUME NEW c \in Clients, SubscribeTooOld(c) \/ Leave(c)
      PROVE  TypeOK' /\ RingIsTail' /\ \A d \in Clients : Len(ch'[d]) <= Capacity
  <2>1. UNCHANGED <<seq, buffer, ch>>
    BY <1>6 DEF SubscribeTooOld, Leave
  <2>2. RingIsTail' /\ \A d \in Clients : Len(ch'[d]) <= Capacity
    BY <2>1 DEF BusInv, RingIsTail
  <2>3. CASE SubscribeTooOld(c)
    <3>1. cursor' \in [Clients -> Nat]
      BY <2>3 DEF SubscribeTooOld, TypeOK
    <3> QED
      BY <2>2, <2>3, <3>1 DEF SubscribeTooOld, TypeOK
  <2>4. CASE Leave(c)
    <3>1. conn' \in [Clients -> {"off", "on", "leaving"}] /\ done' \in SUBSET Clients
      BY <2>4 DEF Leave, TypeOK
    <3> QED
      BY <2>2, <2>4, <3>1 DEF Leave, TypeOK
  <2> QED
    BY <1>6, <2>2, <2>3, <2>4
<1>7. ASSUME NEW c \in Clients, Take(c)
      PROVE  TypeOK' /\ RingIsTail' /\ \A d \in Clients : Len(ch'[d]) <= Capacity
  <2>1. ch[c] # << >> /\ ch' = [ch EXCEPT ![c] = Tail(ch[c])]
    BY <1>0, <1>7 DEF Take
  <2>2. /\ Tail(ch[c]) \in Seq(Nat) /\ Len(Tail(ch[c])) = Len(ch[c]) - 1
        /\ Head(ch[c]) \in Nat
    BY <1>0, <2>1
  <2>3. ch' \in [Clients -> Seq(Nat)] /\ \A d \in Clients : Len(ch'[d]) <= Capacity
    BY <1>0, <2>1, <2>2
  <2> QED
    BY <1>7, <2>2, <2>3 DEF Take, TypeOK, BusInv, RingIsTail
<1>8. ASSUME NEW c \in Clients, Unlist(c)
      PROVE  TypeOK' /\ RingIsTail' /\ \A d \in Clients : Len(ch'[d]) <= Capacity
  <2>1. << >> \in Seq(Nat) /\ Len(<< >>) = 0
    OBVIOUS
  <2>2. ch' \in [Clients -> Seq(Nat)] /\ \A d \in Clients : Len(ch'[d]) <= Capacity
    BY <1>0, <1>8, <2>1 DEF Unlist
  <2> QED
    BY <1>8, <2>2 DEF Unlist, TypeOK, BusInv, RingIsTail
<1>9. CASE Restart
  <2>1. << >> \in Seq(Nat) /\ Len(<< >>) = 0
    OBVIOUS
  <2>2. ch' \in [Clients -> Seq(Nat)] /\ \A d \in Clients : Len(ch'[d]) <= Capacity
    BY <1>0, <1>9, <2>1 DEF Restart
  <2> QED
    BY <1>0, <1>9, <2>1, <2>2 DEF Restart, TypeOK, RingIsTail
<1> QED
  BY <1>1, <1>3, <1>4, <1>5, <1>6, <1>7, <1>8, <1>9 DEF Next

\* A connected client stays fed by whatever the bus and the others do.
LEMMA NextFed ==
    ASSUME TypeOK, BusInv, [Next]_vars, NEW c \in Clients, conn'[c] = "on"
    PROVE  Fed(c)'
<1>0. /\ seq \in Nat /\ pos \in [Clients -> Nat] /\ ch \in [Clients -> Seq(Nat)]
      /\ ch[c] \in Seq(Nat) /\ pos[c] \in Nat /\ subs \subseteq Clients
      /\ conn \in [Clients -> {"off", "on", "leaving"}] /\ cursor \in [Clients -> Nat]
  BY DEF TypeOK
<1>1. ASSUME conn[c] = "on" PROVE Fed(c)
  BY <1>1 DEF BusInv
<1>2. ASSUME conn[c] = "on", ch'[c] = ch[c], c \in subs', pos'[c] = pos[c], seq' = seq,
             c \notin done' => c \notin done
      PROVE  Fed(c)'
  BY <1>1, <1>2 DEF Fed
<1>3. CASE UNCHANGED vars
  BY <1>1, <1>2, <1>3 DEF vars, Fed
<1>4. CASE PublishDurable
  <2>1. Fed(c) /\ seq' = seq + 1 /\ pos' = pos /\ subs' = subs /\ conn' = conn
    BY <1>1, <1>4 DEF PublishDurable
  <2>2. PICK taking \in SUBSET {d \in subs : ~Full(d)} :
           /\ {d \in subs : ~Full(d)} \ done \subseteq taking
           /\ ch' = [d \in Clients |-> IF d \in taking THEN Append(ch[d], seq + 1) ELSE ch[d]]
    BY <1>4 DEF PublishDurable
  <2>3. CASE c \in taking
    <3>1. ch'[c] = Append(ch[c], seq + 1)
      BY <2>2, <2>3
    <3>2. Ordered(ch'[c]) /\ Durables(ch'[c]) = Durables(ch[c]) \cup {seq + 1}
      BY <1>0, <2>1, <3>1, DurableAppended DEF Fed
    <3>3. (pos[c] + 1)..(seq + 1) = ((pos[c] + 1)..seq) \cup {seq + 1}
      BY <1>0, <2>1 DEF Fed
    <3>4. c \notin done' => c \notin done
      BY <1>4 DEF PublishDurable
    <3>5. pos[c] <= seq + 1
      BY <1>0, <2>1 DEF Fed
    <3> QED
      BY <2>1, <3>2, <3>3, <3>4, <3>5 DEF Fed
  <2>4. CASE c \notin taking
    <3>1. ch'[c] = ch[c]
      BY <2>2, <2>4
    <3>2. c \in done'
      BY <1>4, <2>1, <2>2, <2>4 DEF PublishDurable, Fed
    <3>3. (pos[c] + 1)..seq \subseteq (pos[c] + 1)..(seq + 1) /\ pos[c] <= seq + 1
      BY <1>0, <2>1 DEF Fed
    <3> QED
      BY <2>1, <3>1, <3>2, <3>3 DEF Fed
  <2> QED
    BY <2>3, <2>4
<1>5. CASE PublishEphemeral
  <2>1. Fed(c) /\ UNCHANGED <<seq, pos, subs, done, conn>>
    BY <1>1, <1>5 DEF PublishEphemeral
  <2>2. ch'[c] = ch[c] \/ ch'[c] = Append(ch[c], Ephemeral)
    BY <1>5 DEF PublishEphemeral
  <2>3. Ordered(ch'[c]) /\ Durables(ch'[c]) = Durables(ch[c])
    BY <1>0, <2>1, <2>2, EphemeralAppended DEF Fed
  <2> QED
    BY <2>1, <2>3 DEF Fed
<1>6. ASSUME NEW d \in Clients, Subscribe(d) PROVE Fed(c)'
  <2>1. CASE c # d
    BY <1>0, <1>2, <1>1, <1>6, <2>1 DEF Subscribe, Attach, Fed
  <2>2. CASE c = d
    <3>1. /\ ch'[c] = ReplayFrom(c) /\ c \in subs' /\ seq' = seq
          /\ pos'[c] = IF Behind(c) THEN cursor[c] ELSE seq
      BY <1>0, <1>6, <2>2 DEF Subscribe, Attach
    <3>2. /\ Ordered(ch'[c])
          /\ Durables(ch'[c]) = (IF Behind(c) THEN cursor[c] + 1 ELSE seq + 1)..seq
      BY <1>6, <2>2, <3>1, Replay DEF Subscribe, BusInv
    <3>3. CASE Behind(c)
      <4>1. pos'[c] = cursor[c] /\ Durables(ch'[c]) = (cursor[c] + 1)..seq /\ cursor[c] <= seq
        BY <1>0, <3>1, <3>2, <3>3 DEF Behind
      <4> QED
        BY <3>1, <3>2, <4>1 DEF Fed
    <3>4. CASE ~Behind(c)
      <4>1. pos'[c] = seq /\ Durables(ch'[c]) = (seq + 1)..seq /\ seq <= seq
        BY <1>0, <3>1, <3>2, <3>4
      <4> QED
        BY <3>1, <3>2, <4>1 DEF Fed
    <3> QED
      BY <3>3, <3>4
  <2> QED
    BY <2>1, <2>2
<1>7. ASSUME NEW d \in Clients, SubscribeTooOld(d) \/ Leave(d) \/ Unlist(d) PROVE Fed(c)'
  BY <1>0, <1>1, <1>2, <1>7 DEF SubscribeTooOld, Leave, Unlist, Fed
<1>8. ASSUME NEW d \in Clients, Take(d) PROVE Fed(c)'
  <2>1. CASE c # d
    BY <1>0, <1>1, <1>2, <1>8, <2>1 DEF Take, Fed
  <2>2. CASE c = d
    <3>1. /\ Fed(c) /\ ch[c] # << >> /\ ch'[c] = Tail(ch[c])
          /\ UNCHANGED <<seq, subs, done>>
      BY <1>0, <1>1, <1>8, <2>2 DEF Take
    <3>2. /\ Ordered(ch'[c]) /\ Head(ch[c]) \in Nat
          /\ Head(ch[c]) = Ephemeral => Durables(ch'[c]) = Durables(ch[c])
          /\ Head(ch[c]) # Ephemeral =>
                /\ Head(ch[c]) \in Durables(ch[c])
                /\ \A k \in Durables(ch[c]) : Head(ch[c]) <= k
                /\ Durables(ch'[c]) = Durables(ch[c]) \ {Head(ch[c])}
      BY <1>0, <3>1, FrameTaken DEF Fed
    <3>3. CASE Head(ch[c]) = Ephemeral
      <4>1. pos' = pos
        BY <1>8, <2>2, <3>3 DEF Take
      <4> QED
        BY <3>1, <3>2, <3>3, <4>1 DEF Fed
    <3>4. CASE Head(ch[c]) # Ephemeral
      <4>1. pos'[c] = Head(ch[c])
        BY <1>0, <1>8, <2>2, <3>4 DEF Take
      <4>2. PICK h \in Nat : h = Head(ch[c])
        BY <3>2
      <4>3. h \in (pos[c] + 1)..seq /\ Durables(ch'[c]) = Durables(ch[c]) \ {h}
        BY <3>1, <3>2, <3>4, <4>2 DEF Fed
      <4>4. Durables(ch'[c]) \subseteq (h + 1)..seq
        BY <1>0, <3>1, <3>2, <3>4, <4>2, <4>3, SMTT(30) DEF Fed
      <4>5. c \notin done => h = pos[c] + 1
        <5> SUFFICES ASSUME c \notin done PROVE h = pos[c] + 1
          OBVIOUS
        <5>1. Durables(ch[c]) = (pos[c] + 1)..seq
          BY <3>1 DEF Fed
        <5>2. pos[c] + 1 \in (pos[c] + 1)..seq /\ pos[c] + 1 <= h
          BY <1>0, <4>2, <4>3
        <5>3. h <= pos[c] + 1
          BY <3>2, <3>4, <4>2, <5>1, <5>2
        <5> QED
          BY <1>0, <4>2, <5>2, <5>3
      <4>6. c \notin done => Durables(ch'[c]) = (h + 1)..seq
        <5> SUFFICES ASSUME c \notin done PROVE Durables(ch'[c]) = (h + 1)..seq
          OBVIOUS
        <5>1. Durables(ch[c]) = h..seq
          BY <3>1, <4>5 DEF Fed
        <5>2. (h + 1)..seq = (h..seq) \ {h}
          BY <1>0, <4>2
        <5> QED
          BY <4>3, <5>1, <5>2
      <4>7. h <= seq
        BY <1>0, <4>3
      <4> QED
        BY <3>1, <3>2, <4>1, <4>2, <4>4, <4>6, <4>7 DEF Fed
    <3> QED
      BY <3>3, <3>4
  <2> QED
    BY <2>1, <2>2
<1>9. CASE Restart
  BY <1>9 DEF Restart
<1> QED
  BY <1>3, <1>4, <1>5, <1>6, <1>7, <1>8, <1>9 DEF Next

\* BusInv is inductive (bus.go, subscribe.go).
LEMMA NextBus == ASSUME TypeOK, BusInv, [Next]_vars PROVE TypeOK' /\ BusInv'
<1>1. TypeOK' /\ RingIsTail' /\ \A c \in Clients : Len(ch'[c]) <= Capacity
  BY NextType
<1>2. \A c \in Clients : conn'[c] = "on" => Fed(c)'
  BY NextFed
<1>3. /\ conn \in [Clients -> {"off", "on", "leaving"}] /\ cursor \in [Clients -> Nat]
      /\ pos \in [Clients -> Nat] /\ subs \subseteq Clients
  BY DEF TypeOK
<1>4. ASSUME NEW c \in Clients, conn'[c] = "off" PROVE c \notin done'
  <2>1. CASE PublishDurable
    BY <1>4, <2>1 DEF PublishDurable, BusInv, ListedIsConnected
  <2>2. CASE ~PublishDurable
    BY <1>3, <1>4, <2>2 DEF Next, PublishEphemeral, Restart, Subscribe, Attach, SubscribeTooOld,
       Take, Leave, Unlist, vars, BusInv
  <2> QED
    BY <2>1, <2>2
<1>5. ASSUME NEW c \in Clients, c \notin stale'
      PROVE  cursor'[c] \in {0, pos'[c]} /\ pos'[c] <= seq'
  <2> DEFINE Known == cursor'[c] \in {0, pos'[c]} /\ pos'[c] <= seq'
  <2>0. seq \in Nat /\ pos[c] \in Nat /\ cursor[c] \in Nat
    BY <1>3 DEF TypeOK
  <2>1. ASSUME UNCHANGED <<cursor, pos, stale>>, seq' = seq \/ seq' = seq + 1 PROVE Known
    BY <1>5, <2>0, <2>1 DEF BusInv
  <2>2. ASSUME NEW d \in Clients, Subscribe(d) PROVE Known
    <3>1. cursor' = cursor /\ stale' = stale /\ seq' = seq /\ (c # d => pos'[c] = pos[c])
      BY <1>3, <2>2 DEF Subscribe, Attach
    <3>2. c = d => pos'[c] = IF Behind(c) THEN cursor[c] ELSE seq
      BY <1>3, <2>2 DEF Subscribe, Attach
    <3>3. cursor[c] \in {0, pos[c]} /\ pos[c] <= seq
      BY <1>5, <3>1 DEF BusInv
    <3>4. ~Behind(c) => cursor[c] = 0 \/ cursor[c] = seq
      BY <2>0, <3>3 DEF Behind
    <3>5. Behind(c) => cursor[c] <= seq
      BY <2>0 DEF Behind
    <3> QED
      BY <2>0, <3>1, <3>2, <3>3, <3>4, <3>5
  <2>3. ASSUME NEW d \in Clients, SubscribeTooOld(d) PROVE Known
    BY <1>3, <1>5, <2>3 DEF SubscribeTooOld, BusInv
  <2>4. ASSUME NEW d \in Clients, Take(d) PROVE Known
    <3>1. conn[d] = "on" /\ ch[d] # << >> /\ seq' = seq
      BY <2>4 DEF Take
    <3>2. CASE c = d /\ Head(ch[c]) # Ephemeral
      <4>1. cursor'[c] = Head(ch[c]) /\ pos'[c] = Head(ch[c])
        BY <1>3, <2>4, <3>2 DEF Take
      <4>2. Head(ch[c]) \in Durables(ch[c]) /\ Fed(c)
        BY <3>1, <3>2, FrameTaken DEF Fed, BusInv, TypeOK
      <4>3. Head(ch[c]) \in (pos[c] + 1)..seq
        BY <4>2 DEF Fed
      <4> QED
        BY <2>0, <3>1, <4>1, <4>3
    <3>3. CASE ~(c = d /\ Head(ch[c]) # Ephemeral)
      <4>1. cursor'[c] = cursor[c] /\ pos'[c] = pos[c] /\ c \notin stale
        BY <1>3, <1>5, <2>4, <3>3 DEF Take
      <4> QED
        BY <3>1, <4>1 DEF BusInv
    <3> QED
      BY <3>2, <3>3
  <2>5. ASSUME NEW d \in Clients, Leave(d) \/ Unlist(d) PROVE Known
    BY <2>1, <2>5 DEF Leave, Unlist
  <2>6. CASE PublishDurable \/ PublishEphemeral \/ UNCHANGED vars
    BY <2>1, <2>6 DEF PublishDurable, PublishEphemeral, vars
  <2>7. CASE Restart
    BY <1>5, <2>7 DEF Restart
  <2> QED
    BY <2>2, <2>3, <2>4, <2>5, <2>6, <2>7 DEF Next
<1>6. ListedIsConnected'
  BY <1>3 DEF Next, PublishDurable, PublishEphemeral, Restart, Subscribe, Attach,
     SubscribeTooOld, Take, Leave, Unlist, vars, BusInv, ListedIsConnected
<1> QED
  BY <1>1, <1>2, <1>4, <1>5, <1>6 DEF BusInv

\* Type correctness, for every instance (StreamBus TypeOK).
THEOREM TypeCorrect == Spec => []TypeOK
<1>1. Init => TypeOK /\ BusInv
  BY InitBus
<1>2. TypeOK /\ BusInv /\ [Next]_vars => TypeOK' /\ BusInv'
  BY NextBus
<1> QED
  BY <1>1, <1>2, PTL DEF Spec

\* Ring and channels stay within their sizes, so that a replay never overflows
\* (StreamBus BuffersBounded).
THEOREM Bounded == Spec => []BuffersBounded
<1>1. Init => TypeOK /\ BusInv
  BY InitBus
<1>2. TypeOK /\ BusInv /\ [Next]_vars => TypeOK' /\ BusInv'
  BY NextBus
<1>3. BusInv => BuffersBounded
  BY DEF BusInv, RingIsTail, BuffersBounded
<1> QED
  BY <1>1, <1>2, <1>3, PTL DEF Spec

\* The subscriptions listed are those of the connections (StreamBus
\* ListedIsConnected).
THEOREM Listed == Spec => []ListedIsConnected
<1>1. Init => TypeOK /\ BusInv
  BY InitBus
<1>2. TypeOK /\ BusInv /\ [Next]_vars => TypeOK' /\ BusInv'
  BY NextBus
<1>3. BusInv => ListedIsConnected
  BY DEF BusInv
<1> QED
  BY <1>1, <1>2, <1>3, PTL DEF Spec

-----------------------------------------------------------------------------
(***************************************************************************)
(* The bus implements the log.                                             *)
(***************************************************************************)
\* A step of the bus is a step of the log or none (bus.go, subscribe.go).
LEMMA StepRefines == ASSUME TypeOK, BusInv, [Next]_vars PROVE [Log!Next]_(Log!vars)
<1>0. /\ seq \in Nat /\ pos \in [Clients -> Nat] /\ ch \in [Clients -> Seq(Nat)]
      /\ conn \in [Clients -> {"off", "on", "leaving"}] /\ cursor \in [Clients -> Nat]
      /\ done \subseteq Clients /\ stale \subseteq Clients
  BY DEF TypeOK
<1>1. ASSUME UNCHANGED <<seq, pos, live, stale>> PROVE [Log!Next]_(Log!vars)
  BY <1>1 DEF Log!vars
<1>2. CASE UNCHANGED vars
  BY <1>1, <1>2 DEF vars, live
<1>3. CASE PublishDurable
  <2> DEFINE full == {c \in subs : Full(c)}
  <2>1. full \in SUBSET Clients
    BY DEF TypeOK
  <2>2. live' = [c \in Clients |-> IF c \in full /\ live[c] = "on" THEN "cut" ELSE live[c]]
    BY <1>3 DEF PublishDurable, live
  <2>3. Log!Publish(full)
    BY <1>3, <2>2 DEF PublishDurable, Log!Publish
  <2> QED
    BY <2>1, <2>3 DEF Log!Next
<1>4. CASE PublishEphemeral
  BY <1>1, <1>4 DEF PublishEphemeral, live
<1>5. CASE Restart
  <2>1. Log!Restart
    BY <1>5 DEF Restart, Log!Restart, live
  <2> QED
    BY <2>1 DEF Log!Next
<1>6. ASSUME NEW c \in Clients, Subscribe(c) PROVE [Log!Next]_(Log!vars)
  <2>1. live[c] = "off" /\ live' = [live EXCEPT ![c] = "on"] /\ UNCHANGED <<seq, stale>>
    <3>1. conn[c] = "off" /\ c \notin done /\ done' = done /\ conn' = [conn EXCEPT ![c] = "on"]
      BY <1>6 DEF Subscribe, Attach, BusInv
    <3> QED
      BY <1>0, <1>6, <3>1, ZenonT(60) DEF live, Subscribe, Attach
  <2>2. pos' = [pos EXCEPT ![c] = IF Behind(c) THEN cursor[c] ELSE seq]
    BY <1>6 DEF Subscribe, Attach
  <2>3. CASE ~Behind(c)
    <3>1. pos' = [pos EXCEPT ![c] = seq]
      BY <2>2, <2>3
    <3> QED
      BY <2>1, <3>1 DEF Log!Next, Log!Attach
  <2>4. CASE Behind(c) /\ c \notin stale
    <3>1. cursor[c] = pos[c]
      BY <2>4, <1>0 DEF BusInv, Behind
    <3>2. pos' = pos
      BY <1>0, <2>2, <2>4, <3>1
    <3> QED
      BY <2>1, <3>2 DEF Log!Next, Log!Attach
  <2>5. CASE Behind(c) /\ c \in stale
    <3>1. cursor[c] \in 0..seq /\ pos' = [pos EXCEPT ![c] = cursor[c]]
      BY <1>0, <2>2, <2>5 DEF Behind
    <3> QED
      BY <2>1, <2>5, <3>1 DEF Log!Next, Log!Attach
  <2> QED
    BY <2>3, <2>4, <2>5
<1>7. ASSUME NEW c \in Clients, SubscribeTooOld(c) PROVE [Log!Next]_(Log!vars)
  BY <1>1, <1>7 DEF SubscribeTooOld, live
<1>8. ASSUME NEW c \in Clients, Take(c) PROVE [Log!Next]_(Log!vars)
  <2>1. /\ conn[c] = "on" /\ ch[c] # << >> /\ live' = live /\ seq' = seq
    BY <1>8 DEF Take, live
  <2>2. Fed(c)
    BY <2>1 DEF BusInv
  <2>3. CASE Head(ch[c]) = Ephemeral
    BY <1>1, <1>8, <2>1, <2>3 DEF Take
  <2>4. CASE Head(ch[c]) # Ephemeral
    <3>1. PICK h : h = Head(ch[c])
      OBVIOUS
    <3>2. h \in Durables(ch[c]) /\ \A k \in Durables(ch[c]) : h <= k
      BY <1>0, <2>1, <2>2, <2>4, <3>1, FrameTaken DEF Fed
    <3>3. h \in (pos[c] + 1)..seq
      BY <2>2, <3>2 DEF Fed
    <3>4. pos' = [pos EXCEPT ![c] = h] /\ stale' = stale \ {c}
      BY <1>8, <2>4, <3>1 DEF Take
    <3>5. CASE c \in done
      <4>1. live[c] = "cut"
        BY <2>1, <3>5 DEF live
      <4>2. Log!ReceiveLate(c)
        BY <2>1, <3>3, <3>4, <4>1 DEF Log!ReceiveLate
      <4> QED
        BY <4>2 DEF Log!Next
    <3>6. CASE c \notin done
      <4>1. live[c] = "on"
        BY <2>1, <3>6 DEF live
      <4>2. Durables(ch[c]) = (pos[c] + 1)..seq
        BY <2>2, <3>6 DEF Fed
      <4>3. pos[c] + 1 \in (pos[c] + 1)..seq
        BY <1>0, <3>3
      <4>4. h = pos[c] + 1 /\ pos[c] < seq
        BY <1>0, <3>2, <3>3, <4>2, <4>3
      <4>5. Log!Receive(c)
        BY <1>0, <2>1, <3>4, <4>1, <4>4 DEF Log!Receive
      <4> QED
        BY <4>5 DEF Log!Next
    <3> QED
      BY <3>5, <3>6
  <2> QED
    BY <2>3, <2>4
<1>9. ASSUME NEW c \in Clients, Leave(c) PROVE [Log!Next]_(Log!vars)
  <2>1. live[c] # "off" /\ live' = [live EXCEPT ![c] = "off"] /\ UNCHANGED <<seq, pos, stale>>
    BY <1>0, <1>9 DEF Leave, live
  <2> QED
    BY <2>1 DEF Log!Next, Log!Detach
<1>10. ASSUME NEW c \in Clients, Unlist(c) PROVE [Log!Next]_(Log!vars)
  <2>1. live' = live
    BY <1>0, <1>10 DEF Unlist, live
  <2> QED
    BY <1>1, <1>10, <2>1 DEF Unlist
<1> QED
  BY <1>2, <1>3, <1>4, <1>5, <1>6, <1>7, <1>8, <1>9, <1>10 DEF Next

\* The bus implements the log: until it is cut, a subscriber gets every durable
\* frame after its cursor, once and in order (StreamBus RefinesLog).
THEOREM Refinement == Spec => RefinesLog
<1>1. Init => TypeOK /\ BusInv
  BY InitBus
<1>2. TypeOK /\ BusInv /\ [Next]_vars => TypeOK' /\ BusInv'
  BY NextBus
<1>3. Init => Log!Init
  BY DEF Init, Log!Init, live
<1>4. TypeOK /\ BusInv /\ [Next]_vars => [Log!Next]_(Log!vars)
  BY StepRefines
<1> QED
  BY <1>1, <1>2, <1>3, <1>4, PTL DEF Spec, RefinesLog, Log!Spec
=============================================================================
