--------------------------- MODULE TcpChannelProofs -------------------------
(***************************************************************************)
(* Proofs about TcpChannel for messages of any sizes, buffers of any       *)
(* initial size, any number of calls and connections, and any cuts.        *)
(***************************************************************************)
EXTENDS TcpChannel, SequenceTheorems, WellFoundedInduction, TLAPS

Msg == [conn : Int, id : Int, size : Nat, reply : BOOLEAN]
Byte == [msg : Msg, at : Int]
Buf == [data : Seq(Byte), offset : Nat, bytes : Nat]

\* What is behind the offset, and what will come behind that.
Live(b) == SubSeq(b.data, b.offset + 1, b.offset + b.bytes)
Unread(e) == (Live(buf[e]) \o wire[e]) \o out[Peer(e)]

\* The messages ms, one behind the other, are the bytes s: those of the first i
\* are at[i] bytes.
Layout(ms, s, at) ==
  /\ at \in [0..Len(ms) -> 0..Len(s)] /\ at[0] = 0 /\ at[Len(ms)] = Len(s)
  /\ \A i, j \in 0..Len(ms) : i <= j => at[i] <= at[j]
  /\ \A i \in 1..Len(ms) :
       /\ ms[i].size \in Packet /\ at[i] = at[i - 1] + ms[i].size
       /\ \A j \in 1..ms[i].size : s[at[i - 1] + j] = [msg |-> ms[i], at |-> j]

Lined(ms, s) == \E at : Layout(ms, s, at)

\* What has been sent to e is what e has handled and then the messages whose
\* bytes are still unread.
Ordered(e) == \E p \in Seq(Msg) : sent[e] = handled[e] \o p /\ Lined(p, Unread(e))

\* The same for when the message m at the head of what is unread is handled.
After(e, m) ==
  \E p \in Seq(Msg) :
    /\ sent[e] = Append(handled[e], m) \o p
    /\ Lined(p, SubSeq(Unread(e), m.size + 1, Len(Unread(e))))

\* A buffer is never without room for a byte, and starts anew when it is empty.
Fit(b) ==
  /\ b.offset + b.bytes <= Len(b.data) /\ Len(b.data) > 0
  /\ b.bytes = 0 => b.offset = 0

Small(b) == Len(b.data) <= Initial \/ \E n \in Packet : Len(b.data) < 2 * n

Typed ==
  /\ conn \in Nat \ {0}
  /\ pc \in [End -> {"idle", "write", "read", "parse", "closed"}]
  /\ buf \in [End -> Buf]
  /\ wire \in [End -> Seq(Byte)] /\ out \in [End -> Seq(Byte)]
  /\ sent \in [End -> Seq(Msg)] /\ handled \in [End -> Seq(Msg)]

RoomInv(e) ==
  /\ Fit(buf[e])
  /\ pc[e] = "read" => buf[e].offset = 0 /\ buf[e].bytes < Len(buf[e].data)

NewInv(e) ==
  /\ Ordered(e)
  /\ pc[e] \notin {"write", "closed"} => out[e] = <<>>
  /\ Small(buf[e])

IInv == Typed /\ \A e \in End : RoomInv(e) /\ (New => NewInv(e))

-----------------------------------------------------------------------------
(* Facts about sequences of bytes. *)

\* A sequence may be cut in two.
LEMMA Cut ==
  ASSUME NEW s \in Seq(Byte), NEW n \in 0..Len(s)
  PROVE  /\ SubSeq(s, 1, n) \in Seq(Byte) /\ Len(SubSeq(s, 1, n)) = n
         /\ SubSeq(s, n + 1, Len(s)) \in Seq(Byte) /\ Len(SubSeq(s, n + 1, Len(s))) = Len(s) - n
         /\ \A i \in 1..n : SubSeq(s, 1, n)[i] = s[i]
         /\ \A i \in 1..Len(s) - n : SubSeq(s, n + 1, Len(s))[i] = s[n + i]
OBVIOUS

LEMMA Joined ==
  ASSUME NEW a \in Seq(Byte), NEW b \in Seq(Byte)
  PROVE  /\ a \o b \in Seq(Byte) /\ Len(a \o b) = Len(a) + Len(b)
         /\ \A i \in 1..Len(a) : (a \o b)[i] = a[i]
         /\ \A i \in 1..Len(b) : (a \o b)[Len(a) + i] = b[i]
OBVIOUS

LEMMA Assoc ==
  ASSUME NEW a \in Seq(Byte), NEW b \in Seq(Byte), NEW c \in Seq(Byte)
  PROVE  (a \o b) \o c = a \o (b \o c)
OBVIOUS

\* The two pieces of a sequence that is cut.
LEMMA Halves ==
  ASSUME NEW s \in Seq(Byte), NEW n \in 0..Len(s)
  PROVE  SubSeq(s, 1, n) \o SubSeq(s, n + 1, Len(s)) = s
<1>1. 1 \in 1..Len(s) + 1 /\ n \in 1 - 1..Len(s) /\ Len(s) \in n..Len(s)  OBVIOUS
<1>2. SubSeq(s, 1, n) \o SubSeq(s, n + 1, Len(s)) = SubSeq(s, 1, Len(s))
  BY <1>1, ConcatAdjacentSubSeq
<1> QED  BY <1>2, SubSeqFull

\* Bytes that go from the front of one part to the end of the part before it.
LEMMA Moved ==
  ASSUME NEW a \in Seq(Byte), NEW b \in Seq(Byte), NEW n \in 0..Len(b)
  PROVE  (a \o SubSeq(b, 1, n)) \o SubSeq(b, n + 1, Len(b)) = a \o b
<1>1. SubSeq(b, 1, n) \in Seq(Byte) /\ SubSeq(b, n + 1, Len(b)) \in Seq(Byte)  BY Cut
<1>2. (a \o SubSeq(b, 1, n)) \o SubSeq(b, n + 1, Len(b))
        = a \o (SubSeq(b, 1, n) \o SubSeq(b, n + 1, Len(b)))
  BY <1>1, Assoc
<1> QED  BY <1>2, Halves

\* What is behind the first part.
LEMMA Behind ==
  ASSUME NEW p \in Seq(Byte), NEW t \in Seq(Byte)
  PROVE  SubSeq(p \o t, Len(p) + 1, Len(p \o t)) = t
<1>1. Len(p \o t) = Len(p) + Len(t) /\ Len(p) \in Nat /\ Len(t) \in Nat  BY Joined
<1>2. CASE t = <<>>
  <2>1. Len(t) = 0  BY <1>2
  <2> QED  BY <1>1, <1>2, <2>1, SubSeqEmpty
<1>3. CASE t # <<>>
  <2>1. Len(t) > 0  BY <1>3
  <2>2. SubSeq(p \o t, Len(p) + 1, Len(p) + Len(t)) = SubSeq(t, Len(p) + 1 - Len(p), Len(p) + Len(t) - Len(p))
    BY <1>1, <2>1, SubSeqOfConcat2
  <2>3. Len(p) + 1 - Len(p) = 1 /\ Len(p) + Len(t) - Len(p) = Len(t)  BY <1>1
  <2> QED  BY <1>1, <2>2, <2>3, SubSeqFull
<1> QED  BY <1>2, <1>3

\* Bytes that are taken away from the front.
LEMMA Dropped ==
  ASSUME NEW a \in Seq(Byte), NEW b \in Seq(Byte), NEW n \in 0..Len(a)
  PROVE  SubSeq(a, n + 1, Len(a)) \o b = SubSeq(a \o b, n + 1, Len(a \o b))
<1>1. PICK p \in Seq(Byte), r \in Seq(Byte) :
        p = SubSeq(a, 1, n) /\ r = SubSeq(a, n + 1, Len(a)) /\ Len(p) = n
  BY Cut
<1>2. p \o r = a  BY <1>1, Halves
<1>3. r \o b \in Seq(Byte)  BY Joined
<1>4. a \o b = p \o (r \o b)  BY <1>2, Assoc
<1>5. SubSeq(p \o (r \o b), Len(p) + 1, Len(p \o (r \o b))) = r \o b  BY <1>3, Behind
<1> QED  BY <1>1, <1>4, <1>5

LEMMA NothingBehind ==
  ASSUME NEW a \in Seq(Byte)
  PROVE  a \o <<>> = a
OBVIOUS

\* The bytes of a message.
LEMMA BytesOf ==
  ASSUME NEW m \in Msg
  PROVE  /\ Bytes(m) \in Seq(Byte) /\ Len(Bytes(m)) = m.size
         /\ \A i \in 1..m.size : Bytes(m)[i] = [msg |-> m, at |-> i]
<1>1. m.size \in Nat  BY DEF Msg
<1>2. \A i \in 1..m.size : [msg |-> m, at |-> i] \in Byte  BY <1>1 DEF Byte
<1> QED  BY <1>1, <1>2 DEF Bytes

-----------------------------------------------------------------------------
(* Messages in a line. *)

\* A message at the front of the second part, or behind it.
LEMMA AppendBetween ==
  ASSUME NEW h \in Seq(Msg), NEW m \in Msg, NEW q \in Seq(Msg)
  PROVE  h \o (<<m>> \o q) = Append(h, m) \o q
<1>1. <<m>> \in Seq(Msg)  OBVIOUS
<1>2. (h \o <<m>>) \o q = h \o (<<m>> \o q)  BY <1>1, ConcatAssociative
<1> QED  BY <1>2, AppendIsConcat

LEMMA AppendBehind ==
  ASSUME NEW h \in Seq(Msg), NEW p \in Seq(Msg), NEW m \in Msg
  PROVE  Append(h \o p, m) = h \o Append(p, m) /\ Append(p, m) \in Seq(Msg)
<1>1. <<m>> \in Seq(Msg) /\ h \o p \in Seq(Msg)  OBVIOUS
<1>2. (h \o p) \o <<m>> = h \o (p \o <<m>>)  BY <1>1, ConcatAssociative
<1>3. Append(h \o p, m) = (h \o p) \o <<m>> /\ Append(p, m) = p \o <<m>>  BY <1>1, AppendIsConcat
<1>4. Append(p, m) \in Seq(Msg)  OBVIOUS
<1> QED  BY <1>2, <1>3, <1>4

\* No message, no byte.
LEMMA LinedNothing == Lined(<<>>, <<>>)
<1>1. PICK at : at = [i \in 0..0 |-> 0]  OBVIOUS
<1>2. Len(<<>>) = 0  OBVIOUS
<1>3. at \in [0..0 -> 0..0] /\ at[0] = 0  BY <1>1
<1>4. Layout(<<>>, <<>>, at)  BY <1>2, <1>3 DEF Layout
<1> QED  BY <1>4 DEF Lined

\* A message more.
LEMMA LinedGrows ==
  ASSUME NEW s \in Seq(Byte), NEW ms \in Seq(Msg), Lined(ms, s), NEW m \in Msg, m.size \in Packet
  PROVE  Lined(Append(ms, m), s \o Bytes(m))
<1>1. PICK at : Layout(ms, s, at)  BY DEF Lined
<1>k. PICK k \in Nat, n \in Nat, l \in Nat : k = Len(ms) /\ n = m.size /\ l = Len(s)  BY DEF Msg
<1>b. PICK b \in Seq(Byte) :
        /\ b = Bytes(m) /\ Len(b) = n
        /\ \A i \in 1..n : b[i] = [msg |-> m, at |-> i]
  BY <1>k, BytesOf
<1>v. PICK u : u = s \o b  OBVIOUS
<1>u. /\ u \in Seq(Byte) /\ Len(u) = l + n
      /\ \A i \in 1..l : u[i] = s[i]
      /\ \A i \in 1..n : u[l + i] = b[i]
  <2>1. /\ u \in Seq(Byte) /\ Len(u) = Len(s) + Len(b)
        /\ \A i \in 1..Len(s) : u[i] = s[i]
        /\ \A i \in 1..Len(b) : u[Len(s) + i] = b[i]
    BY <1>v, Joined
  <2> QED  BY <1>k, <1>b, <2>1
<1>a. PICK p : p = Append(ms, m)  OBVIOUS
<1>p. /\ p \in Seq(Msg) /\ Len(p) = k + 1 /\ p[k + 1] = m
      /\ \A i \in 1..k : p[i] = ms[i]
  BY <1>a, <1>k
<1>z. ASSUME NEW i \in 1..k PROVE ms[i] \in Msg /\ ms[i].size \in Nat
  <2>1. ms[i] \in Msg  BY <1>k, ElementOfSeq
  <2> QED  BY <2>1 DEF Msg
<1>c. PICK c : c = [i \in 0..(k + 1) |-> IF i <= k THEN at[i] ELSE l + n]  OBVIOUS
<1>2. /\ \A i \in 0..k : at[i] \in 0..l
      /\ at[0] = 0 /\ at[k] = l
      /\ \A i, j \in 0..k : i <= j => at[i] <= at[j]
      /\ \A i \in 1..k :
           /\ ms[i].size \in Packet /\ at[i] = at[i - 1] + ms[i].size
           /\ \A j \in 1..ms[i].size : s[at[i - 1] + j] = [msg |-> ms[i], at |-> j]
  BY <1>1, <1>k DEF Layout
<1>3. c[k + 1] = l + n /\ \A i \in 0..k : c[i] = at[i]  BY <1>c
<1>4. c \in [0..(k + 1) -> 0..(l + n)]
  <2>1. \A i \in 0..(k + 1) : (IF i <= k THEN at[i] ELSE l + n) \in 0..(l + n)  BY <1>2
  <2> QED  BY <1>c, <2>1
<1>5. ASSUME NEW i \in 1..(k + 1)
      PROVE  /\ p[i].size \in Packet /\ c[i] = c[i - 1] + p[i].size
             /\ \A j \in 1..p[i].size : u[c[i - 1] + j] = [msg |-> p[i], at |-> j]
  <2>1. CASE i \in 1..k
    <3>1. p[i] = ms[i] /\ c[i] = at[i] /\ c[i - 1] = at[i - 1]  BY <1>p, <1>3, <2>1
    <3>2. p[i].size \in Packet /\ c[i] = c[i - 1] + p[i].size  BY <1>2, <2>1, <3>1
    <3>3. ASSUME NEW j \in 1..p[i].size PROVE u[c[i - 1] + j] = [msg |-> p[i], at |-> j]
      <4>0. p[i].size \in Nat  BY <1>z, <2>1, <3>1
      <4>1. at[i - 1] \in 0..l /\ at[i] \in 0..l /\ at[i] = at[i - 1] + p[i].size
        BY <1>2, <2>1, <3>1
      <4>2. at[i - 1] + j \in 1..l
        <5>1. PICK x, z : x = at[i - 1] /\ z = p[i].size  OBVIOUS
        <5>2. x \in Nat /\ z \in Nat /\ x + z \in 0..l /\ j \in 1..z  BY <4>0, <4>1, <5>1
        <5>3. x + j \in 1..l  BY <5>2
        <5> QED  BY <5>1, <5>3
      <4>3. s[at[i - 1] + j] = [msg |-> ms[i], at |-> j]  BY <1>2, <2>1, <3>1, <3>3
      <4> QED  BY <1>u, <3>1, <4>2, <4>3
    <3> QED  BY <3>2, <3>3
  <2>2. CASE i = k + 1
    <3>1. p[i] = m /\ c[i] = l + n /\ c[i - 1] = l  BY <1>p, <1>2, <1>3, <2>2
    <3>2. p[i].size \in Packet /\ c[i] = c[i - 1] + p[i].size  BY <1>k, <3>1
    <3>3. \A j \in 1..p[i].size : u[c[i - 1] + j] = [msg |-> p[i], at |-> j]
      <4> TAKE j \in 1..p[i].size
      <4>1. j \in 1..n /\ c[i - 1] + j = l + j  BY <1>k, <3>1
      <4>2. u[l + j] = b[j] /\ b[j] = [msg |-> m, at |-> j]  BY <1>u, <1>b, <4>1
      <4> QED  BY <3>1, <4>1, <4>2
    <3> QED  BY <3>2, <3>3
  <2> QED  BY <2>1, <2>2
<1>o. ASSUME NEW i \in 0..(k + 1), NEW j \in 0..(k + 1), i <= j PROVE c[i] <= c[j]
  <2>1. CASE j \in 0..k
    <3>1. i \in 0..k  BY <1>o, <2>1
    <3>2. at[i] <= at[j]  BY <1>2, <1>o, <2>1, <3>1
    <3>3. c[i] = at[i] /\ c[j] = at[j]  BY <1>3, <2>1, <3>1
    <3> QED  BY <3>2, <3>3
  <2>2. CASE j = k + 1
    <3>1. c[i] \in 0..(l + n)  BY <1>4
    <3> QED  BY <1>3, <2>2, <3>1
  <2> QED  BY <2>1, <2>2
<1>6. Layout(p, u, c)
  <2>1. c[0] = 0 /\ c[Len(p)] = Len(u)  BY <1>p, <1>u, <1>2, <1>3
  <2> QED  BY <1>p, <1>u, <1>4, <1>5, <1>o, <2>1 DEF Layout
<1> QED  BY <1>b, <1>a, <1>v, <1>6 DEF Lined

\* What is left of two offsets behind the first n bytes.
LEMMA Shifted ==
  ASSUME NEW l \in Nat, NEW n \in 0..l, NEW x \in n..l, NEW z \in Nat, x + z \in n..l
  PROVE  /\ (x + z) - n = (x - n) + z
         /\ \A j \in 1..z : (x - n) + j \in 1..l - n /\ n + ((x - n) + j) = x + j
OBVIOUS

\* The first message is whole, and what is behind it are the others.
LEMMA LinedHead ==
  ASSUME NEW s \in Seq(Byte), NEW ms \in Seq(Msg), Lined(ms, s), Len(s) > 0, Packet \subseteq Nat
  PROVE  \E m \in Msg, q \in Seq(Msg) :
           /\ ms = <<m>> \o q
           /\ m.size \in Packet /\ m.size \in 0..Len(s)
           /\ \A j \in 1..m.size : s[j] = [msg |-> m, at |-> j]
           /\ Lined(q, SubSeq(s, m.size + 1, Len(s)))
<1>1. PICK at : Layout(ms, s, at)  BY DEF Lined
<1>k. PICK k \in Nat, l \in Nat : k = Len(ms) /\ l = Len(s)  OBVIOUS
<1>2. /\ \A i \in 0..k : at[i] \in 0..l
      /\ at[0] = 0 /\ at[k] = l
      /\ \A i, j \in 0..k : i <= j => at[i] <= at[j]
      /\ \A i \in 1..k :
           /\ ms[i].size \in Packet /\ at[i] = at[i - 1] + ms[i].size
           /\ \A j \in 1..ms[i].size : s[at[i - 1] + j] = [msg |-> ms[i], at |-> j]
  BY <1>1, <1>k DEF Layout
<1>3. k > 0  BY <1>2, <1>k
<1>m. PICK m \in Msg : m = ms[1]  BY <1>3, <1>k
<1>t. PICK q : q = Tail(ms)  OBVIOUS
<1>q. q \in Seq(Msg) /\ Len(q) = k - 1 /\ \A i \in 1..(k - 1) : q[i] = ms[i + 1]
  BY <1>t, <1>3, <1>k
<1>z. ASSUME NEW i \in 1..k PROVE ms[i] \in Msg /\ ms[i].size \in Nat
  <2>1. ms[i] \in Msg  BY <1>k, ElementOfSeq
  <2> QED  BY <2>1 DEF Msg
<1>4. ms = <<m>> \o q  BY <1>m, <1>t, <1>3, <1>k
<1>5. at[1] = m.size /\ m.size \in Packet /\ m.size \in 0..l
      /\ \A j \in 1..m.size : s[j] = [msg |-> m, at |-> j]
  <2>1. /\ ms[1].size \in Packet /\ at[1] = at[0] + ms[1].size /\ at[1] \in 0..l
        /\ \A j \in 1..ms[1].size : s[at[0] + j] = [msg |-> ms[1], at |-> j]
    <3>1. 1 \in 1..k /\ 1 \in 0..k /\ 1 - 1 = 0  BY <1>3
    <3> QED  BY <1>2, <3>1
  <2>2. m.size \in Nat /\ at[1] = m.size  BY <1>m, <1>z, <1>2, <1>3, <2>1
  <2>3. m.size \in Packet /\ m.size \in 0..l  BY <1>m, <2>1, <2>2
  <2>4. \A j \in 1..m.size : s[j] = [msg |-> m, at |-> j]
    <3>1. at[0] = 0  BY <1>2
    <3> QED  BY <1>m, <2>1, <3>1
  <2> QED  BY <2>2, <2>3, <2>4
<1>n. PICK n \in 0..l : n = m.size  BY <1>5
<1>u. PICK u \in Seq(Byte) :
        /\ u = SubSeq(s, n + 1, Len(s)) /\ Len(u) = l - n
        /\ \A i \in 1..l - n : u[i] = s[n + i]
  BY <1>n, <1>k, Cut
<1>c. PICK c : c = [i \in 0..(k - 1) |-> at[i + 1] - n]  OBVIOUS
<1>6. ASSUME NEW i \in 0..(k - 1) PROVE c[i] = at[i + 1] - n /\ c[i] \in 0..(l - n) /\ at[i + 1] \in n..l
  <2>1. i + 1 \in 1..k /\ i + 1 \in 0..k  BY <1>3
  <2>2. at[i + 1] \in 0..l /\ at[1] <= at[i + 1]
    <3>1. 1 \in 0..k /\ 1 <= i + 1  BY <1>3
    <3> QED  BY <1>2, <2>1, <3>1
  <2>3. PICK x \in 0..l : x = at[i + 1] /\ n <= x  BY <1>5, <1>n, <2>2
  <2>4. c[i] = x - n  BY <1>c, <2>3
  <2>5. x - n \in 0..(l - n) /\ x \in n..l  BY <1>n, <2>3
  <2> QED  BY <2>3, <2>4, <2>5
<1>7. ASSUME NEW i \in 1..(k - 1)
      PROVE  /\ q[i].size \in Packet /\ c[i] = c[i - 1] + q[i].size
             /\ \A j \in 1..q[i].size : u[c[i - 1] + j] = [msg |-> q[i], at |-> j]
  <2>1. i + 1 \in 1..k /\ (i + 1) - 1 = i /\ i - 1 \in 0..(k - 1) /\ i \in 0..(k - 1)
        /\ (i - 1) + 1 = i
    BY <1>3
  <2>2. /\ ms[i + 1].size \in Packet /\ at[i + 1] = at[i] + ms[i + 1].size
        /\ \A j \in 1..ms[i + 1].size : s[at[i] + j] = [msg |-> ms[i + 1], at |-> j]
    BY <1>2, <2>1
  <2>3. q[i] = ms[i + 1]  BY <1>q
  <2>4. c[i] = at[i + 1] - n /\ c[i - 1] = at[i] - n /\ at[i] \in n..l /\ at[i + 1] \in n..l
    BY <1>6, <2>1
  <2>5. q[i].size \in Nat /\ q[i].size \in Packet  BY <1>z, <2>1, <2>2, <2>3
  <2>a. PICK x \in n..l, y \in n..l, z \in Nat :
          /\ x = at[i] /\ y = at[i + 1] /\ z = q[i].size /\ y = x + z
    BY <2>2, <2>3, <2>4, <2>5
  <2>6. c[i] = c[i - 1] + q[i].size
    <3>1. c[i] = (x + z) - n /\ c[i - 1] = x - n /\ x + z \in n..l  BY <2>4, <2>a
    <3>2. (x + z) - n = (x - n) + z  BY <3>1, Shifted
    <3> QED  BY <2>a, <3>1, <3>2
  <2>8. ASSUME NEW j \in 1..q[i].size PROVE u[c[i - 1] + j] = [msg |-> q[i], at |-> j]
    <3>0. j \in 1..z  BY <2>a
    <3>1. (at[i] - n) + j \in 1..l - n /\ n + ((at[i] - n) + j) = at[i] + j
      <4>1. (x - n) + j \in 1..l - n /\ n + ((x - n) + j) = x + j  BY <3>0, <2>a, Shifted
      <4> QED  BY <2>a, <4>1
    <3>2. u[(at[i] - n) + j] = s[at[i] + j]  BY <1>u, <3>1
    <3>3. s[at[i] + j] = [msg |-> q[i], at |-> j]  BY <2>2, <2>3, <2>8
    <3> QED  BY <2>4, <3>2, <3>3
  <2> QED  BY <2>5, <2>6, <2>8
<1>o. ASSUME NEW i \in 0..(k - 1), NEW j \in 0..(k - 1), i <= j PROVE c[i] <= c[j]
  <2>1. i + 1 \in 0..k /\ j + 1 \in 0..k /\ i + 1 <= j + 1  BY <1>o
  <2>2. at[i + 1] <= at[j + 1]  BY <1>2, <2>1
  <2>3. at[i + 1] \in n..l /\ at[j + 1] \in n..l /\ c[i] = at[i + 1] - n /\ c[j] = at[j + 1] - n  BY <1>6
  <2> QED  BY <2>2, <2>3
<1>8. Layout(q, u, c)
  <2>1. c \in [0..(k - 1) -> 0..(l - n)]  BY <1>c, <1>6
  <2>2. c[0] = 0
    <3>1. 0 \in 0..(k - 1) /\ 0 + 1 = 1  BY <1>3
    <3>2. c[0] = at[1] - n  BY <1>6, <3>1
    <3> QED  BY <1>5, <1>n, <3>2
  <2>3. c[k - 1] = l - n
    <3>1. k - 1 \in 0..(k - 1) /\ (k - 1) + 1 = k  BY <1>3
    <3> QED  BY <1>2, <1>6, <3>1
  <2> QED  BY <1>q, <1>u, <1>7, <1>o, <2>1, <2>2, <2>3 DEF Layout
<1>9. Lined(q, SubSeq(s, m.size + 1, Len(s)))  BY <1>n, <1>u, <1>8 DEF Lined
<1>10. m.size \in Packet /\ m.size \in 0..Len(s) /\ q \in Seq(Msg)  BY <1>5, <1>k, <1>q
<1> QED  BY <1>4, <1>5, <1>9, <1>10, Zenon

-----------------------------------------------------------------------------
(* Buffers. *)

\* A piece of a sequence.
LEMMA Piece ==
  ASSUME NEW s \in Seq(Byte), NEW a \in Nat, NEW n \in Nat, a + n <= Len(s)
  PROVE  /\ SubSeq(s, a + 1, a + n) \in Seq(Byte) /\ Len(SubSeq(s, a + 1, a + n)) = n
         /\ \A i \in 1..n : SubSeq(s, a + 1, a + n)[i] = s[a + i]
<1>p. PICK lo \in Int, hi \in Int : lo = a + 1 /\ hi = a + n  OBVIOUS
<1>u. PICK u : u = SubSeq(s, lo, hi)  OBVIOUS
<1>1. \A i \in lo..hi : s[i] \in Byte
  <2> TAKE i \in lo..hi
  <2>1. i \in 1..Len(s)  BY <1>p
  <2> QED  BY <2>1, ElementOfSeq
<1>x. /\ SubSeq(s, lo, hi) \in Seq(Byte)
      /\ Len(SubSeq(s, lo, hi)) = IF lo <= hi THEN hi - lo + 1 ELSE 0
      /\ \A i \in 1..hi - lo + 1 : SubSeq(s, lo, hi)[i] = s[lo + i - 1]
  <2>1. lo \in Int /\ hi \in Int  BY <1>p
  <2> QED  BY <1>1, <2>1, SubSeqProperties
<1>2. u \in Seq(Byte) /\ Len(u) = IF lo <= hi THEN hi - lo + 1 ELSE 0
  BY <1>x, <1>u
<1>3. \A i \in 1..hi - lo + 1 : u[i] = s[lo + i - 1]  BY <1>x, <1>u
<1>4. Len(u) = n  BY <1>2, <1>p
<1>5. ASSUME NEW i \in 1..n PROVE u[i] = s[a + i]
  <2>1. i \in 1..hi - lo + 1 /\ lo + i - 1 = a + i  BY <1>p
  <2> QED  BY <1>3, <2>1
<1> QED  BY <1>p, <1>u, <1>2, <1>4, <1>5

\* What the buffer's live bytes are.
LEMMA LiveBytes ==
  ASSUME NEW b \in Buf, b.offset + b.bytes <= Len(b.data)
  PROVE  /\ Live(b) \in Seq(Byte) /\ Len(Live(b)) = b.bytes
         /\ \A i \in 1..b.bytes : Live(b)[i] = b.data[b.offset + i]
<1>1. b.data \in Seq(Byte) /\ b.offset \in Nat /\ b.bytes \in Nat  BY DEF Buf
<1> QED  BY <1>1, Piece DEF Live

LEMMA SameLive ==
  ASSUME NEW b \in Buf, NEW c \in Buf, b.offset + b.bytes <= Len(b.data), c.offset + c.bytes <= Len(c.data),
         b.bytes = c.bytes, \A i \in 1..b.bytes : b.data[b.offset + i] = c.data[c.offset + i]
  PROVE  Live(b) = Live(c)
<1>u. PICK u, v : u = Live(b) /\ v = Live(c)  OBVIOUS
<1>1. /\ u \in Seq(Byte) /\ Len(u) = b.bytes /\ v \in Seq(Byte) /\ Len(v) = b.bytes
      /\ \A i \in 1..b.bytes : u[i] = b.data[b.offset + i]
      /\ \A i \in 1..b.bytes : v[i] = c.data[c.offset + i]
  BY <1>u, LiveBytes
<1>2. \A i \in 1..Len(u) : u[i] = v[i]  BY <1>1
<1> QED  BY <1>u, <1>1, <1>2, SeqEqual

\* Blank bytes, and the buffer of a new TcpConnection.
LEMMA Blanks ==
  ASSUME NEW n \in Nat
  PROVE  Zeros(n) \in Seq(Byte) /\ Len(Zeros(n)) = n
<1>1. Blank \in Byte  BY DEF Blank, Byte, Msg
<1> QED  BY <1>1 DEF Zeros

LEMMA FreshFits ==
  ASSUME ChannelConstants
  PROVE  /\ Fresh \in Buf /\ Fit(Fresh) /\ Fresh.offset = 0 /\ Fresh.bytes = 0
         /\ Len(Fresh.data) = Initial /\ Live(Fresh) = <<>>
<1>1. Initial \in Nat \ {0} /\ Zeros(Initial) \in Seq(Byte) /\ Len(Zeros(Initial)) = Initial
  BY Blanks DEF ChannelConstants
<1>2. Fresh.data = Zeros(Initial) /\ Fresh.offset = 0 /\ Fresh.bytes = 0  BY DEF Fresh
<1>3. Fresh \in Buf  BY <1>1 DEF Fresh, Buf
<1>4. Fit(Fresh)  BY <1>1, <1>2 DEF Fit
<1>5. Live(Fresh) \in Seq(Byte) /\ Len(Live(Fresh)) = 0  BY <1>2, <1>3, <1>4, LiveBytes DEF Fit
<1>6. Live(Fresh) = <<>>  BY <1>5
<1> QED  BY <1>1, <1>2, <1>3, <1>4, <1>6

\* Trimming keeps the live bytes.
LEMMA TrimmedFits ==
  ASSUME NEW b \in Buf, Fit(b)
  PROVE  /\ Trimmed(b) \in Buf /\ Fit(Trimmed(b)) /\ Trimmed(b).offset = 0 /\ Trimmed(b).bytes = b.bytes
         /\ Len(Trimmed(b).data) <= Len(b.data) /\ Live(Trimmed(b)) = Live(b)
<1>1. b.data \in Seq(Byte) /\ b.offset \in Nat /\ b.bytes \in Nat /\ b.offset + b.bytes <= Len(b.data)
  BY DEF Buf, Fit
<1>d. PICK d : d = SubSeq(b.data, b.offset + 1, Len(b.data))  OBVIOUS
<1>2. /\ d \in Seq(Byte) /\ Len(d) = Len(b.data) - b.offset
      /\ \A i \in 1..Len(b.data) - b.offset : d[i] = b.data[b.offset + i]
  <2>1. b.offset \in 0..Len(b.data)  BY <1>1
  <2> QED  BY <1>1, <1>d, <2>1, Cut
<1>t. PICK t : t = Trimmed(b)  OBVIOUS
<1>3. t.data = d /\ t.offset = 0 /\ t.bytes = b.bytes /\ t \in Buf
  BY <1>1, <1>2, <1>d, <1>t DEF Trimmed, Buf
<1>4. Fit(t)  BY <1>1, <1>2, <1>3 DEF Fit
<1>5. \A i \in 1..t.bytes : t.data[t.offset + i] = b.data[b.offset + i]
  <2> TAKE i \in 1..t.bytes
  <2>1. i \in 1..Len(b.data) - b.offset /\ 0 + i = i  BY <1>1, <1>3
  <2> QED  BY <1>2, <1>3, <2>1
<1>6. Live(t) = Live(b)  BY <1>1, <1>3, <1>4, <1>5, SameLive DEF Fit
<1> QED  BY <1>t, <1>1, <1>2, <1>3, <1>4, <1>6

\* So does the change of size, after which there is room.
LEMMA ResizedFits ==
  ASSUME ChannelConstants, NEW b \in Buf, Fit(b), b.offset = 0
  PROVE  /\ Resized(b) \in Buf /\ Fit(Resized(b)) /\ Resized(b).offset = 0
         /\ Resized(b).bytes < Len(Resized(b).data) /\ Live(Resized(b)) = Live(b)
         /\ \/ Len(Resized(b).data) = Len(b.data)
            \/ Len(Resized(b).data) = Initial
            \/ b.bytes > 0 /\ Len(Resized(b).data) = 2 * b.bytes
<1>1. b.data \in Seq(Byte) /\ b.bytes \in Nat /\ b.bytes <= Len(b.data) /\ Len(b.data) > 0
  BY DEF Buf, Fit
<1>2. CASE Len(b.data) = b.bytes
  <2>z. PICK z \in Seq(Byte) : z = Zeros(Len(b.data)) /\ Len(z) = Len(b.data)  BY <1>1, Blanks
  <2>d. PICK d : d = b.data \o z  OBVIOUS
  <2>1. d \in Seq(Byte) /\ Len(d) = Len(b.data) + Len(b.data) /\ \A i \in 1..Len(b.data) : d[i] = b.data[i]
    <3>1. b.data \in Seq(Byte)  BY <1>1
    <3>2. d \in Seq(Byte) /\ Len(d) = Len(b.data) + Len(z) /\ \A i \in 1..Len(b.data) : d[i] = b.data[i]
      BY <2>d, <3>1, Joined
    <3> QED  BY <2>z, <3>2
  <2>r. PICK r : r = Resized(b)  OBVIOUS
  <2>2. r = [data |-> d, offset |-> b.offset, bytes |-> b.bytes]  BY <1>2, <2>z, <2>d, <2>r DEF Resized
  <2>3. r.data = d /\ r.offset = 0 /\ r.bytes = b.bytes  BY <2>2
  <2>4. r \in Buf  BY <1>1, <2>1, <2>2 DEF Buf
  <2>5. Fit(r) /\ r.bytes < Len(r.data) /\ Len(r.data) = 2 * b.bytes  BY <1>1, <1>2, <2>1, <2>3 DEF Fit
  <2>6. \A i \in 1..r.bytes : r.data[r.offset + i] = b.data[b.offset + i]
    BY <1>1, <1>2, <2>1, <2>3
  <2>7. Live(r) = Live(b)  BY <1>1, <2>3, <2>4, <2>5, <2>6, SameLive DEF Fit
  <2> QED  BY <2>r, <1>1, <1>2, <2>3, <2>4, <2>5, <2>7
<1>3. CASE Len(b.data) # b.bytes /\ b.bytes = 0 /\ Len(b.data) > Big
  <2>1. Resized(b) = Fresh  BY <1>3 DEF Resized
  <2>2. Live(b) \in Seq(Byte) /\ Len(Live(b)) = 0  BY <1>1, <1>3, LiveBytes
  <2>3. Live(b) = <<>>  BY <2>2
  <2>4. Initial > 0  BY DEF ChannelConstants
  <2> QED  BY <2>1, <2>3, <2>4, FreshFits
<1>4. CASE Len(b.data) # b.bytes /\ ~(b.bytes = 0 /\ Len(b.data) > Big)
  <2>1. Resized(b) = b  BY <1>4 DEF Resized
  <2> QED  BY <1>1, <1>4, <2>1
<1> QED  BY <1>2, <1>3, <1>4

\* Bytes that are read are live.
LEMMA FilledFits ==
  ASSUME NEW b \in Buf, Fit(b), b.offset = 0, NEW s \in Seq(Byte), Len(s) > 0, b.bytes + Len(s) <= Len(b.data)
  PROVE  /\ Filled(b, s) \in Buf /\ Fit(Filled(b, s)) /\ Len(Filled(b, s).data) = Len(b.data)
         /\ Live(Filled(b, s)) = Live(b) \o s
<1>1. b.data \in Seq(Byte) /\ b.bytes \in Nat /\ Len(b.data) > 0 /\ Len(s) \in Nat  BY DEF Buf, Fit
<1>x. PICK x, y : x = SubSeq(b.data, 1, b.bytes) /\ y = SubSeq(b.data, b.bytes + Len(s) + 1, Len(b.data))
  OBVIOUS
<1>2. x \in Seq(Byte) /\ Len(x) = b.bytes /\ \A i \in 1..b.bytes : x[i] = b.data[i]
  BY <1>1, <1>x, Cut
<1>3. y \in Seq(Byte) /\ Len(y) = Len(b.data) - (b.bytes + Len(s))
  <2>1. b.bytes + Len(s) \in 0..Len(b.data)  BY <1>1
  <2> QED  BY <1>1, <1>x, <2>1, Cut
<1>xs. PICK xs : xs = x \o s  OBVIOUS
<1>4. xs \in Seq(Byte) /\ Len(xs) = b.bytes + Len(s)  BY <1>1, <1>2, <1>xs, Joined
<1>d. PICK d : d = xs \o y  OBVIOUS
<1>5. d \in Seq(Byte) /\ Len(d) = Len(b.data) /\ \A i \in 1..Len(xs) : d[i] = xs[i]
  <2>1. d \in Seq(Byte) /\ Len(d) = Len(xs) + Len(y) /\ \A i \in 1..Len(xs) : d[i] = xs[i]
    BY <1>3, <1>4, <1>d, Joined
  <2> QED  BY <1>1, <1>3, <1>4, <2>1
<1>f. PICK f : f = Filled(b, s)  OBVIOUS
<1>6. f = [data |-> d, offset |-> b.offset, bytes |-> b.bytes + Len(s)]  BY <1>x, <1>xs, <1>d, <1>f DEF Filled
<1>7. f.data = d /\ f.offset = 0 /\ f.bytes = b.bytes + Len(s)  BY <1>6
<1>8. f \in Buf  BY <1>1, <1>5, <1>6 DEF Buf
<1>9. Fit(f)  BY <1>1, <1>5, <1>7 DEF Fit
<1>10. Live(f) = xs
  <2>v. PICK v : v = Live(f)  OBVIOUS
  <2>1. v \in Seq(Byte) /\ Len(v) = f.bytes /\ \A i \in 1..f.bytes : v[i] = f.data[f.offset + i]
    BY <2>v, <1>8, <1>9, LiveBytes DEF Fit
  <2>2. \A i \in 1..Len(v) : v[i] = xs[i]  BY <1>1, <1>4, <1>5, <1>7, <2>1
  <2> QED  BY <2>v, <1>4, <1>7, <2>1, <2>2, SeqEqual
<1>11. Live(b) = x
  <2>v. PICK v : v = Live(b)  OBVIOUS
  <2>1. v \in Seq(Byte) /\ Len(v) = b.bytes /\ \A i \in 1..b.bytes : v[i] = b.data[b.offset + i]
    BY <2>v, <1>1, LiveBytes DEF Fit
  <2>2. \A i \in 1..Len(v) : v[i] = x[i]  BY <1>1, <1>2, <2>1
  <2> QED  BY <2>v, <1>2, <2>1, <2>2, SeqEqual
<1> QED  BY <1>f, <1>xs, <1>5, <1>7, <1>8, <1>9, <1>10, <1>11

\* A packet that is taken out is no longer live, what is behind it is.
LEMMA TakenFits ==
  ASSUME NEW b \in Buf, Fit(b), NEW n \in Nat, n <= b.bytes, b.bytes > 0
  PROVE  /\ Taken(b, n) \in Buf /\ Fit(Taken(b, n)) /\ Len(Taken(b, n).data) = Len(b.data)
         /\ Live(Taken(b, n)) = SubSeq(Live(b), n + 1, Len(Live(b)))
<1>1. b.data \in Seq(Byte) /\ b.offset \in Nat /\ b.bytes \in Nat /\ b.offset + b.bytes <= Len(b.data)
      /\ Len(b.data) > 0
  BY DEF Buf, Fit
<1>t. PICK t : t = Taken(b, n)  OBVIOUS
<1>u. PICK u : u = Live(b)  OBVIOUS
<1>2. u \in Seq(Byte) /\ Len(u) = b.bytes /\ \A i \in 1..b.bytes : u[i] = b.data[b.offset + i]
  BY <1>u, <1>1, LiveBytes
<1>w. PICK w : w = SubSeq(u, n + 1, Len(u))  OBVIOUS
<1>3. w \in Seq(Byte) /\ Len(w) = b.bytes - n /\ \A i \in 1..b.bytes - n : w[i] = u[n + i]
  <2>1. n \in 0..Len(u)  BY <1>1, <1>2
  <2> QED  BY <1>w, <1>2, <2>1, Cut
<1>4. /\ t \in Buf /\ t.data = b.data /\ t.bytes = b.bytes - n
      /\ t.bytes = 0 \/ t.offset = b.offset + n
      /\ t.bytes = 0 => t.offset = 0
  <2>1. CASE b.bytes = n
    <3>1. t = [data |-> b.data, offset |-> 0, bytes |-> 0]  BY <1>t, <2>1 DEF Taken
    <3> QED  BY <1>1, <2>1, <3>1 DEF Buf
  <2>2. CASE b.bytes # n
    <3>1. t = [data |-> b.data, offset |-> b.offset + n, bytes |-> b.bytes - n]  BY <1>t, <2>2 DEF Taken
    <3>2. b.bytes - n \in Nat \ {0} /\ b.offset + n \in Nat  BY <1>1, <2>2
    <3> QED  BY <1>1, <3>1, <3>2 DEF Buf
  <2> QED  BY <2>1, <2>2
<1>5. t.bytes \in Nat /\ t.offset \in Nat  BY <1>4 DEF Buf
<1>6. Fit(t)
  <2>1. t.offset + t.bytes <= Len(b.data)
    <3>1. CASE t.bytes = 0  BY <1>1, <1>4, <3>1
    <3>2. CASE t.bytes # 0  BY <1>1, <1>4, <1>5, <3>2
    <3> QED  BY <3>1, <3>2
  <2> QED  BY <1>1, <1>4, <2>1 DEF Fit
<1>v. PICK v : v = Live(t)  OBVIOUS
<1>7. v \in Seq(Byte) /\ Len(v) = t.bytes /\ \A i \in 1..t.bytes : v[i] = t.data[t.offset + i]
  BY <1>v, <1>4, <1>6, LiveBytes DEF Fit
<1>8. ASSUME NEW i \in 1..Len(v) PROVE v[i] = w[i]
  <2>1. i \in 1..b.bytes - n /\ n + i \in 1..b.bytes /\ t.bytes # 0  BY <1>1, <1>4, <1>5, <1>7
  <2>2. t.offset + i = b.offset + (n + i)  BY <1>1, <1>4, <2>1
  <2>3. v[i] = b.data[b.offset + (n + i)]  BY <1>4, <1>7, <2>1, <2>2
  <2> QED  BY <1>2, <1>3, <2>1, <2>3
<1>9. v = w  BY <1>3, <1>4, <1>7, <1>8, SeqEqual
<1> QED  BY <1>t, <1>u, <1>v, <1>w, <1>4, <1>6, <1>9

-----------------------------------------------------------------------------
(* What an end sees of the stream. *)

LEMMA Peers ==
  ASSUME NEW e \in End
  PROVE  Peer(e) \in End /\ Peer(Peer(e)) = e /\ Peer(e) # e
BY DEF End, Peer

LEMMA UnreadBytes ==
  ASSUME Typed, NEW e \in End, Fit(buf[e])
  PROVE  /\ buf[e] \in Buf /\ Live(buf[e]) \in Seq(Byte) /\ wire[e] \in Seq(Byte) /\ out[Peer(e)] \in Seq(Byte)
         /\ Live(buf[e]) \o wire[e] \in Seq(Byte)
         /\ Unread(e) \in Seq(Byte) /\ Len(Unread(e)) >= buf[e].bytes
         /\ \A i \in 1..buf[e].bytes : Unread(e)[i] = buf[e].data[buf[e].offset + i]
<1>1. buf[e] \in Buf /\ wire[e] \in Seq(Byte) /\ out[Peer(e)] \in Seq(Byte)  BY Peers DEF Typed
<1>b. PICK b \in Buf : b = buf[e] /\ Fit(b)  BY <1>1
<1>l. PICK l : l = Live(b)  OBVIOUS
<1>2. l \in Seq(Byte) /\ Len(l) = b.bytes /\ \A i \in 1..b.bytes : l[i] = b.data[b.offset + i]
  BY <1>b, <1>l, LiveBytes DEF Fit
<1>w. PICK w \in Seq(Byte), o \in Seq(Byte) : w = wire[e] /\ o = out[Peer(e)]  BY <1>1
<1>x. PICK x : x = l \o w  OBVIOUS
<1>3. x \in Seq(Byte) /\ Len(x) = Len(l) + Len(w) /\ \A i \in 1..Len(l) : x[i] = l[i]
  BY <1>2, <1>x, Joined
<1>u. PICK u : u = x \o o  OBVIOUS
<1>4. u \in Seq(Byte) /\ Len(u) = Len(x) + Len(o) /\ \A i \in 1..Len(x) : u[i] = x[i]
  BY <1>3, <1>u, Joined
<1>5. b.bytes \in Nat  BY <1>b DEF Buf
<1>6. Len(u) >= b.bytes /\ \A i \in 1..b.bytes : u[i] = b.data[b.offset + i]
  BY <1>2, <1>3, <1>4, <1>5
<1>7. u = Unread(e) /\ x = Live(buf[e]) \o wire[e]  BY <1>b, <1>l, <1>w, <1>x, <1>u DEF Unread
<1> QED  BY <1>1, <1>2, <1>3, <1>4, <1>6, <1>7, <1>b, <1>l

\* On a new connection the next bytes are those of a message.
LEMMA NextMessage ==
  ASSUME ChannelConstants, Typed, NEW e \in End, Fit(buf[e]), Ordered(e), buf[e].bytes > 0
  PROVE  \E m \in Msg :
           /\ m.size \in Packet /\ m.size \in Header..Len(Unread(e))
           /\ \A j \in 1..m.size : Unread(e)[j] = [msg |-> m, at |-> j]
           /\ \A j \in 1..m.size : j <= buf[e].bytes =>
                buf[e].data[buf[e].offset + j] = [msg |-> m, at |-> j]
           /\ After(e, m)
<1>1. /\ Unread(e) \in Seq(Byte) /\ Len(Unread(e)) >= buf[e].bytes /\ buf[e].bytes \in Nat
      /\ \A i \in 1..buf[e].bytes : Unread(e)[i] = buf[e].data[buf[e].offset + i]
  BY UnreadBytes DEF Buf
<1>p. PICK p \in Seq(Msg) : sent[e] = handled[e] \o p /\ Lined(p, Unread(e))  BY DEF Ordered
<1>2. Len(Unread(e)) > 0 /\ Packet \subseteq Nat  BY <1>1 DEF ChannelConstants
<1>m. PICK m \in Msg, q \in Seq(Msg) :
        /\ p = <<m>> \o q
        /\ m.size \in Packet /\ m.size \in 0..Len(Unread(e))
        /\ \A j \in 1..m.size : Unread(e)[j] = [msg |-> m, at |-> j]
        /\ Lined(q, SubSeq(Unread(e), m.size + 1, Len(Unread(e))))
  BY <1>1, <1>2, <1>p, LinedHead
<1>3. /\ m.size \in Packet /\ m.size \in Header..Len(Unread(e))
      /\ \A j \in 1..m.size : Unread(e)[j] = [msg |-> m, at |-> j]
  BY <1>1, <1>2, <1>m DEF ChannelConstants
<1>5. After(e, m)
  <2>h. PICK h \in Seq(Msg) : h = handled[e]  BY DEF Typed
  <2>1. h \o (<<m>> \o q) = Append(h, m) \o q  BY AppendBetween
  <2> QED  BY <1>p, <1>m, <2>h, <2>1 DEF After
<1>4. ASSUME NEW j \in 1..m.size, j <= buf[e].bytes
      PROVE  buf[e].data[buf[e].offset + j] = [msg |-> m, at |-> j]
  <2>1. j \in 1..buf[e].bytes  BY <1>1, <1>4
  <2> QED  BY <1>1, <1>3, <2>1
<1> QED  BY <1>3, <1>4, <1>5

\* And it is framed.
LEMMA NextFrame ==
  ASSUME ChannelConstants, Typed, NEW e \in End, Fit(buf[e]), Ordered(e), buf[e].bytes >= Header
  PROVE  \E m \in Msg :
           /\ m.size \in Packet /\ m.size \in 1..Len(Unread(e))
           /\ \A j \in 1..m.size : Unread(e)[j] = [msg |-> m, at |-> j]
           /\ PacketBytes(buf[e]) = {m.size}
           /\ m.size <= buf[e].bytes => m \in Framed(buf[e]) /\ IsMessage(buf[e], m.size, m)
           /\ Framed(buf[e]) = {m} /\ After(e, m)
<1>1. Header \in Nat \ {0} /\ buf[e].bytes \in Nat /\ buf[e].bytes > 0
  <2>1. buf[e].bytes \in Nat  BY DEF Typed, Buf
  <2> QED  BY <2>1 DEF ChannelConstants
<1>2. PICK m \in Msg :
        /\ m.size \in Packet /\ m.size \in Header..Len(Unread(e))
        /\ \A j \in 1..m.size : Unread(e)[j] = [msg |-> m, at |-> j]
        /\ \A j \in 1..m.size : j <= buf[e].bytes =>
             buf[e].data[buf[e].offset + j] = [msg |-> m, at |-> j]
        /\ After(e, m)
  BY <1>1, NextMessage
<1>3. \A i \in 1..Header : buf[e].data[buf[e].offset + i] = [msg |-> m, at |-> i]
  BY <1>1, <1>2
<1>4. m \in Framed(buf[e])
  <2>1. 1 \in 1..Header  BY <1>1
  <2>2. buf[e].data[buf[e].offset + 1] = [msg |-> m, at |-> 1]  BY <1>3, <2>1
  <2>3. [msg |-> m, at |-> 1].msg = m  OBVIOUS
  <2>4. buf[e].data[buf[e].offset + 1].msg = m  BY <2>2, <2>3, Zenon
  <2> QED  BY <1>3, <2>1, <2>4, Zenon DEF Framed
<1>5. \A h \in Framed(buf[e]) : h = m
  <2> TAKE h \in Framed(buf[e])
  <2>1. 1 \in 1..Header  BY <1>1
  <2>2. buf[e].data[buf[e].offset + 1] = [msg |-> h, at |-> 1]  BY <2>1 DEF Framed
  <2>3. buf[e].data[buf[e].offset + 1] = [msg |-> m, at |-> 1]  BY <1>3, <2>1
  <2> QED  BY <2>2, <2>3
<1>6. Framed(buf[e]) = {m}  BY <1>4, <1>5
<1>7. PacketBytes(buf[e]) = {m.size}  BY <1>6 DEF PacketBytes
<1>8. m.size <= buf[e].bytes => IsMessage(buf[e], m.size, m)  BY <1>1, <1>2, <1>4 DEF IsMessage, Msg
<1>9. m.size \in 1..Len(Unread(e))  BY <1>1, <1>2
<1> QED  BY <1>2, <1>4, <1>6, <1>7, <1>8, <1>9

-----------------------------------------------------------------------------
(* Types. *)

LEMMA InitTyped == ChannelConstants /\ ChannelInit => Typed
<1> SUFFICES ASSUME ChannelConstants, ChannelInit PROVE Typed  OBVIOUS
<1>1. Fresh \in Buf  BY FreshFits
<1> QED  BY <1>1 DEF ChannelInit, Typed, End

\* What is prepared is a message.
LEMMA PreparedTyped ==
  ASSUME Typed, NEW e \in End, NEW m \in Msg, Prepare(e, m)
  PROVE  out' \in [End -> Seq(Byte)] /\ sent' \in [End -> Seq(Msg)]
<1>1. Bytes(m) \in Seq(Byte)  BY BytesOf
<1>2. Append(sent[Peer(e)], m) \in Seq(Msg)  BY Peers DEF Typed
<1> QED  BY <1>1, <1>2, Peers DEF Prepare, Typed

\* What is framed is a message.
LEMMA FramedTyped ==
  ASSUME ChannelConstants, NEW b \in Buf, Fit(b), b.bytes >= Header, NEW m \in Framed(b)
  PROVE  m \in Msg
<1>1. b.data \in Seq(Byte) /\ b.offset \in Nat /\ b.bytes \in Nat /\ b.offset + b.bytes <= Len(b.data)
      /\ Header \in Nat
  BY DEF Buf, Fit, ChannelConstants
<1>2. PICK i \in 1..Header : m = b.data[b.offset + i].msg  BY DEF Framed
<1>3. b.offset + i \in 1..Len(b.data)  BY <1>1
<1>4. b.data[b.offset + i] \in Byte  BY <1>1, <1>3, ElementOfSeq
<1> QED  BY <1>2, <1>4 DEF Byte

\* Every step keeps the types.
LEMMA StepTyped == ChannelConstants /\ IInv /\ [ChannelNext]_channelVars => Typed'
<1> SUFFICES ASSUME ChannelConstants, IInv, [ChannelNext]_channelVars PROVE Typed'  OBVIOUS
<1>0. Typed /\ Packet \subseteq Nat /\ \A e \in End : Fit(buf[e]) /\ buf[e] \in Buf
  BY DEF IInv, ChannelConstants, RoomInv, Typed
<1>1. CASE Call
  <2>1. PICK n \in Packet, r \in BOOLEAN :
          Prepare("client", [conn |-> conn, id |-> Len(sent["server"]) + 1, size |-> n, reply |-> r])
    BY <1>1 DEF Call
  <2>2. Len(sent["server"]) \in Nat /\ conn \in Int  BY <1>0 DEF Typed, End
  <2>3. [conn |-> conn, id |-> Len(sent["server"]) + 1, size |-> n, reply |-> r] \in Msg
    BY <1>0, <2>2 DEF Msg
  <2>4. out' \in [End -> Seq(Byte)] /\ sent' \in [End -> Seq(Msg)]
    BY <1>0, <2>1, <2>3, PreparedTyped DEF End
  <2> QED  BY <1>0, <1>1, <2>4 DEF Call, Typed, End
<1>2. ASSUME NEW e \in End, WriteSome(e) PROVE Typed'
  <2>1. PICK n \in 1..Len(out[e]) :
          /\ wire' = [wire EXCEPT ![Peer(e)] = @ \o SubSeq(out[e], 1, n)]
          /\ out' = [out EXCEPT ![e] = SubSeq(@, n + 1, Len(@))]
          /\ pc' = [pc EXCEPT ![e] = IF n = Len(out[e]) THEN Written(e) ELSE @]
    BY <1>2 DEF WriteSome
  <2>2. out[e] \in Seq(Byte) /\ wire[Peer(e)] \in Seq(Byte) /\ n \in 0..Len(out[e])
    BY <1>0, Peers DEF Typed
  <2>3. SubSeq(out[e], 1, n) \in Seq(Byte) /\ SubSeq(out[e], n + 1, Len(out[e])) \in Seq(Byte)
    BY <2>2, Cut
  <2>4. wire[Peer(e)] \o SubSeq(out[e], 1, n) \in Seq(Byte)  BY <2>2, <2>3, Joined
  <2>5. wire' \in [End -> Seq(Byte)] /\ out' \in [End -> Seq(Byte)]
    BY <1>0, <2>1, <2>3, <2>4, Zenon DEF Typed
  <2>6. pc' \in [End -> {"idle", "write", "read", "parse", "closed"}]
    BY <1>0, <2>1 DEF Typed, Written
  <2> QED  BY <1>0, <1>2, <2>5, <2>6 DEF WriteSome, Typed
<1>3. ASSUME NEW e \in End, ReadSome(e) PROVE Typed'
  <2>1. PICK n \in 1..Len(wire[e]) :
          /\ n <= Len(buf[e].data) - buf[e].bytes
          /\ buf' = [buf EXCEPT ![e] = Filled(@, SubSeq(wire[e], 1, n))]
          /\ wire' = [wire EXCEPT ![e] = SubSeq(@, n + 1, Len(@))]
    BY <1>3 DEF ReadSome
  <2>2. wire[e] \in Seq(Byte) /\ n \in 0..Len(wire[e])  BY <1>0 DEF Typed
  <2>s. PICK s : s = SubSeq(wire[e], 1, n)  OBVIOUS
  <2>3. s \in Seq(Byte) /\ Len(s) = n /\ SubSeq(wire[e], n + 1, Len(wire[e])) \in Seq(Byte)
    BY <2>2, <2>s, Cut
  <2>4. buf[e].offset = 0 /\ Fit(buf[e]) /\ buf[e] \in Buf  BY <1>0, <1>3 DEF IInv, RoomInv, ReadSome
  <2>5. buf[e].bytes + Len(s) <= Len(buf[e].data) /\ Len(s) > 0
    BY <2>1, <2>3, <2>4 DEF Buf
  <2>6. Filled(buf[e], s) \in Buf  BY <2>3, <2>4, <2>5, FilledFits
  <2>7. buf' \in [End -> Buf] /\ wire' \in [End -> Seq(Byte)]
    BY <1>0, <2>1, <2>s, <2>3, <2>6, Zenon DEF Typed
  <2> QED  BY <1>0, <1>3, <2>7 DEF ReadSome, Typed
<1>4. ASSUME NEW e \in End, NeedMore(e) PROVE Typed'
  <2>1. Trimmed(buf[e]) \in Buf /\ Fit(Trimmed(buf[e])) /\ Trimmed(buf[e]).offset = 0
    BY <1>0, TrimmedFits
  <2>2. GetInBuf(buf[e]) \in Buf  BY <2>1, ResizedFits DEF GetInBuf
  <2> QED  BY <1>0, <1>4, <2>2 DEF NeedMore, Typed
<1>5. ASSUME NEW e \in End, ReadMessage(e) PROVE Typed'
  <2>1. PICK n \in PacketBytes(buf[e]) :
          /\ n <= buf[e].bytes
          /\ \E m \in Framed(buf[e]) : IsMessage(buf[e], n, m) /\ Handle(e, m)
          /\ buf' = [buf EXCEPT ![e] = Taken(@, n)]
    BY <1>5 DEF ReadMessage
  <2>2. PICK m \in Framed(buf[e]) : IsMessage(buf[e], n, m) /\ Handle(e, m)  BY <2>1
  <2>3. m \in Msg /\ n = m.size /\ n \in Nat
    BY <1>0, <1>5, <2>2, FramedTyped DEF ReadMessage, IsMessage, Msg
  <2>4. buf[e].bytes > 0
    BY <1>0, <1>5 DEF ReadMessage, ChannelConstants, Buf
  <2>5. Taken(buf[e], n) \in Buf  BY <1>0, <2>1, <2>3, <2>4, TakenFits
  <2>6. buf' \in [End -> Buf]  BY <1>0, <2>1, <2>5 DEF Typed
  <2>7. pc' \in [End -> {"idle", "write", "read", "parse", "closed"}]  BY <1>0, <2>2 DEF Handle, Typed
  <2>9. handled' \in [End -> Seq(Msg)]
    <3>1. handled' = [handled EXCEPT ![e] = Append(@, m)]  BY <2>2 DEF Handle
    <3>2. Append(handled[e], m) \in Seq(Msg)  BY <1>0, <2>3 DEF Typed
    <3> QED  BY <1>0, <3>1, <3>2 DEF Typed
  <2>8. out' \in [End -> Seq(Byte)] /\ sent' \in [End -> Seq(Msg)]
    <3>1. CASE e = "server" /\ m.reply
      <4>1. PICK k \in Packet : Prepare(e, [conn |-> m.conn, id |-> m.id, size |-> k, reply |-> FALSE])
        BY <2>2, <3>1 DEF Handle
      <4>2. [conn |-> m.conn, id |-> m.id, size |-> k, reply |-> FALSE] \in Msg  BY <1>0, <2>3 DEF Msg
      <4> QED  BY <1>0, <4>1, <4>2, PreparedTyped
    <3>2. CASE ~(e = "server" /\ m.reply)
      <4>1. UNCHANGED <<out, sent>>  BY <2>2, <3>2 DEF Handle
      <4> QED  BY <1>0, <4>1 DEF Typed
    <3> QED  BY <3>1, <3>2
  <2> QED  BY <1>0, <1>5, <2>6, <2>7, <2>8, <2>9 DEF ReadMessage, Typed
<1>6. ASSUME NEW e \in End, Garbage(e) \/ Fail(e) PROVE Typed'
  BY <1>0, <1>6 DEF Garbage, Fail, Typed
<1>7. CASE Break  BY <1>0, <1>7 DEF Break, Typed
<1>8. CASE Connect
  <2>1. Fresh \in Buf  BY FreshFits
  <2>2. conn' = conn + 1 /\ buf' = [buf EXCEPT !["server"] = Fresh]  BY <1>8 DEF Connect
  <2>3. buf' \in [End -> Buf]  BY <1>0, <2>1, <2>2, Zenon DEF Typed
  <2>4. conn' \in Nat \ {0}  BY <1>0, <2>2 DEF Typed
  <2> QED  BY <1>8, <2>3, <2>4 DEF Connect, Typed, End
<1>9. CASE UNCHANGED channelVars  BY <1>0, <1>9 DEF channelVars, Typed
<1> QED  BY <1>1, <1>2, <1>3, <1>4, <1>5, <1>6, <1>7, <1>8, <1>9 DEF ChannelNext, Step

-----------------------------------------------------------------------------
(* Room in the buffers. *)

LEMMA InitRoom == ChannelConstants /\ ChannelInit => \A e \in End : RoomInv(e)
<1> SUFFICES ASSUME ChannelConstants, ChannelInit, NEW e \in End PROVE RoomInv(e)  OBVIOUS
<1>1. buf[e] = Fresh  BY DEF ChannelInit
<1>2. Initial > 0  BY DEF ChannelConstants
<1> QED  BY <1>1, <1>2, FreshFits DEF RoomInv

\* An end that does not touch its buffer keeps it, and it reads only when it
\* has made room.
LEMMA KeepRoom ==
  ASSUME NEW e \in End, RoomInv(e), buf'[e] = buf[e], pc'[e] = "read" => pc[e] = "read"
  PROVE  RoomInv(e)'
BY DEF RoomInv, Fit

LEMMA StepRoom == ChannelConstants /\ IInv /\ [ChannelNext]_channelVars => \A e \in End : RoomInv(e)'
<1> SUFFICES ASSUME ChannelConstants, IInv, [ChannelNext]_channelVars, NEW f \in End PROVE RoomInv(f)'  OBVIOUS
<1>0. Typed /\ \A e \in End : RoomInv(e) /\ Fit(buf[e]) /\ buf[e] \in Buf
  BY DEF IInv, RoomInv, Typed
<1>1. CASE Call \/ Break \/ UNCHANGED channelVars
  BY <1>0, <1>1, KeepRoom DEF Call, Break, channelVars, Typed, End
<1>2. ASSUME NEW e \in End, WriteSome(e) \/ Garbage(e) \/ Fail(e) PROVE RoomInv(f)'
  <2>1. buf' = buf  BY <1>2 DEF WriteSome, Garbage, Fail
  <2>2. pc'[f] = "read" => pc[f] = "read"
    BY <1>0, <1>2 DEF WriteSome, Garbage, Fail, Typed, Written
  <2> QED  BY <1>0, <2>1, <2>2, KeepRoom
<1>3. ASSUME NEW e \in End, ReadSome(e) PROVE RoomInv(f)'
  <2>1. PICK n \in 1..Len(wire[e]) :
          /\ n <= Len(buf[e].data) - buf[e].bytes
          /\ buf' = [buf EXCEPT ![e] = Filled(@, SubSeq(wire[e], 1, n))]
          /\ pc' = [pc EXCEPT ![e] = "parse"]
    BY <1>3 DEF ReadSome
  <2>2. wire[e] \in Seq(Byte) /\ n \in 0..Len(wire[e])  BY <1>0 DEF Typed
  <2>s. PICK s : s = SubSeq(wire[e], 1, n)  OBVIOUS
  <2>3. s \in Seq(Byte) /\ Len(s) = n  BY <2>2, <2>s, Cut
  <2>4. buf[e].offset = 0 /\ Fit(buf[e]) /\ buf[e] \in Buf  BY <1>0, <1>3 DEF RoomInv, ReadSome
  <2>5. buf[e].bytes + Len(s) <= Len(buf[e].data) /\ Len(s) > 0
    BY <2>1, <2>3, <2>4 DEF Buf
  <2>6. Fit(Filled(buf[e], s))  BY <2>3, <2>4, <2>5, FilledFits
  <2>7. CASE f = e
    <3>1. buf'[f] = Filled(buf[e], s) /\ pc'[f] = "parse"  BY <1>0, <2>1, <2>7, <2>s DEF Typed
    <3> QED  BY <2>6, <3>1 DEF RoomInv, Fit
  <2>8. CASE f # e  BY <1>0, <2>1, <2>8, KeepRoom DEF Typed
  <2> QED  BY <2>7, <2>8
<1>4. ASSUME NEW e \in End, NeedMore(e) PROVE RoomInv(f)'
  <2>t. PICK t \in Buf : t = Trimmed(buf[e]) /\ Fit(t) /\ t.offset = 0
    BY <1>0, TrimmedFits
  <2>r. PICK r \in Buf : r = Resized(t) /\ Fit(r) /\ r.offset = 0 /\ r.bytes < Len(r.data)
    BY <2>t, ResizedFits
  <2>1. buf' = [buf EXCEPT ![e] = r] /\ pc' = [pc EXCEPT ![e] = "read"]
    BY <1>4, <2>t, <2>r DEF NeedMore, GetInBuf
  <2>2. CASE f = e
    <3>1. buf'[f] = r  BY <1>0, <2>1, <2>2 DEF Typed
    <3> QED  BY <2>r, <3>1 DEF RoomInv, Fit
  <2>3. CASE f # e  BY <1>0, <2>1, <2>3, KeepRoom DEF Typed
  <2> QED  BY <2>2, <2>3
<1>5. ASSUME NEW e \in End, ReadMessage(e) PROVE RoomInv(f)'
  <2>1. PICK n \in PacketBytes(buf[e]), m \in Framed(buf[e]) :
          /\ n <= buf[e].bytes /\ IsMessage(buf[e], n, m) /\ Handle(e, m)
          /\ buf' = [buf EXCEPT ![e] = Taken(@, n)]
    BY <1>5 DEF ReadMessage
  <2>2. m \in Msg /\ n = m.size /\ n \in Nat
    BY <1>0, <1>5, <2>1, FramedTyped DEF ReadMessage, IsMessage, Msg
  <2>3. buf[e].bytes > 0  BY <1>0, <1>5 DEF ReadMessage, ChannelConstants, Buf
  <2>4. Fit(Taken(buf[e], n))  BY <1>0, <2>1, <2>2, <2>3, TakenFits
  <2>5. pc'[f] = "read" => pc[f] = "read" /\ f # e  BY <1>0, <2>1 DEF Handle, Typed
  <2>6. CASE f = e
    <3>1. buf'[f] = Taken(buf[e], n)  BY <1>0, <2>1, <2>6 DEF Typed
    <3> QED  BY <2>4, <2>5, <2>6, <3>1 DEF RoomInv, Fit
  <2>7. CASE f # e  BY <1>0, <2>1, <2>5, <2>7, KeepRoom DEF Typed
  <2> QED  BY <2>6, <2>7
<1>6. CASE Connect
  <2>1. buf' = [buf EXCEPT !["server"] = Fresh] /\ pc' = [client |-> "idle", server |-> "read"]
    BY <1>6 DEF Connect
  <2>2. CASE f = "server"
    <3>1. buf'[f] = Fresh  BY <1>0, <2>1, <2>2 DEF Typed
    <3>2. Initial > 0  BY DEF ChannelConstants
    <3> QED  BY <3>1, <3>2, FreshFits DEF RoomInv
  <2>3. CASE f = "client"
    <3>1. buf'[f] = buf[f] /\ pc'[f] # "read"  BY <1>0, <2>1, <2>3 DEF Typed
    <3> QED  BY <1>0, <3>1, KeepRoom
  <2> QED  BY <2>2, <2>3 DEF End
<1> QED  BY <1>1, <1>2, <1>3, <1>4, <1>5, <1>6 DEF ChannelNext, Step

-----------------------------------------------------------------------------
(* The first connection. *)

LEMMA InitNew == ChannelConstants /\ ChannelInit => \A e \in End : NewInv(e)
<1> SUFFICES ASSUME ChannelConstants, ChannelInit, NEW e \in End PROVE NewInv(e)  OBVIOUS
<1>1. buf[e] = Fresh /\ wire[e] = <<>> /\ out[e] = <<>> /\ out[Peer(e)] = <<>>
  BY Peers DEF ChannelInit
<1>2. Unread(e) = <<>>  BY <1>1, FreshFits DEF Unread
<1>3. Ordered(e)
  <2>1. sent[e] = handled[e] \o <<>> /\ <<>> \in Seq(Msg)  BY DEF ChannelInit
  <2> QED  BY <1>2, <2>1, LinedNothing DEF Ordered
<1>4. Small(buf[e])
  <2>1. Len(Fresh.data) = Initial /\ Initial \in Nat  BY FreshFits DEF ChannelConstants
  <2> QED  BY <1>1, <2>1 DEF Small
<1> QED  BY <1>1, <1>3, <1>4 DEF NewInv

\* An end for which no byte and no message comes or goes.
LEMMA KeepOrdered ==
  ASSUME NEW e \in End, Ordered(e), Unread(e)' = Unread(e),
         sent'[e] = sent[e], handled'[e] = handled[e]
  PROVE  Ordered(e)'
<1>1. PICK p \in Seq(Msg) : sent[e] = handled[e] \o p /\ Lined(p, Unread(e))  BY DEF Ordered
<1>2. sent'[e] = handled'[e] \o p  BY <1>1
<1>3. Lined(p, Unread(e)')  BY <1>1
<1> QED  BY <1>2, <1>3 DEF Ordered, Lined, Layout

\* An end whose stream does not change, and whose buffer has its size.
LEMMA KeepNew ==
  ASSUME NEW e \in End, NewInv(e), Unread(e)' = Unread(e), Len(buf'[e].data) = Len(buf[e].data),
         sent'[e] = sent[e], handled'[e] = handled[e],
         pc'[e] \notin {"write", "closed"} => out'[e] = <<>>
  PROVE  NewInv(e)'
<1>1. Ordered(e)'  BY KeepOrdered DEF NewInv
<1> QED  BY <1>1 DEF NewInv, Small

\* The stream of an end is made of what it has, what is on the way and what its
\* peer is writing.
LEMMA KeepUnread ==
  ASSUME NEW e \in End, buf'[e] = buf[e], wire'[e] = wire[e], out'[Peer(e)] = out[Peer(e)]
  PROVE  Unread(e)' = Unread(e)
BY DEF Unread, Live, Peer

\* A message more is written.
LEMMA PreparedNew ==
  ASSUME Typed, NEW e \in End, Fit(buf[e]), NewInv(e), out[Peer(e)] = <<>>,
         NEW m \in Msg, m.size \in Packet, out'[Peer(e)] = Bytes(m),
         wire'[e] = wire[e], buf'[e] = buf[e],
         sent'[e] = Append(sent[e], m), handled'[e] = handled[e]
  PROVE  Ordered(e)'
<1>x. PICK x \in Seq(Byte) : x = Live(buf[e]) \o wire[e]  BY UnreadBytes
<1>1. Unread(e) = x
  <2>1. Unread(e) = x \o <<>>  BY <1>x DEF Unread
  <2> QED  BY <2>1, NothingBehind
<1>p. PICK p \in Seq(Msg) : sent[e] = handled[e] \o p /\ Lined(p, x)  BY <1>1 DEF NewInv, Ordered
<1>h. PICK h \in Seq(Msg) : h = handled[e]  BY DEF Typed
<1>2. Lined(Append(p, m), x \o Bytes(m))  BY <1>p, LinedGrows
<1>3. Unread(e)' = x \o Bytes(m)  BY <1>x DEF Unread, Live, Peer
<1>4. Append(h \o p, m) = h \o Append(p, m) /\ Append(p, m) \in Seq(Msg)  BY AppendBehind
<1>5. sent'[e] = handled'[e] \o Append(p, m)  BY <1>p, <1>h, <1>4
<1>6. Lined(Append(p, m), Unread(e)')  BY <1>2, <1>3
<1> QED  BY <1>4, <1>5, <1>6 DEF Ordered, Lined, Layout

\* A buffer that grows does so for a message that does not fit.
LEMMA GrownSmall ==
  ASSUME ChannelConstants, Typed, NEW e \in End, Fit(buf[e]), NewInv(e), Incomplete(buf[e])
  PROVE  Small(GetInBuf(buf[e]))
<1>b. PICK b \in Buf : b = buf[e] /\ Fit(b)  BY DEF Typed
<1>t. PICK t \in Buf : t = Trimmed(b) /\ Fit(t) /\ t.offset = 0 /\ t.bytes = b.bytes /\ Len(t.data) <= Len(b.data)
  BY <1>b, TrimmedFits
<1>r. PICK r \in Buf : r = Resized(t) /\ \/ Len(r.data) = Len(t.data)
                                         \/ Len(r.data) = Initial
                                         \/ t.bytes > 0 /\ Len(r.data) = 2 * t.bytes
  BY <1>t, ResizedFits
<1>1. r = GetInBuf(buf[e])  BY <1>b, <1>t, <1>r DEF GetInBuf
<1>2. /\ Len(r.data) \in Nat /\ Len(t.data) \in Nat /\ Len(b.data) \in Nat /\ b.bytes \in Nat
      /\ Initial \in Nat /\ Header \in Nat \ {0} /\ Packet \subseteq Nat
  BY DEF Buf, ChannelConstants
<1>3. CASE Len(r.data) = Len(t.data)
  <2>1. Small(b)  BY <1>b DEF NewInv
  <2>2. Small(r)  BY <1>t, <1>2, <1>3, <2>1 DEF Small
  <2> QED  BY <1>1, <2>2
<1>4. CASE Len(r.data) = Initial
  <2>1. Small(r)  BY <1>2, <1>4 DEF Small
  <2> QED  BY <1>1, <2>1
<1>5. CASE t.bytes > 0 /\ Len(r.data) = 2 * t.bytes
  <2>1. \E n \in Packet : b.bytes < n
    <3>1. CASE b.bytes < Header
      <4>1. PICK m \in Msg : m.size \in Packet /\ m.size \in Header..Len(Unread(e))
        BY <1>b, <1>t, <1>5, NextMessage DEF NewInv
      <4>2. b.bytes < m.size  BY <1>2, <3>1, <4>1
      <4> QED  BY <4>1, <4>2
    <3>2. CASE b.bytes >= Header
      <4>1. PICK m \in Msg : m.size \in Packet /\ PacketBytes(buf[e]) = {m.size}
        BY <1>b, <3>2, NextFrame DEF NewInv
      <4>2. b.bytes < m.size  BY <1>b, <3>2, <4>1 DEF Incomplete
      <4> QED  BY <4>1, <4>2
    <3> QED  BY <1>2, <3>1, <3>2
  <2>2. PICK n \in Packet : b.bytes < n  BY <2>1
  <2>3. Len(r.data) < 2 * n  BY <1>t, <1>2, <1>5, <2>2
  <2>4. Small(r)  BY <2>3 DEF Small
  <2> QED  BY <1>1, <2>4
<1> QED  BY <1>r, <1>3, <1>4, <1>5

LEMMA StepNew == ChannelConstants /\ IInv /\ [ChannelNext]_channelVars => (New' => \A e \in End : NewInv(e)')
<1> SUFFICES ASSUME ChannelConstants, IInv, [ChannelNext]_channelVars, New' PROVE \A f \in End : NewInv(f)'  OBVIOUS
<1>0. /\ Typed /\ Packet \subseteq Nat
      /\ \A e \in End : RoomInv(e) /\ Fit(buf[e]) /\ buf[e] \in Buf /\ Peer(e) \in End
                        /\ Peer(Peer(e)) = e /\ Peer(e) # e
  BY Peers DEF IInv, RoomInv, Typed, ChannelConstants
<1>n. New
  <2>1. ~Connect
    <3> SUFFICES ASSUME Connect PROVE FALSE  OBVIOUS
    <3>1. conn' = conn + 1 /\ conn \in Nat \ {0} /\ conn' = 1  BY <1>0 DEF Connect, Typed, New
    <3> QED  BY <3>1
  <2>2. conn' = conn  BY <2>1 DEF ChannelNext, Step, Call, Break, WriteSome, ReadSome, NeedMore, ReadMessage, Garbage, Fail, channelVars
  <2> QED  BY <2>2 DEF New
<1>i. \A e \in End : NewInv(e)  BY <1>n DEF IInv
<1>1. CASE Call
  <2>1. PICK n \in Packet, r \in BOOLEAN :
          Prepare("client", [conn |-> conn, id |-> Len(sent["server"]) + 1, size |-> n, reply |-> r])
    BY <1>1 DEF Call
  <2>c. PICK c \in End, s \in End : c = "client" /\ s = "server"  BY DEF End
  <2>m. PICK m : m = [conn |-> conn, id |-> Len(sent["server"]) + 1, size |-> n, reply |-> r]  OBVIOUS
  <2>2. Len(sent["server"]) \in Nat /\ conn \in Int  BY <1>0 DEF Typed, End
  <2>3. m \in Msg /\ m.size \in Packet  BY <1>0, <2>m, <2>2 DEF Msg
  <2>4. /\ out[c] = <<>> /\ wire' = wire /\ buf' = buf /\ pc'[c] = "write" /\ pc'[s] = pc[s]
        /\ handled' = handled
    BY <1>0, <1>1, <1>i, <2>c DEF Call, NewInv, Typed
  <2>5. Peer(c) = s  BY <2>c DEF Peer
  <2>6. /\ out'[c] = Bytes(m) /\ out'[s] = out[s]
        /\ sent'[s] = Append(sent[s], m) /\ sent'[c] = sent[c]
    BY <1>0, <2>1, <2>5, <2>c, <2>m DEF Prepare, Typed
  <2>7. Ordered(s)' /\ Unread(c)' = Unread(c)
    <3>1. Peer(s) = c  BY <2>c DEF Peer
    <3>2. Unread(c)' = Unread(c)  BY <2>4, <2>5, <2>6, KeepUnread
    <3>3. Ordered(s)'  BY <1>0, <1>i, <2>3, <2>4, <2>6, <3>1, PreparedNew
    <3> QED  BY <3>2, <3>3
  <2>8. NewInv(c)'  BY <1>i, <2>4, <2>6, <2>7, KeepNew
  <2>9. NewInv(s)'  BY <1>i, <2>4, <2>6, <2>7 DEF NewInv, Small
  <2> QED  BY <2>c, <2>8, <2>9 DEF End
<1>2. ASSUME NEW e \in End, WriteSome(e) PROVE \A f \in End : NewInv(f)'
  <2>p. PICK p \in End : p = Peer(e) /\ Peer(p) = e /\ p # e  BY <1>0
  <2>1. PICK n \in 1..Len(out[e]) :
          /\ wire' = [wire EXCEPT ![Peer(e)] = @ \o SubSeq(out[e], 1, n)]
          /\ out' = [out EXCEPT ![e] = SubSeq(@, n + 1, Len(@))]
          /\ pc' = [pc EXCEPT ![e] = IF n = Len(out[e]) THEN Written(e) ELSE @]
          /\ buf' = buf /\ pc[e] = "write" /\ sent' = sent /\ handled' = handled
    BY <1>2 DEF WriteSome
  <2>2. out[e] \in Seq(Byte) /\ wire[p] \in Seq(Byte) /\ n \in 0..Len(out[e])
    BY <1>0 DEF Typed
  <2>3. /\ wire'[p] = wire[p] \o SubSeq(out[e], 1, n) /\ wire'[e] = wire[e]
        /\ out'[e] = SubSeq(out[e], n + 1, Len(out[e])) /\ out'[p] = out[p]
        /\ pc'[p] = pc[p] /\ pc'[e] = IF n = Len(out[e]) THEN Written(e) ELSE pc[e]
    BY <1>0, <2>p, <2>1, Zenon DEF Typed
  <2>4. Unread(e)' = Unread(e)  BY <2>p, <2>1, <2>3, KeepUnread
  <2>5. Unread(p)' = Unread(p)
    <3>l. PICK l \in Seq(Byte) : l = Live(buf[p])  BY <1>0, UnreadBytes
    <3>a. PICK a \in Seq(Byte), b \in Seq(Byte) : a = SubSeq(out[e], 1, n) /\ b = SubSeq(out[e], n + 1, Len(out[e]))
      BY <2>2, Cut
    <3>w. PICK w \in Seq(Byte) : w = wire[p]  BY <2>2
    <3>1. Unread(p)' = (l \o (w \o a)) \o b  BY <2>p, <2>1, <2>3, <3>l, <3>a, <3>w DEF Unread, Live
    <3>2. a \o b = out[e]  BY <2>2, <3>a, Halves
    <3>3. l \o (w \o a) = (l \o w) \o a  BY Assoc
    <3>4. ((l \o w) \o a) \o b = (l \o w) \o (a \o b)
      <4>1. l \o w \in Seq(Byte)  BY Joined
      <4> QED  BY <4>1, Assoc
    <3>5. Unread(p) = (l \o w) \o out[e]  BY <2>p, <3>l, <3>w DEF Unread
    <3> QED  BY <3>1, <3>2, <3>3, <3>4, <3>5
  <2>6. n = Len(out[e]) => out'[e] = <<>>  BY <2>2, <2>3
  <2>7. NewInv(e)'
    <3>1. pc'[e] \notin {"write", "closed"} => out'[e] = <<>>  BY <2>1, <2>3, <2>6
    <3> QED  BY <1>i, <2>1, <2>4, <3>1, KeepNew
  <2>8. NewInv(p)'
    <3>1. pc'[p] \notin {"write", "closed"} => out'[p] = <<>>  BY <1>i, <2>3 DEF NewInv
    <3> QED  BY <1>i, <2>1, <2>5, <3>1, KeepNew
  <2>9. \A f \in End : f = e \/ f = p  BY <2>p DEF End, Peer
  <2> QED  BY <2>7, <2>8, <2>9
<1>3. ASSUME NEW e \in End, ReadSome(e) PROVE \A f \in End : NewInv(f)'
  <2> TAKE f \in End
  <2>1. PICK n \in 1..Len(wire[e]) :
          /\ n <= Len(buf[e].data) - buf[e].bytes
          /\ buf' = [buf EXCEPT ![e] = Filled(@, SubSeq(wire[e], 1, n))]
          /\ wire' = [wire EXCEPT ![e] = SubSeq(@, n + 1, Len(@))]
          /\ pc' = [pc EXCEPT ![e] = "parse"] /\ out' = out /\ pc[e] = "read"
          /\ sent' = sent /\ handled' = handled
    BY <1>3 DEF ReadSome
  <2>2. wire[e] \in Seq(Byte) /\ n \in 0..Len(wire[e])  BY <1>0 DEF Typed
  <2>s. PICK s \in Seq(Byte), t \in Seq(Byte) :
          s = SubSeq(wire[e], 1, n) /\ t = SubSeq(wire[e], n + 1, Len(wire[e])) /\ Len(s) = n
    BY <2>2, Cut
  <2>4. buf[e].offset = 0 /\ Fit(buf[e]) /\ buf[e] \in Buf  BY <1>0, <2>1 DEF RoomInv
  <2>5. buf[e].bytes + Len(s) <= Len(buf[e].data) /\ Len(s) > 0
    BY <2>1, <2>s, <2>4 DEF Buf
  <2>6. Len(Filled(buf[e], s).data) = Len(buf[e].data) /\ Live(Filled(buf[e], s)) = Live(buf[e]) \o s
    BY <2>4, <2>5, FilledFits
  <2>7. CASE f = e
    <3>1. buf'[e] = Filled(buf[e], s) /\ wire'[e] = t  BY <1>0, <2>1, <2>s, Zenon DEF Typed
    <3>l. PICK l \in Seq(Byte) : l = Live(buf[e])  BY <1>0, UnreadBytes
    <3>o. PICK o : o = out[Peer(e)]  OBVIOUS
    <3>2. Live(buf'[e]) = l \o s  BY <2>6, <3>1, <3>l
    <3>3. Unread(e)' = ((l \o s) \o t) \o o
      <4>1. Unread(e)' = (Live(buf'[e]) \o wire'[e]) \o out'[Peer(e)]  BY DEF Unread, Live, Peer
      <4> QED  BY <2>1, <3>1, <3>2, <3>o, <4>1
    <3>4. (l \o s) \o t = l \o wire[e]  BY <2>2, <2>s, Moved
    <3>5. Unread(e)' = Unread(e)  BY <3>3, <3>4, <3>l, <3>o DEF Unread
    <3>6. out'[e] = <<>>  BY <1>i, <2>1 DEF NewInv
    <3> QED  BY <1>i, <2>1, <2>6, <2>7, <3>1, <3>5, <3>6, KeepNew
  <2>8. CASE f # e
    <3>1. buf'[f] = buf[f] /\ wire'[f] = wire[f] /\ pc'[f] = pc[f] /\ out' = out
      BY <1>0, <2>1, <2>8, Zenon DEF Typed
    <3>2. Unread(f)' = Unread(f)  BY <3>1, KeepUnread
    <3>3. pc'[f] \notin {"write", "closed"} => out'[f] = <<>>  BY <1>i, <3>1 DEF NewInv
    <3> QED  BY <1>i, <2>1, <3>1, <3>2, <3>3, KeepNew
  <2> QED  BY <2>7, <2>8
<1>4. ASSUME NEW e \in End, NeedMore(e) PROVE \A f \in End : NewInv(f)'
  <2> TAKE f \in End
  <2>1. /\ buf' = [buf EXCEPT ![e] = GetInBuf(@)] /\ pc' = [pc EXCEPT ![e] = "read"]
        /\ wire' = wire /\ out' = out /\ pc[e] = "parse" /\ Incomplete(buf[e])
        /\ sent' = sent /\ handled' = handled
    BY <1>4 DEF NeedMore
  <2>t. PICK t \in Buf : t = Trimmed(buf[e]) /\ Fit(t) /\ t.offset = 0 /\ Live(t) = Live(buf[e])
    BY <1>0, TrimmedFits
  <2>2. Live(GetInBuf(buf[e])) = Live(buf[e])  BY <2>t, ResizedFits DEF GetInBuf
  <2>3. Small(GetInBuf(buf[e]))  BY <1>0, <1>i, <2>1, GrownSmall
  <2>4. CASE f = e
    <3>1. buf'[e] = GetInBuf(buf[e])  BY <1>0, <2>1, Zenon DEF Typed
    <3>2. Unread(e)' = (Live(buf'[e]) \o wire'[e]) \o out'[Peer(e)]  BY DEF Unread, Live, Peer
    <3>3. Unread(e)' = Unread(e)  BY <2>1, <2>2, <3>1, <3>2 DEF Unread
    <3>4. out'[e] = <<>>  BY <1>i, <2>1 DEF NewInv
    <3>5. Small(buf'[e])  BY <2>3, <3>1
    <3>6. Ordered(e)'  BY <1>i, <2>1, <3>3, KeepOrdered DEF NewInv
    <3> QED  BY <2>4, <3>4, <3>5, <3>6 DEF NewInv, Small
  <2>5. CASE f # e
    <3>1. buf'[f] = buf[f] /\ pc'[f] = pc[f]  BY <1>0, <2>1, <2>5, Zenon DEF Typed
    <3>2. Unread(f)' = Unread(f)  BY <2>1, <3>1, KeepUnread
    <3>3. pc'[f] \notin {"write", "closed"} => out'[f] = <<>>  BY <1>i, <2>1, <3>1 DEF NewInv
    <3> QED  BY <1>i, <2>1, <3>1, <3>2, <3>3, KeepNew
  <2> QED  BY <2>4, <2>5
<1>5. ASSUME NEW e \in End, ReadMessage(e) PROVE \A f \in End : NewInv(f)'
  <2>p. PICK p \in End : p = Peer(e) /\ Peer(p) = e /\ p # e  BY <1>0
  <2>0. buf[e].bytes >= Header /\ pc[e] = "parse" /\ wire' = wire /\ buf[e].bytes > 0
    BY <1>0, <1>5 DEF ReadMessage, ChannelConstants, Buf
  <2>m. PICK m \in Msg :
          /\ m.size \in Packet /\ m.size \in 1..Len(Unread(e))
          /\ \A j \in 1..m.size : Unread(e)[j] = [msg |-> m, at |-> j]
          /\ PacketBytes(buf[e]) = {m.size} /\ Framed(buf[e]) = {m} /\ After(e, m)
    BY <1>0, <1>i, <2>0, NextFrame DEF NewInv
  <2>1. PICK h \in Framed(buf[e]) :
          /\ m.size <= buf[e].bytes /\ IsMessage(buf[e], m.size, h) /\ Handle(e, h)
          /\ buf' = [buf EXCEPT ![e] = Taken(@, m.size)]
    BY <1>5, <2>m DEF ReadMessage
  <2>2. /\ buf'[e] = Taken(buf[e], m.size) /\ buf'[p] = buf[p]  BY <1>0, <2>p, <2>1, Zenon DEF Typed
  <2>3. m.size \in Nat  BY <2>m DEF Msg
  <2>4. /\ Len(Taken(buf[e], m.size).data) = Len(buf[e].data)
        /\ Live(Taken(buf[e], m.size)) = SubSeq(Live(buf[e]), m.size + 1, Len(Live(buf[e])))
    BY <1>0, <2>0, <2>1, <2>3, TakenFits
  <2>5. /\ out'[p] = out[p] /\ pc'[p] = pc[p]
        /\ pc'[e] \in {"write", "parse", "idle"}
        /\ \/ pc'[e] # "write" /\ out'[e] = out[e]
           \/ /\ pc'[e] = "write"
              /\ \E r \in Msg : r.size \in Packet /\ out'[e] = Bytes(r) /\ sent'[p] = Append(sent[p], r)
        /\ pc'[e] # "write" => sent'[p] = sent[p]
        /\ sent'[e] = sent[e] /\ handled'[p] = handled[p]
        /\ handled'[e] = Append(handled[e], m)
    <3>h. handled'[e] = Append(handled[e], m) /\ handled'[p] = handled[p]
      <4>1. handled' = [handled EXCEPT ![e] = Append(@, h)] /\ h = m  BY <2>m, <2>1 DEF Handle
      <4> QED  BY <1>0, <2>p, <4>1, Zenon DEF Typed
    <3>1. CASE e = "server" /\ h.reply
      <4>1. PICK k \in Packet : Prepare(e, [conn |-> h.conn, id |-> h.id, size |-> k, reply |-> FALSE])
        BY <2>1, <3>1 DEF Handle
      <4>2. h \in Msg  BY <1>0, <2>0, FramedTyped
      <4>r. PICK r : r = [conn |-> h.conn, id |-> h.id, size |-> k, reply |-> FALSE]  OBVIOUS
      <4>3. r \in Msg /\ r.size \in Packet  BY <1>0, <4>2, <4>r DEF Msg
      <4>4. /\ out'[e] = Bytes(r) /\ out'[p] = out[p]
            /\ sent'[p] = Append(sent[p], r) /\ sent'[e] = sent[e]
        BY <1>0, <2>p, <4>1, <4>r, Zenon DEF Prepare, Typed
      <4>5. pc'[e] = "write" /\ pc'[p] = pc[p]  BY <1>0, <2>p, <2>1, <3>1 DEF Handle, Typed
      <4> QED  BY <3>h, <4>3, <4>4, <4>5
    <3>2. CASE ~(e = "server" /\ h.reply)
      <4>1. out' = out /\ sent' = sent /\ pc' = [pc EXCEPT ![e] = IF e = "server" THEN "parse" ELSE "idle"]
        BY <2>1, <3>2 DEF Handle
      <4> QED  BY <1>0, <2>p, <3>h, <4>1 DEF Typed
    <3> QED  BY <3>1, <3>2
  <2>6. out[e] = <<>>  BY <1>i, <2>0 DEF NewInv
  <2>7. NewInv(e)'
    <3>a. PICK a \in Seq(Byte), w \in Seq(Byte), o \in Seq(Byte) :
            a = Live(buf[e]) /\ w = wire[e] /\ o = out[p] /\ Len(a) = buf[e].bytes
      BY <1>0, <2>p, UnreadBytes, LiveBytes DEF Fit
    <3>n. PICK n \in Nat : n = m.size /\ n \in 0..Len(a)
      <4>1. m.size <= Len(a) /\ Len(a) \in Nat  BY <2>1, <3>a
      <4> QED  BY <2>3, <4>1
    <3>t. PICK t \in Seq(Byte) : t = SubSeq(a, n + 1, Len(a))  BY <3>n, Cut
    <3>1. Unread(e)' = (t \o w) \o o
      <4>1. Unread(e)' = (Live(buf'[e]) \o wire'[e]) \o out'[Peer(e)]  BY DEF Unread, Live, Peer
      <4> QED  BY <2>p, <2>0, <2>2, <2>4, <2>5, <3>a, <3>n, <3>t, <4>1
    <3>u. PICK u \in Seq(Byte) : u = a \o w /\ Len(u) = Len(a) + Len(w)  BY Joined
    <3>2. t \o w = SubSeq(u, n + 1, Len(u))  BY <3>n, <3>t, <3>u, Dropped
    <3>3. n \in 0..Len(u)  BY <3>n, <3>u
    <3>4. (t \o w) \o o = SubSeq(u \o o, n + 1, Len(u \o o))
      <4>1. SubSeq(u, n + 1, Len(u)) \o o = SubSeq(u \o o, n + 1, Len(u \o o))  BY <3>3, Dropped
      <4> QED  BY <3>2, <4>1
    <3>5. Unread(e) = u \o o  BY <2>p, <3>a, <3>u DEF Unread
    <3>6. Unread(e)' = SubSeq(Unread(e), m.size + 1, Len(Unread(e)))  BY <3>n, <3>1, <3>4, <3>5
    <3>7. PICK q \in Seq(Msg) :
            /\ sent[e] = Append(handled[e], m) \o q
            /\ Lined(q, SubSeq(Unread(e), m.size + 1, Len(Unread(e))))
      BY <2>m DEF After
    <3>8. Ordered(e)'
      <4>1. sent'[e] = handled'[e] \o q  BY <2>5, <3>7
      <4>2. Lined(q, Unread(e)')  BY <3>6, <3>7
      <4> QED  BY <4>1, <4>2 DEF Ordered, Lined, Layout
    <3>9. Small(buf'[e])  BY <1>i, <2>2, <2>4 DEF NewInv, Small
    <3>10. pc'[e] \notin {"write", "closed"} => out'[e] = <<>>  BY <2>5, <2>6
    <3> QED  BY <3>8, <3>9, <3>10 DEF NewInv, Small
  <2>8. NewInv(p)'
    <3>1. CASE pc'[e] # "write"
      <4>1. Unread(p)' = Unread(p)  BY <2>p, <2>0, <2>2, <2>5, <3>1, KeepUnread
      <4>2. pc'[p] \notin {"write", "closed"} => out'[p] = <<>>  BY <1>i, <2>5 DEF NewInv
      <4> QED  BY <1>i, <2>2, <2>5, <3>1, <4>1, <4>2, KeepNew
    <3>2. CASE pc'[e] = "write"
      <4>1. PICK r \in Msg : r.size \in Packet /\ out'[e] = Bytes(r) /\ sent'[p] = Append(sent[p], r)
        BY <2>5, <3>2
      <4>2. Ordered(p)'  BY <1>0, <1>i, <2>p, <2>0, <2>2, <2>5, <2>6, <4>1, PreparedNew
      <4> QED  BY <1>i, <2>2, <2>5, <4>2 DEF NewInv, Small
    <3> QED  BY <3>1, <3>2
  <2>9. \A f \in End : f = e \/ f = p  BY <2>p DEF End, Peer
  <2> QED  BY <2>7, <2>8, <2>9
<1>6. ASSUME NEW e \in End, Garbage(e) \/ Fail(e) PROVE \A f \in End : NewInv(f)'
  <2> TAKE f \in End
  <2>1. /\ buf' = buf /\ wire' = wire /\ out' = out /\ pc' = [pc EXCEPT ![e] = "closed"]
        /\ sent' = sent /\ handled' = handled
    BY <1>6 DEF Garbage, Fail
  <2>2. Unread(f)' = Unread(f)  BY <2>1, KeepUnread
  <2>3. pc'[f] \notin {"write", "closed"} => out'[f] = <<>>  BY <1>0, <1>i, <2>1 DEF NewInv, Typed
  <2> QED  BY <1>i, <2>1, <2>2, <2>3, KeepNew
<1>7. CASE Break \/ UNCHANGED channelVars
  <2> TAKE f \in End
  <2>1. buf' = buf /\ wire' = wire /\ out' = out /\ pc' = pc /\ sent' = sent /\ handled' = handled
    BY <1>7 DEF Break, channelVars
  <2>2. Unread(f)' = Unread(f)  BY <2>1, KeepUnread
  <2>3. pc'[f] \notin {"write", "closed"} => out'[f] = <<>>  BY <1>i, <2>1 DEF NewInv
  <2> QED  BY <1>i, <2>1, <2>2, <2>3, KeepNew
<1>8. ~Connect
  <2> SUFFICES ASSUME Connect PROVE FALSE  OBVIOUS
  <2>1. conn' = conn + 1 /\ conn = 1 /\ conn' = 1  BY <1>n DEF Connect, New
  <2> QED  BY <2>1
<1> QED  BY <1>1, <1>2, <1>3, <1>4, <1>5, <1>6, <1>7, <1>8 DEF ChannelNext, Step

-----------------------------------------------------------------------------
(* FlattenSeq, which the property is stated with. *)

\* Induction over a set: the least number that is not in it has no place.
LEMMA SetInduction ==
  ASSUME NEW T, 0 \in T, \A n \in Nat : n \in T => n + 1 \in T
  PROVE  Nat \subseteq T
<1> DEFINE R == OpToRel(<, Nat)
           U == {n \in Nat : n \notin T}
<1> SUFFICES ASSUME U # {} PROVE FALSE  OBVIOUS
<1>1. R = {p \in Nat \X Nat : p[1] < p[2]}  BY DEF OpToRel
<1>2. IsWellFoundedOn(R, Nat)  BY NatLessThanWellFounded, Zenon
<1>3. U \subseteq Nat /\ U # {}  OBVIOUS
<1> HIDE DEF R
<1>4. PICK x \in U : \A y \in U : ~(<<y, x>> \in R)  BY <1>2, <1>3, WFMin
<1>5. x \in Nat /\ x # 0 /\ x \notin T  OBVIOUS
<1>6. x - 1 \in Nat /\ x - 1 < x /\ (x - 1) + 1 = x  BY <1>5
<1>7. <<x - 1, x>> \in R  BY <1>1, <1>5, <1>6
<1>8. x - 1 \in T  BY <1>4, <1>6, <1>7
<1> QED  BY <1>5, <1>6, <1>8

\* p[i] are the first i of the k sequences in b, one behind the other.
Flattens(p, b, k) == p[1] = b[1] /\ \A i \in 2..k : p[i] = p[i - 1] \o b[i]

LEMMA Flattened ==
  ASSUME NEW b, NEW k, k \in Nat \ {0}, Len(b) = k, NEW p, Flattens(p, b, k)
  PROVE  FlattenSeq(b) = p[k]
<1>0. p[1] = b[1] /\ \A i \in 2..k : p[i] = p[i - 1] \o b[i]  BY DEF Flattens
<1>1. PICK w : w = [i \in 1..Len(b) |-> p[i]]  OBVIOUS
<1>2. w = [i \in 1..Len(b) |-> IF i = 1 THEN b[i] ELSE w[i - 1] \o b[i]]
  <2>1. ASSUME NEW i \in 1..Len(b) PROVE p[i] = IF i = 1 THEN b[i] ELSE w[i - 1] \o b[i]
    <3>1. i # 1 => i \in 2..k /\ i - 1 \in 1..Len(b)  OBVIOUS
    <3> QED  BY <1>0, <1>1, <3>1
  <2> QED  BY <1>1, <2>1
<1>3. PICK q : /\ q = [i \in 1..Len(b) |-> IF i = 1 THEN b[i] ELSE q[i - 1] \o b[i]]
               /\ FlattenSeq(b) = q[Len(b)]
  BY <1>2 DEF FlattenSeq
<1>4. /\ q[1] = b[1]
      /\ \A i \in 2..k : q[i] = q[i - 1] \o b[i]
  <2>1. ASSUME NEW i \in 1..k PROVE q[i] = IF i = 1 THEN b[i] ELSE q[i - 1] \o b[i]  BY <1>3
  <2>2. 1 \in 1..k  OBVIOUS
  <2>3. \A i \in 2..k : i \in 1..k /\ i # 1  OBVIOUS
  <2> QED  BY <2>1, <2>2, <2>3
<1>5. PICK T : T = {i \in Nat : i \in 1..k => q[i] = p[i]}  OBVIOUS
<1>6. 0 \in T  BY <1>5
<1>7. ASSUME NEW n \in Nat, n \in T PROVE n + 1 \in T
  <2>1. CASE n + 1 \in 2..k
    <3>1. q[n + 1] = q[n] \o b[n + 1] /\ p[n + 1] = p[n] \o b[n + 1]
      <4>1. (n + 1) - 1 = n  OBVIOUS
      <4> QED  BY <1>0, <1>4, <2>1, <4>1
    <3>2. q[n] = p[n]  BY <1>5, <1>7, <2>1
    <3>3. q[n + 1] = p[n + 1]  BY <3>1, <3>2, Zenon
    <3> QED  BY <1>5, <3>3
  <2>2. CASE n + 1 = 1
    <3>1. q[1] = p[1]  BY <1>0, <1>4
    <3>2. q[n + 1] = p[n + 1]  BY <2>2, <3>1
    <3> QED  BY <1>5, <3>2
  <2>3. CASE n + 1 > k  BY <1>5, <2>3
  <2> QED  BY <2>1, <2>2, <2>3
<1>8. k \in T  BY <1>6, <1>7, SetInduction
<1> QED  BY <1>3, <1>5, <1>8

\* Messages in a line are what FlattenSeq makes of them.
LEMMA LinedIsFlat ==
  ASSUME NEW s \in Seq(Byte), NEW ms \in Seq(Msg), Lined(ms, s)
  PROVE  s = FlattenSeq([i \in DOMAIN ms |-> Bytes(ms[i])])
<1>1. PICK at : Layout(ms, s, at)  BY DEF Lined
<1>k. PICK k \in Nat, l \in Nat : k = Len(ms) /\ l = Len(s) /\ DOMAIN ms = 1..k  OBVIOUS
<1>2. /\ \A i \in 0..k : at[i] \in 0..l
      /\ at[0] = 0 /\ at[k] = l
      /\ \A i \in 1..k :
           /\ at[i] = at[i - 1] + ms[i].size
           /\ \A j \in 1..ms[i].size : s[at[i - 1] + j] = [msg |-> ms[i], at |-> j]
  BY <1>1, <1>k DEF Layout
<1>b. PICK b : b = [i \in 1..k |-> Bytes(ms[i])]  OBVIOUS
<1>3. Len(b) = k /\ b \in Seq(Seq(Byte))
  <2>1. \A i \in 1..k : Bytes(ms[i]) \in Seq(Byte)
    <3> TAKE i \in 1..k
    <3>1. ms[i] \in Msg  BY <1>k, ElementOfSeq
    <3> QED  BY <3>1, BytesOf
  <2> QED  BY <1>b, <2>1
<1>4. CASE k = 0
  <2>1. Len(s) = 0  BY <1>k, <1>2, <1>4
  <2>2. s = <<>>  BY <2>1
  <2>3. b = <<>>  BY <1>3, <1>4
  <2>4. FlattenSeq(b) = b  BY <1>3, <1>4 DEF FlattenSeq
  <2> QED  BY <1>b, <1>k, <2>2, <2>3, <2>4
<1>5. CASE k > 0
  <2>p. PICK p : p = [i \in 0..k |-> SubSeq(s, 1, at[i])]  OBVIOUS
  <2>1. ASSUME NEW i \in 1..k PROVE p[i] = p[i - 1] \o b[i]
    <3>m. PICK m \in Msg : m = ms[i]  BY <1>k, ElementOfSeq
    <3>a. PICK x \in 0..l, y \in 0..l, z \in Nat : x = at[i - 1] /\ y = at[i] /\ z = m.size /\ y = x + z
      <4>1. i \in 0..k /\ i - 1 \in 0..k  OBVIOUS
      <4>2. m.size \in Nat  BY DEF Msg
      <4>3. at[i - 1] \in 0..l /\ at[i] \in 0..l  BY <1>2, <4>1
      <4>4. at[i] = at[i - 1] + m.size  BY <1>2, <3>m
      <4> QED  BY <4>2, <4>3, <4>4
    <3>c. PICK c \in Seq(Byte) :
            c = Bytes(m) /\ Len(c) = z /\ \A j \in 1..z : c[j] = [msg |-> m, at |-> j]
      BY <3>a, BytesOf
    <3>u. PICK u : u = SubSeq(s, 1, x)  OBVIOUS
    <3>1. u \in Seq(Byte) /\ Len(u) = x /\ \A j \in 1..x : u[j] = s[j]
      BY <3>a, <3>u, <1>k, Cut
    <3>v. PICK v : v = SubSeq(s, 1, y)  OBVIOUS
    <3>2. v \in Seq(Byte) /\ Len(v) = y /\ \A j \in 1..y : v[j] = s[j]
      BY <3>a, <3>v, <1>k, Cut
    <3>w. PICK w : w = u \o c  OBVIOUS
    <3>3. /\ w \in Seq(Byte) /\ Len(w) = x + z
          /\ \A j \in 1..x : w[j] = u[j]
          /\ \A j \in 1..z : w[x + j] = c[j]
      <4>1. /\ w \in Seq(Byte) /\ Len(w) = Len(u) + Len(c)
            /\ \A j \in 1..Len(u) : w[j] = u[j]
            /\ \A j \in 1..Len(c) : w[Len(u) + j] = c[j]
        <5>1. u \in Seq(Byte) /\ c \in Seq(Byte)  BY <3>c, <3>1
        <5> QED  BY <3>w, <5>1, Joined
      <4> QED  BY <3>c, <3>1, <4>1
    <3>4. ASSUME NEW j \in 1..y PROVE v[j] = w[j]
      <4>1. CASE j <= x
        <5>1. j \in 1..x  BY <4>1, <3>a
        <5> QED  BY <3>1, <3>2, <3>3, <5>1
      <4>2. CASE j > x
        <5>1. j - x \in 1..z /\ x + (j - x) = j  BY <3>a, <4>2
        <5>2. w[j] = [msg |-> m, at |-> j - x]  BY <3>c, <3>3, <5>1
        <5>3. s[j] = [msg |-> m, at |-> j - x]  BY <1>2, <3>m, <3>a, <5>1
        <5> QED  BY <3>2, <5>2, <5>3
      <4> QED  BY <3>a, <4>1, <4>2
    <3>5. v = w
      <4>1. Len(v) = Len(w) /\ \A j \in 1..Len(v) : v[j] = w[j]  BY <3>a, <3>2, <3>3, <3>4
      <4> QED  BY <3>2, <3>3, <4>1, SeqEqual
    <3>6. p[i] = v /\ p[i - 1] = u
      <4>1. i \in 0..k /\ i - 1 \in 0..k  OBVIOUS
      <4> QED  BY <2>p, <3>a, <3>u, <3>v, <4>1
    <3>7. b[i] = c  BY <1>b, <3>m, <3>c
    <3> QED  BY <3>w, <3>5, <3>6, <3>7
  <2>2. p[1] = b[1]
    <3>1. p[1] = p[0] \o b[1]
      <4>1. 1 \in 1..k /\ 1 - 1 = 0  BY <1>5
      <4> QED  BY <2>1, <4>1
    <3>2. p[0] = SubSeq(s, 1, 0)  BY <2>p, <1>2
    <3>3. p[0] = <<>>  BY <3>2, SubSeqEmpty
    <3>4. b[1] \in Seq(Byte)  BY <1>3, <1>5, ElementOfSeq
    <3> QED  BY <3>1, <3>3, <3>4
  <2>3. \A i \in 2..k : p[i] = p[i - 1] \o b[i]
    <3>1. \A i \in 2..k : i \in 1..k  OBVIOUS
    <3> QED  BY <2>1, <3>1
  <2>4. FlattenSeq(b) = p[k]
    <3>1. k \in Nat \ {0} /\ Len(b) = k  BY <1>3, <1>5
    <3>2. Flattens(p, b, k)  BY <2>2, <2>3 DEF Flattens
    <3> QED  BY <3>1, <3>2, Flattened
  <2>5. p[k] = SubSeq(s, 1, Len(s))  BY <2>p, <1>2, <1>k
  <2>6. SubSeq(s, 1, Len(s)) = s  BY SubSeqFull
  <2> QED  BY <1>b, <1>k, <2>4, <2>5, <2>6
<1> QED  BY <1>4, <1>5

-----------------------------------------------------------------------------
(* The theorems. *)

LEMMA StepIInv == ChannelConstants /\ IInv /\ [ChannelNext]_channelVars => IInv'
<1> SUFFICES ASSUME ChannelConstants, IInv, [ChannelNext]_channelVars PROVE IInv'  OBVIOUS
<1>1. Typed'  BY StepTyped
<1>2. \A e \in End : RoomInv(e)'  BY StepRoom
<1>3. New' => \A e \in End : NewInv(e)'  BY StepNew
<1> QED  BY <1>1, <1>2, <1>3 DEF IInv

LEMMA Inductive == ASSUME ChannelConstants PROVE ChannelSpec => []IInv
<1>1. ChannelInit => IInv
  <2> SUFFICES ASSUME ChannelInit PROVE IInv  OBVIOUS
  <2>1. Typed  BY InitTyped
  <2>2. \A e \in End : RoomInv(e)  BY InitRoom
  <2>3. \A e \in End : NewInv(e)  BY InitNew
  <2> QED  BY <2>1, <2>2, <2>3 DEF IInv
<1>2. IInv /\ [ChannelNext]_channelVars => IInv'  BY StepIInv
<1> QED  BY <1>1, <1>2, PTL DEF ChannelSpec

\* A read is never handed a full buffer, whatever an earlier connection left in
\* it, and the buffer of a new connection stays below twice the largest message
\* or at its initial size: GetInBuf, for every size of both.
THEOREM RoomToRead == ASSUME ChannelConstants PROVE ChannelSpec => []BufferFits
<1>1. IInv => BufferFits
  <2> SUFFICES ASSUME IInv PROVE BufferFits  OBVIOUS
  <2>1. \A e \in End : pc[e] = "read" => buf[e].bytes < Len(buf[e].data)  BY DEF IInv, RoomInv
  <2>2. New => \A e \in End : Small(buf[e])  BY DEF IInv, NewInv
  <2> QED  BY <2>1, <2>2 DEF BufferFits, Small
<1>2. ChannelSpec => []IInv  BY Inductive
<1> QED  BY <1>1, <1>2, PTL

\* On a new TcpConnection the first bytes of the buffer are always a length, and
\* with that many bytes TryReadMessage finds a message: it never returns -2,
\* however the sockets cut the bytes.
THEOREM NoGarbage == ASSUME ChannelConstants PROVE ChannelSpec => [][New => \A e \in End : ~Garbage(e)]_channelVars
<1>1. IInv /\ [ChannelNext]_channelVars => [New => \A e \in End : ~Garbage(e)]_channelVars
  <2> SUFFICES ASSUME IInv, New, NEW e \in End, Garbage(e) PROVE FALSE  OBVIOUS
  <2>1. Typed /\ Fit(buf[e]) /\ Ordered(e)  BY DEF IInv, RoomInv, NewInv
  <2>2. PICK n \in PacketBytes(buf[e]) :
          n <= buf[e].bytes /\ ~\E m \in Framed(buf[e]) : IsMessage(buf[e], n, m)
    BY DEF Garbage
  <2>3. buf[e].bytes >= Header  BY DEF Garbage
  <2>4. PICK m \in Msg :
          /\ PacketBytes(buf[e]) = {m.size}
          /\ m.size <= buf[e].bytes => m \in Framed(buf[e]) /\ IsMessage(buf[e], m.size, m)
    BY <2>1, <2>3, NextFrame
  <2> QED  BY <2>2, <2>4
<1>2. ChannelSpec => []IInv  BY Inductive
<1> QED  BY <1>1, <1>2, PTL DEF ChannelSpec

\* On a new connection each end has deserialized what the other has sent it,
\* message for message and in order, and what it has not read yet are exactly
\* the bytes of the others (TryReadMessage, GetInBuf and the sockets' cuts).
THEOREM MessagesInOrder == ASSUME ChannelConstants PROVE ChannelSpec => []InOrder
<1>1. IInv => InOrder
  <2> SUFFICES ASSUME IInv, New, NEW e \in End
               PROVE  LET unread == SubSeq(buf[e].data, buf[e].offset + 1, buf[e].offset + buf[e].bytes)
                                      \o wire[e] \o out[Peer(e)]
                          pending == SubSeq(sent[e], Len(handled[e]) + 1, Len(sent[e]))
                      IN  /\ handled[e] = SubSeq(sent[e], 1, Len(handled[e]))
                          /\ unread = FlattenSeq([i \in DOMAIN pending |-> Bytes(pending[i])])
    BY DEF InOrder
  <2>1. Typed /\ Fit(buf[e]) /\ Ordered(e)  BY DEF IInv, RoomInv, NewInv
  <2>p. PICK p \in Seq(Msg) : sent[e] = handled[e] \o p /\ Lined(p, Unread(e))  BY <2>1 DEF Ordered
  <2>h. PICK h \in Seq(Msg) : h = handled[e]  BY <2>1 DEF Typed
  <2>2. Unread(e) \in Seq(Byte)  BY <2>1, UnreadBytes
  <2>3. Unread(e) = FlattenSeq([i \in DOMAIN p |-> Bytes(p[i])])  BY <2>p, <2>2, LinedIsFlat
  <2>4. SubSeq(h \o p, 1, Len(h)) = h /\ SubSeq(h \o p, Len(h) + 1, Len(h \o p)) = p
    OBVIOUS
  <2> QED  BY <2>p, <2>h, <2>3, <2>4 DEF Unread, Live
<1>2. ChannelSpec => []IInv  BY Inductive
<1> QED  BY <1>1, <1>2, PTL
=============================================================================
