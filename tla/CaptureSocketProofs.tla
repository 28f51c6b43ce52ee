------------------------- MODULE CaptureSocketProofs -------------------------
(***************************************************************************)
(* Proofs about CaptureSocket and the two modules it is built from, for    *)
(* any capture file, any cutting of it into messages, and any timing.      *)
(*                                                                         *)
(*   Pcapng   the incremental reader, fed a file in chunks, yields the     *)
(*            packets and keeps the tail that one read of the whole file   *)
(*            yields;                                                      *)
(*   Dot11    the summary's accumulators, updated packet by packet, hold   *)
(*            what the packets told so far say, in whatever message they   *)
(*            came;                                                        *)
(*   Socket   so the summary shown is always that of the file received,    *)
(*            and a capture that was not cut short has lost nothing of it. *)
(*                                                                         *)
(* What a recursive function computes is shown by induction on the length  *)
(* of its argument: the set of lengths at which the fact holds contains 0  *)
(* and the successor of each of its members (Induction).                   *)
(***************************************************************************)
EXTENDS CaptureSocket, TLAPS, WellFoundedInduction, SequenceTheorems,
        FiniteSetTheorems

-----------------------------------------------------------------------------
(* The reader.                                                             *)

\* A set of numbers that holds 0 and each one's successor holds every number.
LEMMA Induction ==
    ASSUME NEW S, 0 \in S, \A n \in Nat : n \in S => n + 1 \in S
    PROVE  Nat \subseteq S
  <1> DEFINE R == OpToRel(<, Nat)
             T == Nat \ S
  <1>1. IsWellFoundedOn(R, Nat)
    BY NatLessThanWellFounded
  <1>2. \A x, y \in Nat : <<y, x>> \in R <=> y < x
    BY DEF OpToRel
  <1> SUFFICES ASSUME T # {} PROVE FALSE
    OBVIOUS
  <1> HIDE DEF R
  <1>3. PICK x \in T : \A y \in T : ~(<<y, x>> \in R)
    BY <1>1, WFMin
  <1>4. x - 1 \in Nat /\ x - 1 < x
    BY <1>3
  <1>5. x - 1 \in S
    BY <1>2, <1>3, <1>4
  <1>6. (x - 1) + 1 = x
    BY <1>3
  <1> QED
    BY <1>3, <1>4, <1>5, <1>6

\* The same up to a bound.
LEMMA UpTo ==
    ASSUME NEW T, NEW n \in Nat, 0 \in T, \A k \in 1..n : k - 1 \in T => k \in T
    PROVE  0..n \subseteq T
  <1> DEFINE S == {k \in Nat : k <= n => k \in T}
  <1>1. 0 \in S
    OBVIOUS
  <1>2. ASSUME NEW k \in Nat, k \in S PROVE k + 1 \in S
    <2> SUFFICES ASSUME k + 1 <= n PROVE k + 1 \in T
      OBVIOUS
    <2>1. k + 1 \in 1..n /\ (k + 1) - 1 = k /\ k \in T
      BY <1>2
    <2> QED
      BY <2>1
  <1>3. Nat \subseteq S
    <2> HIDE DEF S
    <2> QED
      BY <1>1, <1>2, Induction
  <1> QED
    BY <1>3

\* The recursive definition of Turns has a value.
LEMMA TurnsDef ==
    ASSUME NEW f
    PROVE  /\ Turns(f)[0] = f
           /\ \A k \in Nat : Turns(f)[k + 1] = Turn(Turns(f)[k])
  <1> DEFINE Start(k, g) == /\ DOMAIN g = 0..k
                            /\ g[0] = f
                            /\ \A i \in 0..k : i # 0 => g[i] = Turn(g[i - 1])
             G(k) == CHOOSE g : Start(k, g)
             S == {k \in Nat : \E g : Start(k, g)}
  <1>1. 0 \in S
    <2>1. Start(0, [i \in 0..0 |-> f])
      OBVIOUS
    <2> QED
      BY <2>1
  <1>2. ASSUME NEW k \in Nat, k \in S PROVE k + 1 \in S
    <2>1. PICK g : Start(k, g)
      BY <1>2
    <2>2. Start(k + 1, [i \in 0..(k + 1) |-> IF i = k + 1 THEN Turn(g[k]) ELSE g[i]])
      BY <2>1
    <2> QED
      BY <2>2
  <1>3. Nat \subseteq S
    <2> HIDE DEF S
    <2> QED
      BY <1>1, <1>2, Induction
  <1>4. ASSUME NEW k \in Nat PROVE Start(k, G(k))
    <2>1. \E g : Start(k, g)
      BY <1>3
    <2> HIDE DEF Start
    <2> QED
      BY <2>1
  <1>5. ASSUME NEW k \in Nat, NEW g, NEW h, Start(k, g), Start(k + 1, h)
        PROVE  g[k] = h[k]
    <2> DEFINE U == {i \in Nat : i <= k => g[i] = h[i]}
    <2>1. 0 \in U
      BY <1>5
    <2>2. ASSUME NEW i \in Nat, i \in U PROVE i + 1 \in U
      <3> SUFFICES ASSUME i + 1 <= k PROVE g[i + 1] = h[i + 1]
        OBVIOUS
      <3>1. g[i] = h[i]
        BY <2>2
      <3>2. i + 1 \in 0..k /\ i + 1 \in 0..(k + 1) /\ i + 1 # 0 /\ (i + 1) - 1 = i
        OBVIOUS
      <3> QED
        BY <1>5, <3>1, <3>2
    <2>3. Nat \subseteq U
      <3> HIDE DEF U
      <3> QED
        BY <2>1, <2>2, Induction
    <2> QED
      BY <2>3
  <1> DEFINE F == [k \in Nat |-> G(k)[k]]
  <1>6. F[0] = f
    BY <1>4
  <1>7. ASSUME NEW k \in Nat PROVE F[k + 1] = Turn(F[k])
    <2>1. Start(k, G(k)) /\ Start(k + 1, G(k + 1))
      <3>1. k + 1 \in Nat
        OBVIOUS
      <3> HIDE DEF G, Start
      <3> QED
        BY <1>4, <3>1
    <2>2. G(k)[k] = G(k + 1)[k]
      <3> HIDE DEF G, Start
      <3> QED
        BY <2>1, <1>5
    <2>3. G(k + 1)[k + 1] = Turn(G(k + 1)[k])
      <3> HIDE DEF G
      <3> QED
        BY <2>1
    <2> HIDE DEF G, Start
    <2> QED
      BY <2>2, <2>3
  <1>8. F = [k \in Nat |-> IF k = 0 THEN f ELSE Turn(F[k - 1])]
    <2> HIDE DEF G, Start, F
    <2>1. ASSUME NEW k \in Nat, k # 0 PROVE F[k] = Turn(F[k - 1])
      <3>1. k - 1 \in Nat /\ (k - 1) + 1 = k
        BY <2>1
      <3> QED
        BY <3>1, <1>7
    <2>2. F = [k \in Nat |-> F[k]]
      BY DEF F
    <2> QED
      BY <1>6, <2>1, <2>2
  <1> HIDE DEF F, G, Start, S
  <1>9. Turns(f) = [k \in Nat |-> IF k = 0 THEN f ELSE Turn(Turns(f)[k - 1])]
    BY <1>8, Zenon DEF Turns
  <1>10. ASSUME NEW k \in Nat
         PROVE  Turns(f)[k] = IF k = 0 THEN f ELSE Turn(Turns(f)[k - 1])
    BY <1>9, Zenon
  <1> QED
    BY <1>10

-----------------------------------------------------------------------------
(* Sequences.                                                              *)

\* Appending chunks of cells is associative.
LEMMA Associative ==
    \A s, t, u \in Seq(Cell) : (s \o t) \o u = s \o (t \o u)
  BY ConcatAssociative

\* What is left of a sequence after its first n members.
LEMMA Suffix ==
    ASSUME NEW S, NEW s \in Seq(S), NEW n \in Nat, n <= Len(s)
    PROVE  /\ SubSeq(s, n + 1, Len(s)) \in Seq(S)
           /\ Len(SubSeq(s, n + 1, Len(s))) = Len(s) - n
           /\ \A i \in 1..(Len(s) - n) : SubSeq(s, n + 1, Len(s))[i] = s[n + i]
  <1>1. \A i \in (n + 1)..Len(s) : s[i] \in S
    OBVIOUS
  <1>2. n + 1 \in Int /\ Len(s) \in Int
    OBVIOUS
  <1> QED
    BY <1>1, <1>2, SubSeqProperties

\* The first n members of a sequence.
LEMMA Prefix ==
    ASSUME NEW S, NEW s \in Seq(S), NEW n \in Nat, n <= Len(s)
    PROVE  /\ SubSeq(s, 1, n) \in Seq(S)
           /\ Len(SubSeq(s, 1, n)) = n
           /\ \A i \in 1..n : SubSeq(s, 1, n)[i] = s[i]
  <1>1. \A i \in 1..n : s[i] \in S
    OBVIOUS
  <1> QED
    BY <1>1, SubSeqProperties

\* What a longer buffer changes of its parts.
LEMMA Longer ==
    ASSUME NEW S, NEW s \in Seq(S), NEW t \in Seq(S), NEW n \in Nat, n <= Len(s)
    PROVE  /\ SubSeq(s \o t, 1, n) = SubSeq(s, 1, n)
           /\ SubSeq(s \o t, n + 1, Len(s \o t)) = SubSeq(s, n + 1, Len(s)) \o t
           /\ s # <<>> => Tail(s \o t) = Tail(s) \o t
  <1>1. /\ s \o t \in Seq(S)
        /\ Len(s \o t) = Len(s) + Len(t)
        /\ \A i \in 1..(Len(s) + Len(t)) :
              (s \o t)[i] = IF i <= Len(s) THEN s[i] ELSE t[i - Len(s)]
    BY ConcatProperties
  <1>2. SubSeq(s \o t, 1, n) = SubSeq(s, 1, n)
    BY <1>1, Prefix, SeqEqual
  <1>3. SubSeq(s \o t, n + 1, Len(s \o t)) = SubSeq(s, n + 1, Len(s)) \o t
    <2> DEFINE u == SubSeq(s, n + 1, Len(s))
    <2>1. /\ u \in Seq(S)
          /\ Len(u) = Len(s) - n
          /\ \A i \in 1..(Len(s) - n) : u[i] = s[n + i]
      BY Suffix
    <2> HIDE DEF u
    <2>2. /\ u \o t \in Seq(S)
          /\ Len(u \o t) = Len(u) + Len(t)
          /\ \A i \in 1..(Len(u) + Len(t)) :
                (u \o t)[i] = IF i <= Len(u) THEN u[i] ELSE t[i - Len(u)]
      BY <2>1, ConcatProperties
    <2> DEFINE v == SubSeq(s \o t, n + 1, Len(s \o t))
    <2>3. /\ v \in Seq(S)
          /\ Len(v) = Len(s \o t) - n
          /\ \A i \in 1..(Len(s \o t) - n) : v[i] = (s \o t)[n + i]
      <3>1. s \o t \in Seq(S) /\ n <= Len(s \o t)
        BY <1>1
      <3> QED
        BY <3>1, Suffix
    <2> HIDE DEF v
    <2>4. v = u \o t
      <3>1. Len(v) = Len(u \o t)
        BY <1>1, <2>1, <2>2, <2>3
      <3>2. ASSUME NEW i \in 1..Len(v) PROVE v[i] = (u \o t)[i]
        <4>1. CASE i <= Len(u)
          BY <4>1, <1>1, <2>1, <2>2, <2>3
        <4>2. CASE i > Len(u)
          <5>1. n + i - Len(s) = i - Len(u)
            BY <2>1, <2>3
          <5> QED
            BY <4>2, <5>1, <1>1, <2>1, <2>2, <2>3, SMTT(30)
        <4> QED
          BY <4>1, <4>2, <2>1, <2>3
      <3> QED
        BY <2>2, <2>3, <3>1, <3>2, SeqEqual
    <2> QED
      BY <2>4 DEF u, v
  <1>4. ASSUME s # <<>> PROVE Tail(s \o t) = Tail(s) \o t
    <2>1. /\ Tail(s) \in Seq(S)
          /\ Len(Tail(s)) = Len(s) - 1
          /\ \A i \in 1..(Len(s) - 1) : Tail(s)[i] = s[i + 1]
          /\ Len(s) > 0
      BY <1>4, HeadTailProperties, EmptySeq
    <2>2. /\ Tail(s \o t) \in Seq(S)
          /\ Len(Tail(s \o t)) = Len(s) + Len(t) - 1
          /\ \A i \in 1..(Len(s) + Len(t) - 1) : Tail(s \o t)[i] = (s \o t)[i + 1]
      <3>1. s \o t # <<>>
        BY <1>1, <2>1
      <3> QED
        BY <1>1, <3>1, HeadTailProperties
    <2>3. /\ Tail(s) \o t \in Seq(S)
          /\ Len(Tail(s) \o t) = Len(s) - 1 + Len(t)
          /\ \A i \in 1..(Len(s) - 1 + Len(t)) :
                (Tail(s) \o t)[i] = IF i <= Len(s) - 1 THEN Tail(s)[i] ELSE t[i - (Len(s) - 1)]
      BY <2>1, ConcatProperties
    <2>4. ASSUME NEW i \in 1..(Len(s) + Len(t) - 1) PROVE Tail(s \o t)[i] = (Tail(s) \o t)[i]
      <3>1. CASE i <= Len(s) - 1
        BY <3>1, <1>1, <2>1, <2>2, <2>3
      <3>2. CASE i > Len(s) - 1
        <4>1. i + 1 - Len(s) = i - (Len(s) - 1)
          OBVIOUS
        <4> QED
          BY <3>2, <4>1, <1>1, <2>1, <2>2, <2>3
      <3> QED
        BY <3>1, <3>2
    <2> QED
      BY <2>2, <2>3, <2>4, SeqEqual
  <1> QED
    BY <1>2, <1>3, <1>4

-----------------------------------------------------------------------------
(* One turn.                                                               *)

Readers == [buf : Seq(Cell), endian : Orders, resol : Seq(Nat)]
Timeds  == [pkt : Packet \cup {NoPacket}, ts : Int]
Loops   == [reader : Readers, out : Seq(Timeds)]

\* The length the reader reads at the head of the buffer.
Claimed(f) == LengthRead(f.reader.buf[2], Endian(f.reader))

\* The loop takes nothing off the buffer: it is too short.
Waits(f) ==
    \/ Len(f.reader.buf) < MinBlock
    \/ ~Desynced(Claimed(f)) /\ Len(f.reader.buf) < Claimed(f)

\* The loop with another buffer, and with more cells at the end of its own.
With(f, b) == [reader |-> [buf |-> b, endian |-> f.reader.endian, resol |-> f.reader.resol],
               out |-> f.out]
Ext(f, c)  == With(f, f.reader.buf \o c)

\* What feed reads at the head of a buffer that holds a block header.
LEMMA HeadOfBuffer ==
    ASSUME NEW f \in Loops, Len(f.reader.buf) >= MinBlock
    PROVE  /\ f.reader.buf[1] \in Cell /\ f.reader.buf[2] \in Cell /\ f.reader.buf[3] \in Cell
           /\ Endian(f.reader) \in Orders
           /\ Claimed(f) \in Nat
  <1> USE DEF Loops, Readers, MinBlock
  <1>1. f.reader.buf[1] \in Cell /\ f.reader.buf[2] \in Cell /\ f.reader.buf[3] \in Cell
    <2>1. f.reader.buf \in Seq(Cell)
      OBVIOUS
    <2>2. 1 \in 1..Len(f.reader.buf) /\ 2 \in 1..Len(f.reader.buf) /\ 3 \in 1..Len(f.reader.buf)
      BY <2>1
    <2> QED
      BY <2>1, <2>2, ElementOfSeq
  <1>2. Endian(f.reader) \in Orders
    BY <1>1 DEF Endian, Cell
  <1> QED
    BY <1>1, <1>2, PcapngAssumption, SMTT(30) DEF Claimed, LengthRead, Cell

\* The block a turn takes off the buffer.
LEMMA BlockAhead ==
    ASSUME NEW f \in Loops, ~Waits(f), ~Desynced(Claimed(f))
    PROVE  LET n == Claimed(f)
           IN  /\ n \in Nat /\ n >= MinBlock /\ n <= Len(f.reader.buf)
               /\ SubSeq(f.reader.buf, 1, n) \in Seq(Cell)
               /\ Len(SubSeq(f.reader.buf, 1, n)) = n
               /\ SubSeq(f.reader.buf, 1, n)[1] = f.reader.buf[1]
               /\ SubSeq(f.reader.buf, 1, n)[3] = f.reader.buf[3]
               /\ SubSeq(f.reader.buf, n + 1, Len(f.reader.buf)) \in Seq(Cell)
               /\ Len(SubSeq(f.reader.buf, n + 1, Len(f.reader.buf))) = Len(f.reader.buf) - n
  <1> DEFINE n == Claimed(f)
  <1>1. Len(f.reader.buf) >= MinBlock /\ f.reader.buf \in Seq(Cell)
    <2>1. f.reader.buf \in Seq(Cell)
      BY DEF Loops, Readers
    <2> QED
      BY <2>1 DEF Waits, MinBlock
  <1>2. n \in Nat
    BY <1>1, HeadOfBuffer
  <1>3. n >= MinBlock /\ n <= Len(f.reader.buf)
    BY <1>1, <1>2 DEF Waits, Desynced, MinBlock
  <1> HIDE DEF n
  <1>4. 1 \in 1..n /\ 3 \in 1..n
    BY <1>2, <1>3 DEF MinBlock
  <1> QED
    BY <1>1, <1>2, <1>3, <1>4, Prefix, Suffix, SMTT(30) DEF n

\* _handle_block touches the interfaces and the packets, never the buffer.
LEMMA HandleType ==
    ASSUME NEW rd \in Readers, NEW block \in Seq(Cell), Len(block) >= MinBlock,
           NEW out \in Seq(Timeds)
    PROVE  /\ Handle(rd, block, out) \in Loops
           /\ Handle(rd, block, out).reader.buf = rd.buf
           /\ Handle(rd, block, out).reader.endian = rd.endian
  <1>1. block[1] \in Cell /\ block[3] \in Cell
    BY ElementOfSeq DEF MinBlock
  <1>2. \A a, b \in Nat : a * b \in Nat
    OBVIOUS
  <1>3. CASE block[1].kind = "SHB"
    <2>1. <<>> \in Seq(Nat)
      OBVIOUS
    <2>2. Handle(rd, block, out) = [reader |-> [rd EXCEPT !.resol = <<>>], out |-> out]
      BY <1>3 DEF Handle
    <2>3. \A x \in Seq(Nat) : [rd EXCEPT !.resol = x] \in Readers
      BY DEF Readers
    <2>4. \A x : [rd EXCEPT !.resol = x].buf = rd.buf /\ [rd EXCEPT !.resol = x].endian = rd.endian
      BY DEF Readers
    <2> DEFINE r == [rd EXCEPT !.resol = <<>>]
    <2>5. r \in Readers /\ r.buf = rd.buf /\ r.endian = rd.endian
      BY <2>1, <2>3, <2>4
    <2> HIDE DEF r
    <2>6. Handle(rd, block, out) = [reader |-> r, out |-> out]
      BY <2>2 DEF r
    <2> QED
      BY <2>5, <2>6 DEF Loops
  <1>4. CASE block[1].kind = "IDB"
    <2>1. Append(rd.resol, block[3].num) \in Seq(Nat)
      BY <1>1 DEF Readers, Cell
    <2> QED
      BY <1>4, <2>1 DEF Handle, Readers, Loops
  <1>5. CASE block[1].kind = "EPB" /\ Len(block) >= MinEPB
    <2> DEFINE i == block[3].iface + 1
               ts == IF i \in DOMAIN rd.resol THEN block[3].num * rd.resol[i] ELSE None
    <2>1. ts \in Int
      <3>1. CASE i \in DOMAIN rd.resol
        <4>1. rd.resol[i] \in Nat
          BY <3>1, ElementOfSeq, LenProperties DEF Readers
        <4>2. block[3].num \in Nat
          BY <1>1 DEF Cell
        <4> QED
          BY <4>1, <4>2, <1>2, <3>1
      <3> QED
        BY <3>1 DEF None
    <2> HIDE DEF ts
    <2>2. [pkt |-> block[3].pkt, ts |-> ts] \in Timeds
      BY <1>1, <2>1 DEF Timeds, Cell
    <2>3. Handle(rd, block, out) =
            [reader |-> rd, out |-> Append(out, [pkt |-> block[3].pkt, ts |-> ts])]
      BY <1>5 DEF Handle, ts
    <2> QED
      BY <2>2, <2>3 DEF Loops
  <1>6. CASE /\ block[1].kind \notin {"SHB", "IDB"}
             /\ ~(block[1].kind = "EPB" /\ Len(block) >= MinEPB)
    BY <1>6 DEF Handle, Loops
  <1> QED
    BY <1>3, <1>4, <1>5, <1>6

\* A turn by its three outcomes.
LEMMA TurnCases ==
    ASSUME NEW f \in Loops
    PROVE  LET rd == f.reader
               n  == Claimed(f)
           IN  /\ Len(rd.buf) < MinBlock => Turn(f) = f
               /\ Len(rd.buf) >= MinBlock /\ Desynced(n) =>
                     Turn(f) = [reader |-> [buf |-> Tail(rd.buf), endian |-> Endian(rd),
                                            resol |-> rd.resol],
                                out |-> f.out]
               /\ Len(rd.buf) >= MinBlock /\ Waits(f) =>
                     Turn(f) = [reader |-> [buf |-> rd.buf, endian |-> Endian(rd),
                                            resol |-> rd.resol],
                                out |-> f.out]
               /\ ~Waits(f) /\ ~Desynced(n) =>
                     Turn(f) = Handle([buf |-> SubSeq(rd.buf, n + 1, Len(rd.buf)),
                                       endian |-> Endian(rd), resol |-> rd.resol],
                                      SubSeq(rd.buf, 1, n), f.out)
  <1> DEFINE rd == f.reader
             n  == Claimed(f)
  <1>2. n = LengthRead(rd.buf[2], Endian(rd))
    BY DEF Claimed
  <1>3. Len(rd.buf) \in Nat /\ MinBlock \in Nat
    BY DEF Loops, Readers, MinBlock
  <1>8. \A r : [f EXCEPT !.reader = r] = [reader |-> r, out |-> f.out]
    BY DEF Loops
  <1> HIDE DEF rd, n
  <1>4. ASSUME Len(rd.buf) < MinBlock PROVE Turn(f) = f
    BY <1>4 DEF Turn, rd
  <1>5. ASSUME Len(rd.buf) >= MinBlock, Desynced(n)
        PROVE  Turn(f) = [reader |-> [buf |-> Tail(rd.buf), endian |-> Endian(rd),
                                      resol |-> rd.resol], out |-> f.out]
    <2>1. ~(Len(rd.buf) < MinBlock)
      BY <1>3, <1>5
    <2> QED
      BY <1>5, <2>1, <1>2, <1>8 DEF Turn, rd
  <1>6. ASSUME Len(rd.buf) >= MinBlock, Waits(f)
        PROVE  Turn(f) = [reader |-> [buf |-> rd.buf, endian |-> Endian(rd),
                                      resol |-> rd.resol], out |-> f.out]
    <2>1. ~(Len(rd.buf) < MinBlock) /\ ~Desynced(n) /\ Len(rd.buf) < n
      BY <1>3, <1>6 DEF Waits, rd, n
    <2> QED
      BY <2>1, <1>2, <1>8 DEF Turn, rd
  <1>7. ASSUME ~Waits(f), ~Desynced(n)
        PROVE  Turn(f) = Handle([buf |-> SubSeq(rd.buf, n + 1, Len(rd.buf)),
                                 endian |-> Endian(rd), resol |-> rd.resol],
                                SubSeq(rd.buf, 1, n), f.out)
    <2>1. ~(Len(rd.buf) < MinBlock) /\ ~(Len(rd.buf) < n)
      BY <1>7 DEF Waits, rd, n
    <2> QED
      BY <2>1, <1>2, <1>7 DEF Turn, rd
  <1> QED
    BY <1>4, <1>5, <1>6, <1>7 DEF rd, n

\* What a turn that takes something off leaves.
LEMMA TurnType ==
    ASSUME NEW f \in Loops
    PROVE  /\ Turn(f) \in Loops
           /\ ~Waits(f) => Len(Turn(f).reader.buf) < Len(f.reader.buf)
  <1> DEFINE rd == f.reader
             n  == Claimed(f)
  <1>1. /\ rd.buf \in Seq(Cell) /\ rd.endian \in Orders /\ rd.resol \in Seq(Nat)
        /\ f.out \in Seq(Timeds)
    BY DEF Loops, Readers
  <1>2. CASE Len(rd.buf) < MinBlock
    BY <1>2, TurnCases DEF Waits
  <1>3. CASE Len(rd.buf) >= MinBlock /\ Desynced(n)
    <2>1. rd.buf # <<>>
      BY <1>1, <1>3 DEF MinBlock
    <2>2. Tail(rd.buf) \in Seq(Cell) /\ Len(Tail(rd.buf)) = Len(rd.buf) - 1
      BY <1>1, <2>1, HeadTailProperties
    <2>3. Turn(f) = [reader |-> [buf |-> Tail(rd.buf), endian |-> Endian(rd),
                                 resol |-> rd.resol], out |-> f.out]
      BY <1>3, TurnCases
    <2>4. Endian(rd) \in Orders
      BY <1>3, HeadOfBuffer
    <2>5. Len(Turn(f).reader.buf) < Len(f.reader.buf)
      BY <2>2, <2>3, <1>1
    <2>6. Turn(f) \in Loops
      BY <2>2, <2>3, <2>4, <1>1 DEF Loops, Readers
    <2> QED
      BY <2>5, <2>6
  <1>4. CASE Len(rd.buf) >= MinBlock /\ Waits(f)
    <2>1. Turn(f) = [reader |-> [buf |-> rd.buf, endian |-> Endian(rd),
                                 resol |-> rd.resol], out |-> f.out]
      BY <1>4, TurnCases
    <2>2. Endian(rd) \in Orders
      BY <1>4, HeadOfBuffer
    <2> QED
      BY <1>1, <1>4, <2>1, <2>2 DEF Loops, Readers
  <1>5. CASE ~Waits(f) /\ ~Desynced(n)
    <2> DEFINE rest  == SubSeq(rd.buf, n + 1, Len(rd.buf))
               block == SubSeq(rd.buf, 1, n)
               r     == [buf |-> rest, endian |-> Endian(rd), resol |-> rd.resol]
    <2>1. /\ n \in Nat /\ n >= MinBlock
          /\ block \in Seq(Cell) /\ Len(block) = n
          /\ rest \in Seq(Cell) /\ Len(rest) = Len(rd.buf) - n
      BY <1>5, BlockAhead
    <2>2. Endian(rd) \in Orders
      BY <1>5, HeadOfBuffer, <1>1 DEF Waits, MinBlock
    <2> HIDE DEF rest, block
    <2>3. r \in Readers /\ r.buf = rest
      BY <1>1, <2>1, <2>2 DEF Readers
    <2>4. Turn(f) = Handle(r, block, f.out)
      BY <1>5, TurnCases DEF rest, block
    <2> HIDE DEF r
    <2>5. Turn(f) \in Loops /\ Turn(f).reader.buf = rest
      BY <1>1, <2>1, <2>3, <2>4, HandleType
    <2>6. Len(rest) < Len(rd.buf)
      BY <2>1, <1>1 DEF MinBlock
    <2> QED
      BY <2>5, <2>6
  <1> QED
    BY <1>1, <1>2, <1>3, <1>4, <1>5 DEF MinBlock

\* Handling a block does not look at the buffer behind it.
LEMMA HandleExtends ==
    ASSUME NEW b, NEW c, NEW e, NEW resol, NEW block, NEW out,
           NEW r, r = [buf |-> b, endian |-> e, resol |-> resol],
           NEW rc, rc = [buf |-> c, endian |-> e, resol |-> resol]
    PROVE  /\ Handle(rc, block, out) = With(Handle(r, block, out), c)
           /\ Handle(r, block, out).reader.buf = b
  <1>1. \A x : [r EXCEPT !.resol = x] = [buf |-> b, endian |-> e, resol |-> x]
    OBVIOUS
  <1>2. \A x : [rc EXCEPT !.resol = x] = [buf |-> c, endian |-> e, resol |-> x]
    OBVIOUS
  <1>3. r.buf = b /\ r.endian = e /\ r.resol = resol /\ rc.resol = resol
    OBVIOUS
  <1>4. rc = [buf |-> c, endian |-> e, resol |-> resol]
    OBVIOUS
  <1>5. CASE block[1].kind = "SHB"
    <2>1. /\ Handle(rc, block, out) = [reader |-> [rc EXCEPT !.resol = <<>>], out |-> out]
          /\ Handle(r, block, out) = [reader |-> [r EXCEPT !.resol = <<>>], out |-> out]
      BY <1>5 DEF Handle
    <2>2. /\ Handle(rc, block, out) = [reader |-> [buf |-> c, endian |-> e, resol |-> <<>>], out |-> out]
          /\ Handle(r, block, out) = [reader |-> [buf |-> b, endian |-> e, resol |-> <<>>], out |-> out]
      BY <1>1, <1>2, <2>1
    <2> QED
      BY <2>2 DEF With
  <1>6. CASE block[1].kind = "IDB"
    <2> DEFINE x == Append(resol, block[3].num)
    <2>1. /\ Handle(rc, block, out) = [reader |-> [rc EXCEPT !.resol = x], out |-> out]
          /\ Handle(r, block, out) = [reader |-> [r EXCEPT !.resol = x], out |-> out]
      BY <1>6, <1>3 DEF Handle
    <2> HIDE DEF x
    <2>2. /\ Handle(rc, block, out) = [reader |-> [buf |-> c, endian |-> e, resol |-> x], out |-> out]
          /\ Handle(r, block, out) = [reader |-> [buf |-> b, endian |-> e, resol |-> x], out |-> out]
      BY <1>1, <1>2, <2>1
    <2> QED
      BY <2>2 DEF With
  <1>7. CASE block[1].kind = "EPB" /\ Len(block) >= MinEPB
    <2> DEFINE i == block[3].iface + 1
               ts == IF i \in DOMAIN resol THEN block[3].num * resol[i] ELSE None
               o  == Append(out, [pkt |-> block[3].pkt, ts |-> ts])
    <2>1. /\ Handle(rc, block, out) = [reader |-> rc, out |-> o]
          /\ Handle(r, block, out) = [reader |-> r, out |-> o]
      BY <1>7, <1>3 DEF Handle
    <2> HIDE DEF o
    <2> QED
      BY <1>3, <1>4, <2>1 DEF With
  <1>8. CASE /\ block[1].kind \notin {"SHB", "IDB"}
             /\ ~(block[1].kind = "EPB" /\ Len(block) >= MinEPB)
    <2>1. /\ Handle(rc, block, out) = [reader |-> rc, out |-> out]
          /\ Handle(r, block, out) = [reader |-> r, out |-> out]
      BY <1>8 DEF Handle
    <2> QED
      BY <1>3, <1>4, <2>1 DEF With
  <1> QED
    BY <1>5, <1>6, <1>7, <1>8

\* A turn does not look at the cells behind what it takes off.
LEMMA TurnExtends ==
    ASSUME NEW f \in Loops, NEW c \in Seq(Cell), ~Waits(f)
    PROVE  /\ ~Waits(Ext(f, c))
           /\ Turn(Ext(f, c)) = Ext(Turn(f), c)
  <1> DEFINE rd == f.reader
             n  == Claimed(f)
             g  == Ext(f, c)
  <1>1. /\ rd.buf \in Seq(Cell) /\ rd.endian \in Orders /\ rd.resol \in Seq(Nat)
        /\ f.out \in Seq(Timeds)
        /\ Len(rd.buf) >= MinBlock
    <2>1. rd.buf \in Seq(Cell)
      BY DEF Loops, Readers
    <2> QED
      BY <2>1 DEF Loops, Readers, Waits, MinBlock
  <1>2. /\ rd.buf \o c \in Seq(Cell)
        /\ Len(rd.buf \o c) = Len(rd.buf) + Len(c)
        /\ \A i \in 1..Len(rd.buf) : (rd.buf \o c)[i] = rd.buf[i]
    BY <1>1, ConcatProperties
  <1>3. g \in Loops
    BY <1>1, <1>2 DEF Ext, With, Loops, Readers
  <1>4. (rd.buf \o c)[1] = rd.buf[1] /\ (rd.buf \o c)[2] = rd.buf[2] /\ (rd.buf \o c)[3] = rd.buf[3]
    BY <1>1, <1>2 DEF MinBlock
  <1>5. /\ g.reader.buf = rd.buf \o c /\ g.reader.endian = rd.endian
        /\ g.reader.resol = rd.resol /\ g.out = f.out
    BY DEF Ext, With
  <1> HIDE DEF g
  <1>6. Endian(g.reader) = Endian(rd)
    BY <1>4, <1>5 DEF Endian
  <1>7. Claimed(g) = n
    BY <1>4, <1>5, <1>6 DEF Claimed
  <1>8. n \in Nat
    BY <1>1, HeadOfBuffer
  <1>9. ~Waits(g) /\ Len(g.reader.buf) >= MinBlock
    BY <1>1, <1>2, <1>5, <1>7, <1>8 DEF Waits, MinBlock
  <1>10. CASE Desynced(n)
    <2>1. Turn(g) = [reader |-> [buf |-> Tail(rd.buf \o c), endian |-> Endian(rd),
                                 resol |-> rd.resol], out |-> f.out]
      BY <1>3, <1>5, <1>6, <1>7, <1>9, <1>10, TurnCases
    <2>2. Turn(f) = [reader |-> [buf |-> Tail(rd.buf), endian |-> Endian(rd),
                                 resol |-> rd.resol], out |-> f.out]
      BY <1>1, <1>10, TurnCases
    <2>3. rd.buf # <<>> /\ 0 \in Nat /\ 0 <= Len(rd.buf)
      BY <1>1 DEF MinBlock
    <2>4. Tail(rd.buf \o c) = Tail(rd.buf) \o c
      BY <1>1, <2>3, Longer
    <2>5. Ext(Turn(f), c) = [reader |-> [buf |-> Tail(rd.buf) \o c, endian |-> Endian(rd),
                                         resol |-> rd.resol], out |-> f.out]
      <3>1. /\ Turn(f).reader.buf = Tail(rd.buf) /\ Turn(f).reader.endian = Endian(rd)
            /\ Turn(f).reader.resol = rd.resol /\ Turn(f).out = f.out
        BY <2>2
      <3> QED
        BY <3>1, Zenon DEF Ext, With
    <2>6. Turn(g) = Ext(Turn(f), c)
      BY <2>1, <2>4, <2>5
    <2> QED
      BY <1>9, <2>6 DEF g
  <1>11. CASE ~Desynced(n)
    <2> DEFINE rest  == SubSeq(rd.buf, n + 1, Len(rd.buf))
               block == SubSeq(rd.buf, 1, n)
               r     == [buf |-> rest, endian |-> Endian(rd), resol |-> rd.resol]
               rc    == [buf |-> rest \o c, endian |-> Endian(rd), resol |-> rd.resol]
    <2>1. n <= Len(rd.buf)
      BY <1>11, BlockAhead
    <2>2. /\ SubSeq(rd.buf \o c, 1, n) = block
          /\ SubSeq(rd.buf \o c, n + 1, Len(rd.buf \o c)) = rest \o c
      BY <1>1, <1>8, <2>1, Longer
    <2>3. Turn(f) = Handle(r, block, f.out)
      BY <1>11, TurnCases
    <2>4. Turn(g) = Handle(rc, block, f.out)
      <3>1. Turn(g) = Handle([buf |-> SubSeq(g.reader.buf, n + 1, Len(g.reader.buf)),
                              endian |-> Endian(g.reader), resol |-> g.reader.resol],
                             SubSeq(g.reader.buf, 1, n), g.out)
        BY <1>3, <1>7, <1>9, <1>11, TurnCases
      <3> QED
        BY <1>5, <1>6, <2>2, <3>1
    <2>5. Handle(rc, block, f.out) = Ext(Handle(r, block, f.out), c)
      <3> HIDE DEF rest, block
      <3> DEFINE longer == rest \o c
                 e      == Endian(rd)
                 resol  == rd.resol
                 out    == f.out
      <3>1. /\ r = [buf |-> rest, endian |-> e, resol |-> resol]
            /\ rc = [buf |-> longer, endian |-> e, resol |-> resol]
        OBVIOUS
      <3>2. /\ Handle(rc, block, out) = With(Handle(r, block, out), longer)
            /\ Handle(r, block, out).reader.buf = rest
        <4> HIDE DEF r, rc, longer, e, resol, out
        <4> QED
          BY <3>1, HandleExtends
      <3> QED
        BY <3>2, Zenon DEF Ext
    <2> QED
      BY <1>9, <2>3, <2>4, <2>5 DEF g
  <1> QED
    BY <1>10, <1>11

-----------------------------------------------------------------------------
(* The loop.                                                               *)

\* Where the loop ends.
Fin(f) == Turns(f)[Len(f.reader.buf)]

\* Nothing a turn changes.
Rests(f) == Turn(f) = f

\* A turn that waits may settle the byte order; the next one changes nothing.
LEMMA WaitsRests ==
    ASSUME NEW f \in Loops, Waits(f)
    PROVE  /\ Rests(Turn(f))
           /\ Turn(f).out = f.out
           /\ Len(f.reader.buf) < MinBlock => Rests(f)
  <1> DEFINE rd == f.reader
             e  == Endian(rd)
             r  == [buf |-> rd.buf, endian |-> e, resol |-> rd.resol]
             g  == [reader |-> r, out |-> f.out]
  <1>1. Len(rd.buf) \in Nat
    BY DEF Loops, Readers
  <1>2. CASE Len(rd.buf) < MinBlock
    BY <1>2, TurnCases DEF Rests
  <1>3. CASE Len(rd.buf) >= MinBlock
    <2>1. Turn(f) = g
      BY <1>3, TurnCases
    <2>2. g \in Loops
      BY <2>1, TurnType
    <2>3. g.reader.buf = rd.buf /\ g.reader.resol = rd.resol /\ g.reader.endian = e /\ g.out = f.out
      OBVIOUS
    <2> HIDE DEF g, e
    <2>4. Endian(g.reader) = e
      BY <2>3 DEF Endian, e
    <2>5. Claimed(g) = Claimed(f)
      BY <2>3, <2>4 DEF Claimed, e
    <2>6. Waits(g) /\ Len(g.reader.buf) >= MinBlock
      BY <1>3, <2>3, <2>5 DEF Waits
    <2>7. Turn(g) = [reader |-> [buf |-> g.reader.buf, endian |-> Endian(g.reader),
                                 resol |-> g.reader.resol], out |-> g.out]
      BY <2>2, <2>6, TurnCases
    <2>8. Turn(g) = [reader |-> [buf |-> rd.buf, endian |-> e, resol |-> rd.resol], out |-> f.out]
      BY <2>3, <2>4, <2>7
    <2>9. Turn(g) = g
      BY <2>8 DEF g
    <2> QED
      BY <1>1, <1>3, <2>1, <2>3, <2>9 DEF Rests, MinBlock
  <1> QED
    BY <1>1, <1>2, <1>3 DEF MinBlock

\* The loop of feed stays in its type.
LEMMA TurnsType ==
    ASSUME NEW f \in Loops
    PROVE  \A k \in Nat : Turns(f)[k] \in Loops
  <1> DEFINE S == {k \in Nat : Turns(f)[k] \in Loops}
  <1>1. 0 \in S
    BY TurnsDef
  <1>2. ASSUME NEW k \in Nat, k \in S PROVE k + 1 \in S
    <2>1. Turns(f)[k + 1] = Turn(Turns(f)[k])
      BY TurnsDef
    <2> QED
      BY <1>2, <2>1, TurnType
  <1> HIDE DEF S
  <1>3. Nat \subseteq S
    BY <1>1, <1>2, Induction
  <1> QED
    BY <1>3 DEF S

\* There are no more turns than cells.
LEMMA Ends ==
    ASSUME NEW f \in Loops
    PROVE  /\ Fin(f) \in Loops
           /\ Rests(Fin(f))
           /\ \A m \in Nat : m >= Len(f.reader.buf) => Turns(f)[m] = Fin(f)
  <1> DEFINE L == Len(f.reader.buf)
             s(k) == Turns(f)[k]
             S == {k \in Nat : Rests(s(k)) \/ Len(s(k).reader.buf) + k <= L}
  <1>1. L \in Nat
    BY DEF Loops, Readers
  <1>2. 0 \in S
    <2>1. Len(s(0).reader.buf) + 0 <= L
      BY <1>1, TurnsDef, SMTT(30)
    <2> QED
      BY <2>1
  <1>3. ASSUME NEW k \in Nat, k \in S PROVE k + 1 \in S
    <2>1. s(k + 1) = Turn(s(k)) /\ s(k) \in Loops /\ s(k + 1) \in Loops
      BY TurnsDef, TurnsType
    <2>2. Len(s(k).reader.buf) \in Nat /\ Len(s(k + 1).reader.buf) \in Nat
      BY <2>1, SMTT(30) DEF Loops, Readers
    <2>a. \A a, b, n \in Nat : a < b /\ b + k <= n => a + (k + 1) <= n
      OBVIOUS
    <2> HIDE DEF s, L
    <2>3. CASE Rests(s(k))
      <3>1. s(k + 1) = s(k)
        BY <2>1, <2>3 DEF Rests
      <3>2. Rests(s(k + 1))
        BY <3>1, <2>3
      <3> QED
        BY <3>2
    <2>4. CASE Waits(s(k))
      <3>1. Rests(s(k + 1))
        BY <2>1, <2>4, WaitsRests
      <3> QED
        BY <3>1
    <2>5. CASE ~Rests(s(k)) /\ ~Waits(s(k))
      <3>1. Len(s(k + 1).reader.buf) < Len(s(k).reader.buf)
        BY <2>1, <2>5, TurnType
      <3>2. Len(s(k).reader.buf) + k <= L
        BY <1>3, <2>5
      <3>3. Len(s(k + 1).reader.buf) + (k + 1) <= L
        BY <2>a, <3>1, <3>2, <2>2, <1>1, Zenon
      <3>4. k + 1 \in Nat
        OBVIOUS
      <3> QED
        BY <3>3, <3>4, Zenon
    <2> QED
      BY <2>3, <2>4, <2>5
  <1>4. Nat \subseteq S
    <2> HIDE DEF S
    <2> QED
      BY <1>2, <1>3, Induction
  <1>5. s(L) \in Loops /\ Len(s(L).reader.buf) \in Nat
    BY <1>1, TurnsType DEF Loops, Readers
  <1>6. Rests(s(L))
    <2>1. CASE Len(s(L).reader.buf) + L <= L
      <3>a. \A a, n \in Nat : a + n <= n => a < 3
        OBVIOUS
      <3>1. Len(s(L).reader.buf) < MinBlock
        BY <3>a, <1>1, <1>5, <2>1, Zenon DEF MinBlock
      <3> QED
        BY <1>5, <3>1, WaitsRests DEF Waits
    <2> QED
      BY <1>1, <1>4, <2>1
  <1> DEFINE T == {m \in Nat : s(L + m) = s(L)}
  <1>7. 0 \in T
    BY <1>1
  <1>8. ASSUME NEW m \in Nat, m \in T PROVE m + 1 \in T
    <2>a. \A n \in Nat : n + m \in Nat /\ n + (m + 1) = (n + m) + 1
      OBVIOUS
    <2>1. L + m \in Nat /\ L + (m + 1) = (L + m) + 1
      BY <1>1, <2>a, Zenon
    <2>2. s((L + m) + 1) = Turn(s(L + m))
      BY <2>1, TurnsDef
    <2> HIDE DEF s
    <2> QED
      BY <1>6, <1>8, <2>1, <2>2 DEF Rests
  <1>9. Nat \subseteq T
    <2> HIDE DEF T
    <2> QED
      BY <1>7, <1>8, Induction
  <1>10. ASSUME NEW m \in Nat, m >= L PROVE s(m) = s(L)
    <2>1. m - L \in Nat /\ L + (m - L) = m
      BY <1>1, <1>10
    <2>2. s(L + (m - L)) = s(L)
      BY <1>9, <2>1
    <2> QED
      BY <2>1, <2>2
  <1> QED
    BY <1>5, <1>6, <1>10 DEF Fin

\* A turn does not change where the loop ends.
LEMMA FinTurn ==
    ASSUME NEW f \in Loops
    PROVE  Fin(Turn(f)) = Fin(f)
  <1> DEFINE g == Turn(f)
             L == Len(f.reader.buf)
             S == {k \in Nat : Turns(g)[k] = Turns(f)[k + 1]}
  <1>1. g \in Loops /\ L \in Nat /\ Len(g.reader.buf) \in Nat
    BY TurnType DEF Loops, Readers
  <1>2. 0 \in S
    <2>1. Turns(f)[0 + 1] = Turn(Turns(f)[0])
      BY TurnsDef
    <2>2. Turns(f)[0] = f /\ Turns(g)[0] = g
      BY TurnsDef
    <2> QED
      BY <2>1, <2>2
  <1>3. ASSUME NEW k \in Nat, k \in S PROVE k + 1 \in S
    <2>1. Turns(g)[k + 1] = Turn(Turns(g)[k])
      BY TurnsDef
    <2>2. Turns(f)[(k + 1) + 1] = Turn(Turns(f)[k + 1])
      BY TurnsDef
    <2> QED
      BY <1>3, <2>1, <2>2
  <1>4. Nat \subseteq S
    <2> HIDE DEF S
    <2> QED
      BY <1>2, <1>3, Induction
  <1> HIDE DEF g
  <1>5. Len(g.reader.buf) <= L
    <2>1. CASE Waits(f)
      <3>1. CASE Len(f.reader.buf) < MinBlock
        <4>1. g = f
          BY <3>1, TurnCases DEF g
        <4>2. \A n \in Nat : n <= n
          OBVIOUS
        <4> QED
          BY <1>1, <4>1, <4>2, Zenon
      <3>2. CASE Len(f.reader.buf) >= MinBlock
        <4>1. g = [reader |-> [buf |-> f.reader.buf, endian |-> Endian(f.reader),
                               resol |-> f.reader.resol], out |-> f.out]
          BY <2>1, <3>2, TurnCases DEF g
        <4> QED
          BY <4>1, <1>1
      <3> QED
        BY <3>1, <3>2, <1>1 DEF MinBlock
    <2>2. CASE ~Waits(f)
      BY <2>2, <1>1, TurnType DEF g
    <2> QED
      BY <2>1, <2>2
  <1>6. Turns(g)[L] = Fin(g)
    BY <1>1, <1>5, Ends
  <1>7. Turns(f)[L + 1] = Fin(f)
    BY <1>1, Ends
  <1>8. Turns(g)[L] = Turns(f)[L + 1]
    BY <1>1, <1>4
  <1> QED
    BY <1>6, <1>7, <1>8 DEF g

\* A loop with a chunk more in its buffer is a loop.
LEMMA ExtType ==
    ASSUME NEW f \in Loops, NEW c \in Seq(Cell)
    PROVE  /\ Ext(f, c) \in Loops
           /\ Ext(f, c).reader.buf = f.reader.buf \o c
           /\ Ext(f, c).reader.endian = f.reader.endian
           /\ Ext(f, c).reader.resol = f.reader.resol
           /\ Ext(f, c).out = f.out
  <1>1. f.reader.buf \o c \in Seq(Cell)
    BY ConcatProperties DEF Loops, Readers
  <1> QED
    BY <1>1 DEF Ext, With, Loops, Readers

\* Cells that arrive while the loop runs might as well arrive before a turn.
LEMMA FinExt ==
    ASSUME NEW f \in Loops, NEW c \in Seq(Cell)
    PROVE  Fin(Ext(Turn(f), c)) = Fin(Ext(f, c))
  <1>1. CASE ~Waits(f)
    <2>1. Ext(Turn(f), c) = Turn(Ext(f, c))
      BY <1>1, TurnExtends
    <2> QED
      BY <2>1, ExtType, FinTurn
  <1>2. CASE Len(f.reader.buf) < MinBlock
    <2>1. Turn(f) = f
      BY <1>2, TurnCases
    <2> QED
      BY <2>1
  <1>3. CASE Waits(f) /\ Len(f.reader.buf) >= MinBlock
    <2> DEFINE rd == f.reader
               e  == Endian(rd)
               b  == rd.buf \o c
               h  == Turn(f)
               g1 == Ext(h, c)
               g2 == Ext(f, c)
    <2>1. h = [reader |-> [buf |-> rd.buf, endian |-> e, resol |-> rd.resol], out |-> f.out]
      BY <1>3, TurnCases
    <2>2. h \in Loops
      BY TurnType
    <2>3. /\ h.reader.buf = rd.buf /\ h.reader.endian = e
          /\ h.reader.resol = rd.resol /\ h.out = f.out
      BY <2>1
    <2> HIDE DEF h
    <2>4. /\ g1 \in Loops /\ g2 \in Loops
          /\ g1.reader.buf = b /\ g2.reader.buf = b
          /\ g1.reader.endian = e /\ g2.reader.endian = rd.endian
          /\ g1.reader.resol = rd.resol /\ g2.reader.resol = rd.resol
          /\ g1.out = f.out /\ g2.out = f.out
      BY <2>2, <2>3, ExtType, ZenonT(60)
    <2> HIDE DEF g1, g2
    <2>5. rd.buf \in Seq(Cell)
      BY DEF Loops, Readers
    <2>6. /\ b \in Seq(Cell) /\ Len(b) >= MinBlock
          /\ b[1] = rd.buf[1] /\ b[2] = rd.buf[2] /\ b[3] = rd.buf[3]
      <3>1. /\ Len(b) = Len(rd.buf) + Len(c)
            /\ \A i \in 1..Len(rd.buf) : b[i] = rd.buf[i]
            /\ b \in Seq(Cell)
        BY <2>5, ConcatProperties
      <3>2. 1 \in 1..Len(rd.buf) /\ 2 \in 1..Len(rd.buf) /\ 3 \in 1..Len(rd.buf)
        BY <2>5, <1>3 DEF MinBlock
      <3>3. Len(rd.buf) \in Nat /\ Len(c) \in Nat
        BY <2>5
      <3> HIDE DEF b
      <3> QED
        BY <1>3, <3>1, <3>2, <3>3 DEF MinBlock
    <2> HIDE DEF b
    <2>7. Endian(g1.reader) = e /\ Endian(g2.reader) = e
      BY <2>4, <2>6 DEF Endian
    <2> HIDE DEF e
    <2>8. Claimed(g1) = Claimed(g2)
      BY <2>4, <2>7 DEF Claimed
    <2>9. Waits(g1) <=> Waits(g2)
      BY <2>4, <2>8 DEF Waits
    <2>10. Turn(g1) = Turn(g2)
      <3>a. Len(g1.reader.buf) >= MinBlock /\ Len(g2.reader.buf) >= MinBlock
        BY <2>4, <2>6
      <3>1. CASE Desynced(Claimed(g1))
        <4> DEFINE r == [reader |-> [buf |-> Tail(b), endian |-> e, resol |-> rd.resol],
                         out |-> f.out]
        <4>1. Turn(g1) = r
          BY <3>1, <3>a, <2>4, <2>7, TurnCases
        <4>2. Turn(g2) = r
          BY <3>1, <3>a, <2>4, <2>7, <2>8, TurnCases
        <4> QED
          BY <4>1, <4>2
      <3>2. CASE ~Desynced(Claimed(g1)) /\ Waits(g1)
        <4> DEFINE r == [reader |-> [buf |-> b, endian |-> e, resol |-> rd.resol],
                         out |-> f.out]
        <4>1. Turn(g1) = r
          BY <3>2, <3>a, <2>4, <2>7, TurnCases
        <4>2. Turn(g2) = r
          BY <3>2, <3>a, <2>4, <2>7, <2>8, <2>9, TurnCases
        <4> QED
          BY <4>1, <4>2
      <3>3. CASE ~Desynced(Claimed(g1)) /\ ~Waits(g1)
        <4> DEFINE n == Claimed(g1)
                   r == Handle([buf |-> SubSeq(b, n + 1, Len(b)), endian |-> e,
                                resol |-> rd.resol], SubSeq(b, 1, n), f.out)
        <4>1. Turn(g1) = r
          BY <3>3, <2>4, <2>7, TurnCases
        <4>2. Turn(g2) = r
          BY <3>3, <2>4, <2>7, <2>8, <2>9, TurnCases
        <4> QED
          BY <4>1, <4>2
      <3> QED
        BY <3>1, <3>2, <3>3
    <2>11. Fin(g1) = Fin(Turn(g1)) /\ Fin(g2) = Fin(Turn(g2))
      BY <2>4, FinTurn
    <2> QED
      BY <2>10, <2>11 DEF g1, g2, h
  <1>4. Len(f.reader.buf) \in Nat
    BY DEF Loops, Readers
  <1> QED
    BY <1>1, <1>2, <1>3, <1>4 DEF MinBlock

\* Finishing, being fed and finishing again is being fed and finishing.
LEMMA FinResumes ==
    ASSUME NEW f \in Loops, NEW c \in Seq(Cell)
    PROVE  Fin(Ext(Fin(f), c)) = Fin(Ext(f, c))
  <1> DEFINE S == {k \in Nat : Fin(Ext(Turns(f)[k], c)) = Fin(Ext(f, c))}
  <1>1. 0 \in S
    BY TurnsDef
  <1>2. ASSUME NEW k \in Nat, k \in S PROVE k + 1 \in S
    <2>1. Turns(f)[k + 1] = Turn(Turns(f)[k]) /\ Turns(f)[k] \in Loops
      BY TurnsDef, TurnsType
    <2>2. Fin(Ext(Turns(f)[k + 1], c)) = Fin(Ext(Turns(f)[k], c))
      BY <2>1, FinExt
    <2> QED
      BY <1>2, <2>2
  <1>3. Nat \subseteq S
    <2> HIDE DEF S
    <2> QED
      BY <1>1, <1>2, Induction
  <1>4. Len(f.reader.buf) \in Nat
    BY DEF Loops, Readers
  <1> QED
    BY <1>3, <1>4 DEF Fin

\* The loop with other packets before its own.
Pre(out, f) == [reader |-> f.reader, out |-> out \o f.out]

\* A loop that has yielded packets before is a loop.
LEMMA PreType ==
    ASSUME NEW f \in Loops, NEW out \in Seq(Timeds)
    PROVE  /\ Pre(out, f) \in Loops
           /\ Pre(out, f).reader = f.reader
           /\ Pre(out, f).out = out \o f.out
  <1>1. out \o f.out \in Seq(Timeds)
    BY ConcatProperties DEF Loops
  <1> QED
    BY <1>1 DEF Pre, Loops

\* What was yielded before does not change how a block is handled.
LEMMA HandlePre ==
    ASSUME NEW r \in Readers, NEW block \in Seq(Cell), Len(block) >= MinBlock,
           NEW o1 \in Seq(Timeds), NEW o2 \in Seq(Timeds)
    PROVE  Handle(r, block, o1 \o o2) = Pre(o1, Handle(r, block, o2))
  <1>1. CASE block[1].kind = "SHB"
    BY <1>1 DEF Handle, Pre
  <1>2. CASE block[1].kind = "IDB"
    BY <1>2 DEF Handle, Pre
  <1>3. CASE block[1].kind = "EPB" /\ Len(block) >= MinEPB
    <2> DEFINE i == block[3].iface + 1
               ts == IF i \in DOMAIN r.resol THEN block[3].num * r.resol[i] ELSE None
               x == [pkt |-> block[3].pkt, ts |-> ts]
    <2>1. /\ Handle(r, block, o1 \o o2) = [reader |-> r, out |-> Append(o1 \o o2, x)]
          /\ Handle(r, block, o2) = [reader |-> r, out |-> Append(o2, x)]
      BY <1>3 DEF Handle
    <2>2. x \in Timeds
      <3>1. Handle(r, block, o2) \in Loops
        BY HandleType
      <3>2. Append(o2, x) \in Seq(Timeds)
        BY <2>1, <3>1 DEF Loops
      <3> HIDE DEF x
      <3>3. Append(o2, x) \in Seq(Timeds) /\ Len(Append(o2, x)) = Len(o2) + 1
            /\ Append(o2, x)[Len(o2) + 1] = x
        BY <3>2, AppendProperties
      <3> QED
        BY <3>3, ElementOfSeq
    <2> HIDE DEF x
    <2>3. Append(o1 \o o2, x) = o1 \o Append(o2, x)
      <3>1. /\ Append(o1 \o o2, x) = (o1 \o o2) \o <<x>>
            /\ Append(o2, x) = o2 \o <<x>>
            /\ <<x>> \in Seq(Timeds)
        BY <2>2, SMTT(30)
      <3>2. (o1 \o o2) \o <<x>> = o1 \o (o2 \o <<x>>)
        BY <3>1, ConcatAssociative, SMTT(30)
      <3> QED
        BY <3>1, <3>2
    <2> QED
      BY <2>1, <2>3 DEF Pre
  <1>4. CASE /\ block[1].kind \notin {"SHB", "IDB"}
             /\ ~(block[1].kind = "EPB" /\ Len(block) >= MinEPB)
    BY <1>4 DEF Handle, Pre
  <1> QED
    BY <1>1, <1>2, <1>3, <1>4

\* Nor what a turn of the loop does.
LEMMA TurnPre ==
    ASSUME NEW f \in Loops, NEW out \in Seq(Timeds)
    PROVE  Turn(Pre(out, f)) = Pre(out, Turn(f))
  <1> DEFINE rd == f.reader
             n  == Claimed(f)
             g  == Pre(out, f)
             o  == out \o f.out
  <1>1. g \in Loops /\ g.reader = rd /\ g.out = o
    BY PreType
  <1> HIDE DEF g
  <1>2. Claimed(g) = n /\ (Waits(g) <=> Waits(f))
    BY <1>1 DEF Claimed, Waits
  <1>3. CASE Len(rd.buf) < MinBlock
    <2>1. Turn(f) = f /\ Turn(g) = g
      BY <1>1, <1>3, TurnCases
    <2> QED
      BY <2>1 DEF g
  <1>4. CASE Len(rd.buf) >= MinBlock /\ Desynced(n)
    <2> DEFINE r == [buf |-> Tail(rd.buf), endian |-> Endian(rd), resol |-> rd.resol]
    <2>1. Turn(f) = [reader |-> r, out |-> f.out]
      BY <1>4, TurnCases
    <2>2. Turn(g) = [reader |-> r, out |-> o]
      BY <1>1, <1>2, <1>4, TurnCases
    <2> QED
      BY <2>1, <2>2 DEF Pre, g
  <1>5. CASE Len(rd.buf) >= MinBlock /\ Waits(f)
    <2> DEFINE r == [buf |-> rd.buf, endian |-> Endian(rd), resol |-> rd.resol]
    <2>1. Turn(f) = [reader |-> r, out |-> f.out]
      BY <1>5, TurnCases
    <2>2. Turn(g) = [reader |-> r, out |-> o]
      BY <1>1, <1>2, <1>5, TurnCases
    <2> QED
      BY <2>1, <2>2 DEF Pre, g
  <1>6. CASE ~Waits(f) /\ ~Desynced(n)
    <2> DEFINE rest  == SubSeq(rd.buf, n + 1, Len(rd.buf))
               block == SubSeq(rd.buf, 1, n)
               r     == [buf |-> rest, endian |-> Endian(rd), resol |-> rd.resol]
    <2>1. Turn(f) = Handle(r, block, f.out)
      BY <1>6, TurnCases
    <2>2. Turn(g) = Handle(r, block, o)
      BY <1>1, <1>2, <1>6, TurnCases
    <2>3. /\ block \in Seq(Cell) /\ Len(block) >= MinBlock /\ rest \in Seq(Cell)
      BY <1>6, BlockAhead
    <2>4. rd.buf \in Seq(Cell) /\ rd.resol \in Seq(Nat) /\ f.out \in Seq(Timeds)
      BY DEF Loops, Readers
    <2>5. Endian(rd) \in Orders
      <3>1. Len(rd.buf) >= MinBlock
        BY <1>6, <2>4 DEF Waits, MinBlock
      <3> QED
        BY <3>1, HeadOfBuffer
    <2> HIDE DEF block, rest
    <2>6. r \in Readers
      BY <2>3, <2>4, <2>5 DEF Readers
    <2> HIDE DEF r
    <2>7. Handle(r, block, o) = Pre(out, Handle(r, block, f.out))
      BY <2>3, <2>4, <2>6, HandlePre
    <2> QED
      BY <2>1, <2>2, <2>7 DEF g
  <1>7. Len(rd.buf) \in Nat
    BY DEF Loops, Readers
  <1> QED
    BY <1>3, <1>4, <1>5, <1>6, <1>7 DEF MinBlock

\* Nor where the loop ends.
LEMMA FinPre ==
    ASSUME NEW f \in Loops, NEW out \in Seq(Timeds)
    PROVE  Fin(Pre(out, f)) = Pre(out, Fin(f))
  <1> DEFINE S == {k \in Nat : Turns(Pre(out, f))[k] = Pre(out, Turns(f)[k])}
  <1>1. 0 \in S
    BY TurnsDef
  <1>2. ASSUME NEW k \in Nat, k \in S PROVE k + 1 \in S
    <2>1. Turns(f)[k + 1] = Turn(Turns(f)[k]) /\ Turns(f)[k] \in Loops
      BY TurnsDef, TurnsType
    <2>2. Turns(Pre(out, f))[k + 1] = Turn(Turns(Pre(out, f))[k])
      BY TurnsDef
    <2> QED
      BY <1>2, <2>1, <2>2, TurnPre
  <1>3. Nat \subseteq S
    <2> HIDE DEF S
    <2> QED
      BY <1>1, <1>2, Induction
  <1>4. Len(f.reader.buf) \in Nat /\ Pre(out, f).reader = f.reader
    <2>1. Len(f.reader.buf) \in Nat
      BY DEF Loops, Readers
    <2> QED
      BY <2>1, PreType
  <1> QED
    BY <1>3, <1>4 DEF Fin

-----------------------------------------------------------------------------
(* What feed does with the stream does not depend on how it was cut.       *)

\* The loop at the start of a call.
Loop(rd) == [reader |-> rd, out |-> <<>>]

\* The loop at the start of a call of feed.
LEMMA LoopType ==
    ASSUME NEW rd \in Readers
    PROVE  Loop(rd) \in Loops /\ Loop(rd).reader = rd /\ Loop(rd).out = <<>>
  BY DEF Loop, Loops

\* feed adds the chunk to the buffer and runs the loop to its end.
LEMMA FeedFin ==
    ASSUME NEW rd \in Readers, NEW c \in Seq(Cell)
    PROVE  Feed(rd, c) = Fin(Ext(Loop(rd), c))
  <1> DEFINE b == rd.buf \o c
             r == [buf |-> b, endian |-> rd.endian, resol |-> rd.resol]
  <1>1. \A x : [rd EXCEPT !.buf = x] = [buf |-> x, endian |-> rd.endian, resol |-> rd.resol]
    BY DEF Readers
  <1>2. [rd EXCEPT !.buf = @ \o c] = r
    BY <1>1
  <1>3. Ext(Loop(rd), c) = [reader |-> r, out |-> <<>>]
    BY DEF Ext, With, Loop
  <1>4. Feed(rd, c) = Scan(r, <<>>)
    BY <1>2 DEF Feed
  <1> HIDE DEF b
  <1>5. r.buf = b /\ [reader |-> r, out |-> <<>>].reader = r
    OBVIOUS
  <1> HIDE DEF r
  <1> QED
    BY <1>3, <1>4, <1>5, Zenon DEF Scan, Fin

\* A chunk in one piece or in two: the reader is the same after it, and the
\* packets are those of the first piece and then those of the second.
THEOREM FeedAppend ==
    ASSUME NEW rd \in Readers, NEW a \in Seq(Cell), NEW c \in Seq(Cell)
    PROVE  LET one == Feed(rd, a)
               two == Feed(one.reader, c)
           IN  /\ one \in Loops /\ two \in Loops
               /\ Feed(rd, a \o c) = [reader |-> two.reader, out |-> one.out \o two.out]
  <1> DEFINE f   == Loop(rd)
             one == Feed(rd, a)
             g   == Loop(one.reader)
             two == Feed(one.reader, c)
  <1>1. f \in Loops /\ f.reader = rd
    BY LoopType
  <1>2. one = Fin(Ext(f, a))
    BY FeedFin
  <1>3. one \in Loops
    BY <1>1, <1>2, ExtType, Ends
  <1>4. one.reader \in Readers /\ one.out \in Seq(Timeds)
    BY <1>3 DEF Loops
  <1> HIDE DEF one
  <1>5. g \in Loops /\ g.reader = one.reader /\ g.out = <<>>
    BY <1>4, LoopType
  <1>6. two = Fin(Ext(g, c))
    BY <1>4, FeedFin
  <1>7. two \in Loops
    BY <1>5, <1>6, ExtType, Ends
  <1>8. a \o c \in Seq(Cell)
    BY ConcatProperties
  <1>9. Feed(rd, a \o c) = Fin(Ext(f, a \o c))
    BY <1>8, FeedFin
  <1>10. Ext(f, a \o c) = Ext(Ext(f, a), c)
    <2>1. rd.buf \o (a \o c) = (rd.buf \o a) \o c
      <3>1. rd.buf \in Seq(Cell)
        BY DEF Readers
      <3> QED
        BY <3>1, Associative
    <2>2. Ext(f, a \o c) = With(f, rd.buf \o (a \o c))
      BY <1>1 DEF Ext
    <2>3. /\ Ext(f, a).reader.buf = rd.buf \o a /\ Ext(f, a).reader.endian = f.reader.endian
          /\ Ext(f, a).reader.resol = f.reader.resol /\ Ext(f, a).out = f.out
      BY <1>1, ExtType
    <2>4. Ext(Ext(f, a), c) = With(f, (rd.buf \o a) \o c)
      BY <2>3, Zenon DEF Ext, With
    <2> QED
      BY <2>1, <2>2, <2>4
  <1>11. Fin(Ext(Ext(f, a), c)) = Fin(Ext(one, c))
    BY <1>1, <1>2, ExtType, FinResumes
  <1>12. Ext(one, c) = Pre(one.out, Ext(g, c))
    <2>1. one.out \o <<>> = one.out
      BY <1>4, ConcatEmptySeq
    <2> QED
      BY <1>5, <2>1 DEF Ext, With, Pre
  <1>13. Fin(Ext(one, c)) = Pre(one.out, two)
    BY <1>4, <1>5, <1>6, <1>12, ExtType, FinPre
  <1>14. Feed(rd, a \o c) = [reader |-> two.reader, out |-> one.out \o two.out]
    BY <1>9, <1>10, <1>11, <1>13 DEF Pre
  <1> QED
    BY <1>3, <1>7, <1>14 DEF one

-----------------------------------------------------------------------------
(* Functions defined by a step over 0..n.                                  *)

\* f is what n steps make of a.
Follows(f, S, a, n, step) ==
    /\ f \in [0..n -> S]
    /\ f[0] = a
    /\ \A k \in 1..n : f[k] = step[k][f[k - 1]]

\* A recursion of n steps has a value: some f follows the steps from a.
LEMMA Recursion ==
    ASSUME NEW S, NEW a \in S, NEW n \in Nat, NEW step \in [1..n -> [S -> S]]
    PROVE  \E f : Follows(f, S, a, n, step)
  <1> DEFINE P(k, f) == /\ f \in [0..k -> S]
                        /\ f[0] = a
                        /\ \A i \in 1..k : f[i] = step[i][f[i - 1]]
             T == {k \in Nat : k <= n => \E f : P(k, f)}
  <1>1. 0 \in T
    <2>1. P(0, [i \in 0..0 |-> a])
      OBVIOUS
    <2> QED
      BY <2>1
  <1>2. ASSUME NEW k \in Nat, k \in T PROVE k + 1 \in T
    <2> SUFFICES ASSUME k + 1 <= n PROVE \E f : P(k + 1, f)
      OBVIOUS
    <2>1. PICK f : P(k, f)
      BY <1>2
    <2> DEFINE x == step[k + 1][f[k]]
               g == [i \in 0..(k + 1) |-> IF i = k + 1 THEN x ELSE f[i]]
    <2>2. x \in S
      <3>1. k + 1 \in 1..n /\ f[k] \in S
        BY <2>1
      <3> QED
        BY <3>1
    <2> HIDE DEF x
    <2>3. g \in [0..(k + 1) -> S] /\ g[0] = a
      BY <2>1, <2>2
    <2>4. ASSUME NEW i \in 1..(k + 1) PROVE g[i] = step[i][g[i - 1]]
      <3>1. CASE i = k + 1
        <4>1. g[i] = x /\ g[i - 1] = f[k]
          BY <3>1
        <4> QED
          BY <3>1, <4>1 DEF x
      <3>2. CASE i # k + 1
        <4>1. i \in 1..k /\ g[i] = f[i] /\ g[i - 1] = f[i - 1]
          BY <3>2
        <4> QED
          BY <2>1, <4>1
      <3> QED
        BY <3>1, <3>2
    <2> HIDE DEF g
    <2>5. P(k + 1, g)
      BY <2>3, <2>4
    <2> QED
      BY <2>5
  <1>3. Nat \subseteq T
    <2> HIDE DEF T
    <2> QED
      BY <1>1, <1>2, Induction
  <1>4. \E f : P(n, f)
    BY <1>3
  <1> QED
    BY <1>4 DEF Follows

-----------------------------------------------------------------------------
(* Streams.                                                                *)

BlockSet == [type : Types, order : Orders, num : Nat, iface : Nat,
             pkt : Packet \cup {NoPacket}]

\* A cell holds what it was made of.
LEMMA CellType ==
    ASSUME NEW kind \in Kinds, NEW order \in Orders, NEW num \in Nat, NEW iface \in Nat,
           NEW pkt \in Packet \cup {NoPacket}
    PROVE  /\ CellOf(kind, order, num, iface, pkt) \in Cell
           /\ CellOf(kind, order, num, iface, pkt).kind = kind
           /\ CellOf(kind, order, num, iface, pkt).order = order
           /\ CellOf(kind, order, num, iface, pkt).num = num
           /\ CellOf(kind, order, num, iface, pkt).iface = iface
           /\ CellOf(kind, order, num, iface, pkt).pkt = pkt
  BY DEF CellOf, Cell

\* The cells of a block, and how many there are.
LEMMA BlockType ==
    ASSUME NEW b \in BlockSet
    PROVE  /\ Block(b) \in Seq(Cell)
           /\ Len(Block(b)) = (IF b.type \in {"SHB", "EPB"} THEN 4
                               ELSE IF b.type = "junk" THEN 1 ELSE 3)
  <1> DEFINE c(kind, num) == CellOf(kind, b.order, num, 0, NoPacket)
             d == CellOf("body", b.order, b.num, b.iface, b.pkt)
  <1>1. \A kind \in Kinds, num \in Nat : c(kind, num) \in Cell
    BY CellType DEF BlockSet
  <1>2. d \in Cell
    BY CellType DEF BlockSet, Kinds
  <1>3. b.num \in Nat /\ b.type \in Types
    BY DEF BlockSet
  <1> HIDE DEF c, d
  <1>4. CASE b.type = "SHB"
    <2>1. Block(b) = <<c("SHB", 0), c("length", 4), c("bom", 0), c("length", 4)>>
      BY <1>4 DEF Block, c
    <2> QED
      BY <1>1, <1>4, <2>1 DEF Kinds
  <1>5. CASE b.type = "IDB"
    <2>1. Block(b) = <<c("IDB", 0), c("length", 3), c("body", b.num)>>
      BY <1>5 DEF Block, c
    <2> QED
      BY <1>1, <1>3, <1>5, <2>1 DEF Kinds
  <1>6. CASE b.type = "EPB"
    <2>1. Block(b) = <<c("EPB", 0), c("length", 4), d, c("length", 4)>>
      BY <1>6 DEF Block, c, d
    <2> QED
      BY <1>1, <1>2, <1>6, <2>1 DEF Kinds
  <1>7. CASE b.type = "cut"
    <2>1. Block(b) = <<c("EPB", 0), c("length", 3), d>>
      BY <1>7 DEF Block, c, d
    <2> QED
      BY <1>1, <1>2, <1>7, <2>1 DEF Kinds
  <1>8. CASE b.type = "junk"
    <2>1. Block(b) = <<c("body", 0)>>
      BY <1>8 DEF Block, c
    <2> QED
      BY <1>1, <1>8, <2>1 DEF Kinds
  <1> QED
    BY <1>3, <1>4, <1>5, <1>6, <1>7, <1>8 DEF Types

\* The recursive definition of CellsUpTo has a value.
LEMMA CellsUpToDef ==
    ASSUME NEW blocks \in Seq(BlockSet)
    PROVE  /\ CellsUpTo(blocks)[0] = <<>>
           /\ \A k \in 1..Len(blocks) :
                 CellsUpTo(blocks)[k] = CellsUpTo(blocks)[k - 1] \o Block(blocks[k])
           /\ \A k \in 0..Len(blocks) : CellsUpTo(blocks)[k] \in Seq(Cell)
  <1> DEFINE n == Len(blocks)
             step == [k \in 1..n |-> [x \in Seq(Cell) |-> x \o Block(blocks[k])]]
  <1>1. n \in Nat
    OBVIOUS
  <1>2. step \in [1..n -> [Seq(Cell) -> Seq(Cell)]]
    <2>1. ASSUME NEW k \in 1..n, NEW x \in Seq(Cell) PROVE x \o Block(blocks[k]) \in Seq(Cell)
      <3>1. blocks[k] \in BlockSet
        BY ElementOfSeq
      <3>2. Block(blocks[k]) \in Seq(Cell)
        BY <3>1, BlockType
      <3> QED
        BY <3>2, ConcatProperties
    <2> QED
      BY <2>1
  <1>3. <<>> \in Seq(Cell)
    OBVIOUS
  <1>4. PICK f : Follows(f, Seq(Cell), <<>>, n, step)
    <2> DEFINE S == Seq(Cell)
               a == <<>>
    <2>1. a \in S /\ step \in [1..n -> [S -> S]]
      BY <1>2, <1>3
    <2> HIDE DEF n, step, S, a
    <2>2. \E f : Follows(f, S, a, n, step)
      BY <1>1, <2>1, Recursion, Zenon
    <2> QED
      BY <2>2 DEF S, a
  <1>5. ASSUME NEW k \in 1..n PROVE f[k] = f[k - 1] \o Block(blocks[k])
    <2>1. k - 1 \in 0..n
      BY <1>1
    <2>2. f[k - 1] \in Seq(Cell)
      BY <1>4, <2>1 DEF Follows
    <2>3. step[k][f[k - 1]] = f[k - 1] \o Block(blocks[k])
      BY <2>2
    <2> HIDE DEF step
    <2> QED
      BY <1>4, <2>3 DEF Follows
  <1>6. f = [k \in 0..n |-> IF k = 0 THEN <<>> ELSE f[k - 1] \o Block(blocks[k])]
    <2>1. ASSUME NEW k \in 0..n, k # 0 PROVE f[k] = f[k - 1] \o Block(blocks[k])
      <3>1. k \in 1..n
        BY <1>1, <2>1
      <3> QED
        BY <3>1, <1>5
    <2>2. f = [k \in 0..n |-> f[k]]
      BY <1>4 DEF Follows
    <2> HIDE DEF n
    <2> QED
      BY <1>4, <2>1, <2>2 DEF Follows
  <1>7. CellsUpTo(blocks) = [k \in 0..n |->
            IF k = 0 THEN <<>> ELSE CellsUpTo(blocks)[k - 1] \o Block(blocks[k])]
    <2> HIDE DEF step
    <2> QED
      BY <1>6, Zenon DEF CellsUpTo
  <1> DEFINE u == CellsUpTo(blocks)
  <1> HIDE DEF u
  <1>8. u = [k \in 0..n |-> IF k = 0 THEN <<>> ELSE u[k - 1] \o Block(blocks[k])]
    BY <1>7 DEF u
  <1>9. ASSUME NEW k \in 0..n
        PROVE  u[k] = IF k = 0 THEN <<>> ELSE u[k - 1] \o Block(blocks[k])
    <2> HIDE DEF n
    <2> QED
      BY <1>8, Zenon
  <1>10. u[0] = <<>>
    BY <1>1, <1>9
  <1>11. ASSUME NEW k \in 1..n PROVE u[k] = u[k - 1] \o Block(blocks[k])
    <2>1. k \in 0..n /\ k # 0
      BY <1>1
    <2> HIDE DEF n
    <2> QED
      BY <2>1, <1>9, Zenon
  <1> DEFINE T == {k \in 0..n : u[k] \in Seq(Cell)}
  <1>12. 0 \in T
    <2>1. 0 \in 0..n
      BY <1>1
    <2> QED
      BY <2>1, <1>3, <1>10, Zenon
  <1>13. ASSUME NEW k \in 1..n, k - 1 \in T PROVE k \in T
    <2>1. u[k] = u[k - 1] \o Block(blocks[k]) /\ u[k - 1] \in Seq(Cell)
      BY <1>11, <1>13
    <2>2. Block(blocks[k]) \in Seq(Cell)
      <3>1. blocks[k] \in BlockSet
        BY ElementOfSeq
      <3> QED
        BY <3>1, BlockType
    <2>3. k \in 0..n
      BY <1>1
    <2>4. u[k - 1] \o Block(blocks[k]) \in Seq(Cell)
      BY <2>1, <2>2, ConcatProperties
    <2> QED
      BY <2>1, <2>3, <2>4, Zenon
  <1>14. 0..n \subseteq T
    <2> HIDE DEF T, n
    <2> QED
      BY <1>1, <1>12, <1>13, UpTo
  <1> QED
    BY <1>10, <1>11, <1>14 DEF u

SectionSet == [order : Orders, resol : Seq(Nat)]
First      == [order |-> "<", resol |-> <<>>]

\* The section after a block.
NextSection(s, b) ==
    CASE b.type = "SHB" -> [order |-> b.order, resol |-> <<>>]
      [] b.type = "IDB" -> [s EXCEPT !.resol = Append(@, b.num)]
      [] OTHER -> s

\* What each type of block does to the section.
LEMMA NextSectionType ==
    ASSUME NEW s \in SectionSet, NEW b \in BlockSet
    PROVE  /\ NextSection(s, b) \in SectionSet
           /\ b.type = "SHB" => NextSection(s, b) = [order |-> b.order, resol |-> <<>>]
           /\ b.type = "IDB" => /\ NextSection(s, b).order = s.order
                                /\ NextSection(s, b).resol = Append(s.resol, b.num)
           /\ b.type \notin {"SHB", "IDB"} => NextSection(s, b) = s
  <1>1. b.order \in Orders /\ b.num \in Nat /\ s.resol \in Seq(Nat) /\ s.order \in Orders
    BY DEF BlockSet, SectionSet
  <1>2. CASE b.type = "SHB"
    <2>1. NextSection(s, b) = [order |-> b.order, resol |-> <<>>]
      BY <1>2 DEF NextSection
    <2>2. <<>> \in Seq(Nat)
      OBVIOUS
    <2> QED
      BY <1>1, <1>2, <2>1, <2>2 DEF SectionSet
  <1>3. CASE b.type = "IDB"
    <2> DEFINE x == Append(s.resol, b.num)
    <2>1. \A y : [s EXCEPT !.resol = y] = [order |-> s.order, resol |-> y]
      BY DEF SectionSet
    <2>2. NextSection(s, b) = [order |-> s.order, resol |-> x]
      BY <1>3, <2>1 DEF NextSection
    <2>3. x \in Seq(Nat)
      BY <1>1
    <2> HIDE DEF x
    <2>4. NextSection(s, b) \in SectionSet
      BY <1>1, <2>2, <2>3 DEF SectionSet
    <2>5. NextSection(s, b).order = s.order /\ NextSection(s, b).resol = x
      BY <2>2
    <2> QED
      BY <1>3, <2>4, <2>5 DEF x
  <1>4. CASE b.type \notin {"SHB", "IDB"}
    BY <1>4 DEF NextSection
  <1> QED
    BY <1>2, <1>3, <1>4

\* The recursive definition of Sections has a value.
LEMMA SectionsDef ==
    ASSUME NEW blocks \in Seq(BlockSet)
    PROVE  /\ Sections(blocks)[0] = First
           /\ \A k \in 1..Len(blocks) :
                 Sections(blocks)[k] = NextSection(Sections(blocks)[k - 1], blocks[k])
           /\ \A k \in 0..Len(blocks) : Sections(blocks)[k] \in SectionSet
  <1> DEFINE n == Len(blocks)
             step == [k \in 1..n |-> [s \in SectionSet |-> NextSection(s, blocks[k])]]
  <1>1. n \in Nat
    OBVIOUS
  <1>a. ASSUME NEW k \in 1..n, NEW s \in SectionSet PROVE NextSection(s, blocks[k]) \in SectionSet
    <2>1. blocks[k] \in BlockSet
      BY ElementOfSeq
    <2> QED
      BY <2>1, NextSectionType
  <1>2. step \in [1..n -> [SectionSet -> SectionSet]]
    BY <1>a
  <1>3. First \in SectionSet
    <2>1. <<>> \in Seq(Nat)
      OBVIOUS
    <2> QED
      BY <2>1 DEF First, SectionSet, Orders
  <1>4. PICK f : Follows(f, SectionSet, First, n, step)
    <2> HIDE DEF n, step
    <2> QED
      BY <1>1, <1>2, <1>3, Recursion, Zenon
  <1>5. ASSUME NEW k \in 1..n PROVE f[k] = NextSection(f[k - 1], blocks[k])
    <2>1. k - 1 \in 0..n
      BY <1>1
    <2>2. f[k - 1] \in SectionSet
      BY <1>4, <2>1 DEF Follows
    <2>3. step[k][f[k - 1]] = NextSection(f[k - 1], blocks[k])
      BY <2>2
    <2> HIDE DEF step
    <2> QED
      BY <1>4, <2>3 DEF Follows
  <1>6. f = [k \in 0..n |-> IF k = 0 THEN First ELSE NextSection(f[k - 1], blocks[k])]
    <2>1. ASSUME NEW k \in 0..n, k # 0 PROVE f[k] = NextSection(f[k - 1], blocks[k])
      <3>1. k \in 1..n
        BY <1>1, <2>1
      <3> QED
        BY <3>1, <1>5
    <2>2. f = [k \in 0..n |-> f[k]]
      BY <1>4 DEF Follows
    <2> HIDE DEF n
    <2> QED
      BY <1>4, <2>1, <2>2 DEF Follows
  <1> DEFINE u == Sections(blocks)
  <1>8. u = [k \in 0..n |-> IF k = 0 THEN First ELSE NextSection(u[k - 1], blocks[k])]
    <2> HIDE DEF step
    <2> QED
      BY <1>6, Zenon DEF Sections, NextSection, First
  <1> HIDE DEF u
  <1>9. ASSUME NEW k \in 0..n
        PROVE  u[k] = IF k = 0 THEN First ELSE NextSection(u[k - 1], blocks[k])
    <2> HIDE DEF n
    <2> QED
      BY <1>8, Zenon
  <1>10. u[0] = First
    BY <1>1, <1>9
  <1>11. ASSUME NEW k \in 1..n PROVE u[k] = NextSection(u[k - 1], blocks[k])
    <2>1. k \in 0..n /\ k # 0
      BY <1>1
    <2> HIDE DEF n
    <2> QED
      BY <2>1, <1>9, Zenon
  <1> DEFINE T == {k \in 0..n : u[k] \in SectionSet}
  <1>12. 0 \in T
    <2>1. 0 \in 0..n
      BY <1>1
    <2> QED
      BY <2>1, <1>3, <1>10, Zenon
  <1>13. ASSUME NEW k \in 1..n, k - 1 \in T PROVE k \in T
    <2>1. u[k] = NextSection(u[k - 1], blocks[k]) /\ u[k - 1] \in SectionSet
      BY <1>11, <1>13
    <2>2. NextSection(u[k - 1], blocks[k]) \in SectionSet
      BY <2>1, <1>a
    <2>3. k \in 0..n
      BY <1>1
    <2> QED
      BY <2>1, <2>2, <2>3, Zenon
  <1>14. 0..n \subseteq T
    <2> HIDE DEF T, n
    <2> QED
      BY <1>1, <1>12, <1>13, UpTo
  <1> QED
    BY <1>10, <1>11, <1>14 DEF u

\* The packets after a block.
NextPackets(blocks, n, k, out) ==
    IF blocks[k].type = "EPB" /\ Offset(blocks, k) <= n
    THEN Append(out, Timed(blocks, k)) ELSE out

\* The packet of a block with its time.
LEMMA TimedType ==
    ASSUME NEW blocks \in Seq(BlockSet), NEW k \in 1..Len(blocks)
    PROVE  Timed(blocks, k) \in Timeds
  <1> DEFINE resol == Sections(blocks)[k - 1].resol
             i == blocks[k].iface + 1
             ts == IF i \in DOMAIN resol THEN blocks[k].num * resol[i] ELSE None
  <1>1. resol \in Seq(Nat)
    <2>1. k - 1 \in 0..Len(blocks)
      OBVIOUS
    <2> QED
      BY <2>1, SectionsDef DEF SectionSet
  <1>2. blocks[k].num \in Nat /\ blocks[k].pkt \in Packet \cup {NoPacket}
    <2>1. blocks[k] \in BlockSet
      BY ElementOfSeq
    <2> QED
      BY <2>1 DEF BlockSet
  <1>3. \A a, b \in Nat : a * b \in Nat
    OBVIOUS
  <1> HIDE DEF resol
  <1>4. ts \in Int
    <2>1. CASE i \in DOMAIN resol
      <3>1. resol[i] \in Nat
        BY <1>1, <2>1, ElementOfSeq, LenProperties
      <3> QED
        BY <1>2, <1>3, <2>1, <3>1
    <2> QED
      BY <2>1 DEF None
  <1> HIDE DEF ts
  <1>5. Timed(blocks, k) = [pkt |-> blocks[k].pkt, ts |-> ts]
    BY DEF Timed, ts, resol
  <1> QED
    BY <1>2, <1>4, <1>5 DEF Timeds

\* The recursive definition of PacketsUpTo has a value.
LEMMA PacketsUpToDef ==
    ASSUME NEW blocks \in Seq(BlockSet), NEW c
    PROVE  /\ PacketsUpTo(blocks, c)[0] = <<>>
           /\ \A k \in 1..Len(blocks) :
                 PacketsUpTo(blocks, c)[k] = NextPackets(blocks, c, k, PacketsUpTo(blocks, c)[k - 1])
           /\ \A k \in 0..Len(blocks) : PacketsUpTo(blocks, c)[k] \in Seq(Timeds)
  <1> DEFINE n == Len(blocks)
             S == Seq(Timeds)
             next(k, s) == NextPackets(blocks, c, k, s)
             step == [k \in 1..n |-> [s \in S |-> next(k, s)]]
  <1>1. n \in Nat
    OBVIOUS
  <1>a. ASSUME NEW k \in 1..n, NEW s \in S PROVE next(k, s) \in S
    <2>1. Timed(blocks, k) \in Timeds
      BY TimedType
    <2>2. Append(s, Timed(blocks, k)) \in Seq(Timeds)
      BY <2>1, AppendProperties
    <2> QED
      BY <2>2 DEF NextPackets
  <1> DEFINE a == <<>>
  <1>3. a \in S
    OBVIOUS
  <1> HIDE DEF next, S, a
  <1>2. step \in [1..n -> [S -> S]]
    BY <1>a
  <1>4. PICK f : Follows(f, S, a, n, step)
    <2> HIDE DEF n, step
    <2> QED
      BY <1>1, <1>2, <1>3, Recursion, Zenon
  <1>5. ASSUME NEW k \in 1..n PROVE f[k] = next(k, f[k - 1])
    <2>1. k - 1 \in 0..n
      BY <1>1
    <2>2. f[k - 1] \in S
      BY <1>4, <2>1 DEF Follows
    <2>3. step[k][f[k - 1]] = next(k, f[k - 1])
      BY <2>2
    <2> HIDE DEF step
    <2> QED
      BY <1>4, <2>3 DEF Follows
  <1>6. f = [k \in 0..n |-> IF k = 0 THEN a ELSE next(k, f[k - 1])]
    <2>1. ASSUME NEW k \in 0..n, k # 0 PROVE f[k] = next(k, f[k - 1])
      <3>1. k \in 1..n
        BY <1>1, <2>1
      <3> QED
        BY <3>1, <1>5
    <2>2. f = [k \in 0..n |-> f[k]]
      BY <1>4 DEF Follows
    <2> HIDE DEF n
    <2> QED
      BY <1>4, <2>1, <2>2 DEF Follows
  <1> DEFINE u == PacketsUpTo(blocks, c)
  <1>8. u = [k \in 0..n |-> IF k = 0 THEN a ELSE next(k, u[k - 1])]
    <2> HIDE DEF step
    <2> QED
      BY <1>6, Zenon DEF PacketsUpTo, NextPackets, next, a
  <1> HIDE DEF u
  <1>9. ASSUME NEW k \in 0..n
        PROVE  u[k] = IF k = 0 THEN a ELSE next(k, u[k - 1])
    <2> HIDE DEF n
    <2> QED
      BY <1>8, Zenon
  <1>10. u[0] = a
    BY <1>1, <1>9
  <1>11. ASSUME NEW k \in 1..n PROVE u[k] = next(k, u[k - 1])
    <2>1. k \in 0..n /\ k # 0
      BY <1>1
    <2> HIDE DEF n
    <2> QED
      BY <2>1, <1>9, Zenon
  <1> DEFINE T == {k \in 0..n : u[k] \in S}
  <1>12. 0 \in T
    <2>1. 0 \in 0..n
      BY <1>1
    <2> QED
      BY <2>1, <1>3, <1>10, Zenon
  <1>13. ASSUME NEW k \in 1..n, k - 1 \in T PROVE k \in T
    <2>1. u[k] = next(k, u[k - 1]) /\ u[k - 1] \in S
      BY <1>11, <1>13
    <2>2. next(k, u[k - 1]) \in S
      BY <2>1, <1>a
    <2>3. k \in 0..n
      BY <1>1
    <2> QED
      BY <2>1, <2>2, <2>3, Zenon
  <1>14. 0..n \subseteq T
    <2> HIDE DEF T, n
    <2> QED
      BY <1>1, <1>12, <1>13, UpTo
  <1> QED
    BY <1>10, <1>11, <1>14 DEF u, a, next, S

\* The members of a sequence from m + 1 to n.
LEMMA Slice ==
    ASSUME NEW S, NEW s \in Seq(S), NEW m \in Nat, NEW n \in Nat, m <= n, n <= Len(s)
    PROVE  /\ SubSeq(s, m + 1, n) \in Seq(S)
           /\ Len(SubSeq(s, m + 1, n)) = n - m
           /\ \A i \in 1..(n - m) : SubSeq(s, m + 1, n)[i] = s[m + i]
  <1>1. \A i \in (m + 1)..n : s[i] \in S
    OBVIOUS
  <1>2. m + 1 \in Int /\ n \in Int
    OBVIOUS
  <1> QED
    BY <1>1, <1>2, SubSeqProperties

\* A suffix and a prefix of a slice are slices.
LEMMA SliceOfSlice ==
    ASSUME NEW S, NEW s \in Seq(S), NEW m \in Nat, NEW n \in Nat, NEW k \in Nat,
           m + k <= n, n <= Len(s)
    PROVE  LET u == SubSeq(s, m + 1, n)
           IN  /\ SubSeq(u, k + 1, Len(u)) = SubSeq(s, m + k + 1, n)
               /\ k = 1 => Tail(u) = SubSeq(s, m + k + 1, n)
  <1> DEFINE u == SubSeq(s, m + 1, n)
             v == SubSeq(u, k + 1, Len(u))
             w == SubSeq(s, m + k + 1, n)
  <1>1. /\ u \in Seq(S) /\ Len(u) = n - m
        /\ \A i \in 1..(n - m) : u[i] = s[m + i]
    BY Slice
  <1>2. /\ w \in Seq(S) /\ Len(w) = n - (m + k)
        /\ \A i \in 1..(n - (m + k)) : w[i] = s[(m + k) + i]
    <2>1. m + k \in Nat
      OBVIOUS
    <2> QED
      BY <2>1, Slice
  <1> HIDE DEF u, w
  <1>3. /\ v \in Seq(S) /\ Len(v) = Len(u) - k
        /\ \A i \in 1..(Len(u) - k) : v[i] = u[k + i]
    <2>1. k <= Len(u)
      BY <1>1
    <2> QED
      BY <1>1, <2>1, Suffix
  <1> HIDE DEF v
  <1>4. v = w
    <2>1. Len(v) = Len(w)
      BY <1>1, <1>2, <1>3
    <2>2. ASSUME NEW i \in 1..Len(v) PROVE v[i] = w[i]
      <3>1. i \in 1..(Len(u) - k) /\ k + i \in 1..(n - m) /\ i \in 1..(n - (m + k))
        BY <1>1, <1>3
      <3>2. m + (k + i) = (m + k) + i
        OBVIOUS
      <3> QED
        BY <1>1, <1>2, <1>3, <3>1, <3>2
    <2> QED
      BY <1>2, <1>3, <2>1, <2>2, SeqEqual
  <1>5. ASSUME k = 1 PROVE Tail(u) = w
    <2>1. u # <<>>
      BY <1>1, <1>5
    <2>2. /\ Tail(u) \in Seq(S) /\ Len(Tail(u)) = Len(u) - 1
          /\ \A i \in 1..(Len(u) - 1) : Tail(u)[i] = u[i + 1]
      BY <1>1, <2>1, HeadTailProperties
    <2>3. Len(Tail(u)) = Len(w)
      BY <1>1, <1>2, <1>5, <2>2
    <2>4. ASSUME NEW i \in 1..Len(w) PROVE Tail(u)[i] = w[i]
      <3>1. i \in 1..(Len(u) - 1) /\ i + 1 \in 1..(n - m) /\ i \in 1..(n - (m + k))
        BY <1>1, <1>2, <1>5
      <3>2. m + (i + 1) = (m + k) + i
        BY <1>5
      <3> QED
        BY <1>1, <1>2, <2>2, <3>1, <3>2
    <2> QED
      BY <1>2, <2>2, <2>3, <2>4, SeqEqual
  <1> QED
    BY <1>4, <1>5 DEF u, v, w

\* Where the blocks of a stream lie.
LEMMA Layout ==
    ASSUME NEW blocks \in Seq(BlockSet)
    PROVE  /\ Cells(blocks) \in Seq(Cell)
           /\ Offset(blocks, 0) = 0
           /\ Offset(blocks, Len(blocks)) = Len(Cells(blocks))
           /\ \A k \in 0..Len(blocks) : Offset(blocks, k) \in Nat
           /\ \A k \in 1..Len(blocks) :
                 /\ Offset(blocks, k) = Offset(blocks, k - 1) + Len(Block(blocks[k]))
                 /\ \A j \in k..Len(blocks) : Offset(blocks, j) >= Offset(blocks, k)
                 /\ \A i \in 1..Len(Block(blocks[k])) :
                       Cells(blocks)[Offset(blocks, k - 1) + i] = Block(blocks[k])[i]
  <1> DEFINE n == Len(blocks)
             u(k) == CellsUpTo(blocks)[k]
             o(k) == Offset(blocks, k)
             b(k) == Block(blocks[k])
  <1>1. n \in Nat
    OBVIOUS
  <1>2. \A k \in 0..n : u(k) \in Seq(Cell) /\ o(k) = Len(u(k)) /\ o(k) \in Nat
    <2>1. ASSUME NEW k \in 0..n PROVE u(k) \in Seq(Cell) /\ o(k) = Len(u(k)) /\ o(k) \in Nat
      <3>1. u(k) \in Seq(Cell)
        BY CellsUpToDef
      <3>2. Len(u(k)) \in Nat
        BY <3>1
      <3> QED
        BY <3>1, <3>2 DEF Offset
    <2> QED
      BY <2>1
  <1>3. u(0) = <<>> /\ Cells(blocks) = u(n)
    BY CellsUpToDef DEF Cells
  <1>4. \A k \in 1..n : b(k) \in Seq(Cell) /\ Len(b(k)) \in Nat
    <2>1. ASSUME NEW k \in 1..n PROVE b(k) \in Seq(Cell) /\ Len(b(k)) \in Nat
      <3>1. blocks[k] \in BlockSet
        BY ElementOfSeq
      <3>2. b(k) \in Seq(Cell)
        BY <3>1, BlockType
      <3> QED
        BY <3>2
    <2> QED
      BY <2>1
  <1>5. ASSUME NEW k \in 1..n
        PROVE  /\ k - 1 \in 0..n /\ k \in 0..n
               /\ o(k) = o(k - 1) + Len(b(k))
               /\ \A i \in 1..o(k) :
                     u(k)[i] = IF i <= o(k - 1) THEN u(k - 1)[i] ELSE b(k)[i - o(k - 1)]
    <2>1. u(k) = u(k - 1) \o b(k)
      BY CellsUpToDef
    <2>2. k - 1 \in 0..n /\ k \in 0..n
      BY <1>1
    <2> HIDE DEF u, o, b, n
    <2>3. u(k - 1) \in Seq(Cell) /\ b(k) \in Seq(Cell)
      BY <1>2, <1>4, <2>2
    <2>4. /\ Len(u(k - 1) \o b(k)) = Len(u(k - 1)) + Len(b(k))
          /\ \A i \in 1..(Len(u(k - 1)) + Len(b(k))) :
                (u(k - 1) \o b(k))[i] = IF i <= Len(u(k - 1)) THEN u(k - 1)[i]
                                        ELSE b(k)[i - Len(u(k - 1))]
      BY <2>3, ConcatProperties
    <2>5. o(k) = Len(u(k)) /\ o(k - 1) = Len(u(k - 1))
      BY <1>2, <2>2
    <2>6. o(k) = o(k - 1) + Len(b(k))
      BY <2>1, <2>4, <2>5
    <2> QED
      BY <2>1, <2>2, <2>4, <2>5, <2>6
  <1> HIDE DEF u, o, b, n
  <1>6. ASSUME NEW k \in 1..n
        PROVE  \A j \in k..n :
                  /\ o(j) >= o(k)
                  /\ \A i \in 1..Len(b(k)) : u(j)[o(k - 1) + i] = b(k)[i]
    <2> DEFINE Q(j) == /\ o(j) >= o(k)
                       /\ \A i \in 1..Len(b(k)) : u(j)[o(k - 1) + i] = b(k)[i]
               T == {j \in 0..n : j >= k => Q(j)}
    <2>a. /\ k - 1 \in 0..n /\ k \in 0..n /\ o(k) = o(k - 1) + Len(b(k))
          /\ o(k) \in Nat /\ o(k - 1) \in Nat /\ Len(b(k)) \in Nat
      <3>1. k - 1 \in 0..n /\ k \in 0..n /\ o(k) = o(k - 1) + Len(b(k))
        BY <1>5
      <3> QED
        BY <3>1, <1>2, <1>4
    <2>1. 0 \in T
      BY <1>1
    <2>2. ASSUME NEW j \in 1..n, j - 1 \in T PROVE j \in T
      <3>1. j \in 0..n /\ j - 1 \in 0..n
        BY <1>1
      <3>2. o(j) \in Nat /\ o(j - 1) \in Nat /\ o(j) = o(j - 1) + Len(b(j)) /\ Len(b(j)) \in Nat
        BY <3>1, <1>2, <1>4, <1>5
      <3> SUFFICES ASSUME j >= k PROVE Q(j)
        BY <3>1
      <3>3. CASE j = k
        <4>1. o(j) >= o(k)
          BY <3>3, <3>2
        <4>2. ASSUME NEW i \in 1..Len(b(k)) PROVE u(j)[o(k - 1) + i] = b(k)[i]
          <5> DEFINE p == o(k - 1) + i
          <5>1. p \in 1..o(k) /\ ~(p <= o(k - 1)) /\ p - o(k - 1) = i
            BY <2>a
          <5>2. u(k)[p] = IF p <= o(k - 1) THEN u(k - 1)[p] ELSE b(k)[p - o(k - 1)]
            <6> HIDE DEF p
            <6> QED
              BY <5>1, <1>5
          <5> HIDE DEF p
          <5>3. u(k)[p] = b(k)[i]
            BY <5>1, <5>2
          <5> QED
            BY <5>3, <3>3 DEF p
        <4> QED
          BY <4>1, <4>2
      <3>4. CASE j > k
        <4>1. Q(j - 1)
          BY <3>4, <2>2
        <4>2. o(j) >= o(k)
          BY <4>1, <3>2, <2>a
        <4>3. ASSUME NEW i \in 1..Len(b(k)) PROVE u(j)[o(k - 1) + i] = b(k)[i]
          <5> DEFINE p == o(k - 1) + i
          <5>1. p \in 1..o(j) /\ p <= o(j - 1)
            BY <2>a, <3>2, <4>1, SMTT(30)
          <5>2. u(j - 1)[p] = b(k)[i]
            BY <4>1
          <5> HIDE DEF p
          <5>3. u(j)[p] = u(j - 1)[p]
            BY <5>1, <1>5
          <5> QED
            BY <5>2, <5>3 DEF p
        <4> QED
          BY <4>2, <4>3
      <3> QED
        BY <3>3, <3>4, <1>1
    <2>3. 0..n \subseteq T
      <3> HIDE DEF T
      <3> QED
        BY <1>1, <2>1, <2>2, UpTo
    <2> HIDE DEF Q
    <2>4. \A j \in k..n : Q(j)
      BY <1>1, <2>3
    <2> QED
      BY <2>4 DEF Q
  <1>7. o(0) = 0 /\ o(n) = Len(u(n)) /\ u(n) \in Seq(Cell)
    <2>1. 0 \in 0..n /\ n \in 0..n
      BY <1>1
    <2> QED
      BY <2>1, <1>2, <1>3
  <1>8. \A k \in 1..n : n \in k..n
    BY <1>1
  <1>9. \A k \in 1..n :
           /\ o(k) = o(k - 1) + Len(b(k))
           /\ \A j \in k..n : o(j) >= o(k)
           /\ \A i \in 1..Len(b(k)) : u(n)[o(k - 1) + i] = b(k)[i]
    BY <1>5, <1>6, <1>8
  <1> QED
    BY <1>2, <1>3, <1>7, <1>9 DEF u, o, b, n

\* What the reader finds in a block.
LEMMA BlockCells ==
    ASSUME NEW b \in BlockSet
    PROVE  LET c == Block(b)
           IN  /\ c[1].kind = (IF b.type = "cut" THEN "EPB" ELSE IF b.type = "junk" THEN "body" ELSE b.type)
               /\ b.type # "junk" =>
                     /\ c[2].kind = "length" /\ c[2].order = b.order
                     /\ c[2].num = Len(c)
                     /\ c[3].kind = (IF b.type = "SHB" THEN "bom" ELSE "body")
                     /\ c[3].order = b.order
               /\ b.type \in {"IDB", "EPB"} => c[3].num = b.num
               /\ b.type = "EPB" => c[3].iface = b.iface /\ c[3].pkt = b.pkt
  <1> DEFINE c(kind, num) == CellOf(kind, b.order, num, 0, NoPacket)
             d == CellOf("body", b.order, b.num, b.iface, b.pkt)
  <1>1. \A kind \in Kinds, num \in Nat :
           /\ c(kind, num).kind = kind /\ c(kind, num).order = b.order
           /\ c(kind, num).num = num
    BY CellType DEF BlockSet
  <1>2. /\ d.kind = "body" /\ d.order = b.order /\ d.num = b.num /\ d.iface = b.iface
        /\ d.pkt = b.pkt
    BY CellType DEF BlockSet, Kinds
  <1>3. b.num \in Nat /\ b.type \in Types
    BY DEF BlockSet
  <1>l. Len(Block(b)) = (IF b.type \in {"SHB", "EPB"} THEN 4
                         ELSE IF b.type = "junk" THEN 1 ELSE 3)
    BY BlockType
  <1> HIDE DEF c, d
  <1>4. CASE b.type = "SHB"
    <2>1. Block(b) = <<c("SHB", 0), c("length", 4), c("bom", 0), c("length", 4)>>
      BY <1>4 DEF Block, c
    <2> QED
      BY <1>1, <1>4, <1>l, <2>1 DEF Kinds
  <1>5. CASE b.type = "IDB"
    <2>1. Block(b) = <<c("IDB", 0), c("length", 3), c("body", b.num)>>
      BY <1>5 DEF Block, c
    <2> QED
      BY <1>1, <1>3, <1>5, <1>l, <2>1 DEF Kinds
  <1>6. CASE b.type = "EPB"
    <2>1. Block(b) = <<c("EPB", 0), c("length", 4), d, c("length", 4)>>
      BY <1>6 DEF Block, c, d
    <2> QED
      BY <1>1, <1>2, <1>6, <1>l, <2>1 DEF Kinds
  <1>7. CASE b.type = "cut"
    <2>1. Block(b) = <<c("EPB", 0), c("length", 3), d>>
      BY <1>7 DEF Block, c, d
    <2> QED
      BY <1>1, <1>2, <1>7, <1>l, <2>1 DEF Kinds
  <1>8. CASE b.type = "junk"
    <2>1. Block(b) = <<c("body", 0)>>
      BY <1>8 DEF Block, c
    <2> QED
      BY <1>1, <1>8, <1>l, <2>1 DEF Kinds
  <1> QED
    BY <1>3, <1>4, <1>5, <1>6, <1>7, <1>8 DEF Types

\* The loop with the first j blocks of the first n cells behind it.
AtBlock(blocks, n, j) ==
    [reader |-> [buf    |-> SubSeq(Cells(blocks), Offset(blocks, j) + 1, n),
                 endian |-> Sections(blocks)[j].order,
                 resol  |-> Sections(blocks)[j].resol],
     out    |-> PacketsUpTo(blocks, n)[j]]

\* The loop at the j-th border of the stream.
LEMMA AtBlockType ==
    ASSUME NEW blocks \in Seq(BlockSet), NEW n \in Nat, n <= Len(Cells(blocks)),
           NEW j \in 0..Len(blocks), Offset(blocks, j) <= n
    PROVE  LET f == AtBlock(blocks, n, j)
           IN  /\ f \in Loops
               /\ f.reader.buf = SubSeq(Cells(blocks), Offset(blocks, j) + 1, n)
               /\ f.reader.endian = Sections(blocks)[j].order
               /\ f.reader.resol = Sections(blocks)[j].resol
               /\ f.out = PacketsUpTo(blocks, n)[j]
               /\ Len(f.reader.buf) = n - Offset(blocks, j)
               /\ \A i \in 1..(n - Offset(blocks, j)) :
                     f.reader.buf[i] = Cells(blocks)[Offset(blocks, j) + i]
  <1> DEFINE o == Offset(blocks, j)
             b == SubSeq(Cells(blocks), o + 1, n)
             s == Sections(blocks)[j]
             p == PacketsUpTo(blocks, n)[j]
  <1>1. o \in Nat /\ Cells(blocks) \in Seq(Cell)
    BY Layout
  <1>2. /\ b \in Seq(Cell) /\ Len(b) = n - o
        /\ \A i \in 1..(n - o) : b[i] = Cells(blocks)[o + i]
    BY <1>1, Slice
  <1>3. s.order \in Orders /\ s.resol \in Seq(Nat)
    BY SectionsDef DEF SectionSet
  <1>4. p \in Seq(Timeds)
    BY PacketsUpToDef
  <1>5. AtBlock(blocks, n, j) =
            [reader |-> [buf |-> b, endian |-> s.order, resol |-> s.resol], out |-> p]
    BY DEF AtBlock
  <1> HIDE DEF b, s, p, o
  <1>6. AtBlock(blocks, n, j) \in Loops
    BY <1>2, <1>3, <1>4, <1>5 DEF Loops, Readers
  <1>7. /\ AtBlock(blocks, n, j).reader.buf = b
        /\ AtBlock(blocks, n, j).reader.endian = s.order
        /\ AtBlock(blocks, n, j).reader.resol = s.resol
        /\ AtBlock(blocks, n, j).out = p
    BY <1>5
  <1>8. /\ Len(AtBlock(blocks, n, j).reader.buf) = n - o
        /\ \A i \in 1..(n - o) : AtBlock(blocks, n, j).reader.buf[i] = Cells(blocks)[o + i]
    BY <1>2, <1>7
  <1> QED
    BY <1>6, <1>7, <1>8, Zenon DEF b, s, p, o

\* The next block is at the head of the buffer, or what there is of it.
LEMMA NextBlock ==
    ASSUME NEW blocks \in Seq(BlockSet), NEW n \in Nat, n <= Len(Cells(blocks)),
           NEW j \in 1..Len(blocks), Offset(blocks, j - 1) <= n
    PROVE  LET f == AtBlock(blocks, n, j - 1)
               c == Block(blocks[j])
           IN  /\ blocks[j] \in BlockSet
               /\ j - 1 \in 0..Len(blocks) /\ j \in 0..Len(blocks)
               /\ Offset(blocks, j - 1) \in Nat
               /\ Offset(blocks, j) \in Nat
               /\ Offset(blocks, j) = Offset(blocks, j - 1) + Len(c)
               /\ \A i \in 1..Len(c) : i <= n - Offset(blocks, j - 1) => f.reader.buf[i] = c[i]
  <1> DEFINE o == Offset(blocks, j - 1)
             c == Block(blocks[j])
             f == AtBlock(blocks, n, j - 1)
             s == Cells(blocks)
  <1>1. blocks[j] \in BlockSet
    BY ElementOfSeq
  <1>2. j - 1 \in 0..Len(blocks) /\ j \in 0..Len(blocks)
    OBVIOUS
  <1>3. /\ o \in Nat /\ Offset(blocks, j) \in Nat /\ Offset(blocks, j) = o + Len(c)
        /\ \A i \in 1..Len(c) : s[o + i] = c[i]
    BY <1>2, Layout
  <1>4. \A i \in 1..(n - o) : f.reader.buf[i] = s[o + i]
    BY <1>2, AtBlockType
  <1>5. Len(c) \in Nat
    <2>1. c \in Seq(Cell)
      BY <1>1, BlockType
    <2> QED
      BY <2>1
  <1> HIDE DEF o, c, f, s
  <1>6. ASSUME NEW i \in 1..Len(c), i <= n - o PROVE f.reader.buf[i] = c[i]
    <2>1. i \in 1..(n - o)
      BY <1>3, <1>5, <1>6
    <2> QED
      BY <1>3, <1>4, <2>1
  <1> QED
    BY <1>1, <1>2, <1>3, <1>6 DEF o, c, f, s

\* A turn takes a whole block off the buffer, and a stray word if the two
\* words behind it are there.
LEMMA TakesBlock ==
    ASSUME NEW blocks, WellFormed(blocks), NEW n \in Nat, n <= Len(Cells(blocks)),
           NEW j \in 1..Len(blocks), Offset(blocks, j) <= n,
           blocks[j].type = "junk" => n - Offset(blocks, j - 1) >= MinBlock
    PROVE  Turn(AtBlock(blocks, n, j - 1)) = AtBlock(blocks, n, j)
  <1>1. blocks \in Seq(BlockSet)
    BY DEF WellFormed, BlockSet
  <1> DEFINE o == Offset(blocks, j - 1)
             b == blocks[j]
             c == Block(b)
             L == Len(c)
             f == AtBlock(blocks, n, j - 1)
             s == Sections(blocks)[j - 1]
             t == Sections(blocks)[j]
             buf == f.reader.buf
  <1>2. /\ b \in BlockSet /\ o \in Nat /\ Offset(blocks, j) = o + L
        /\ L = (IF b.type \in {"SHB", "EPB"} THEN 4 ELSE IF b.type = "junk" THEN 1 ELSE 3)
        /\ o <= n /\ o + L <= n
    <2>1. b \in BlockSet
      BY <1>1, ElementOfSeq
    <2>2. L = (IF b.type \in {"SHB", "EPB"} THEN 4 ELSE IF b.type = "junk" THEN 1 ELSE 3)
      BY <2>1, BlockType
    <2>3. Offset(blocks, j) = o + L /\ o \in Nat
      <3>1. j - 1 \in 0..Len(blocks)
        BY <1>1
      <3> QED
        BY <3>1, <1>1, Layout
    <2> HIDE DEF b, c, L, o
    <2>4. o <= n /\ o + L <= n
      BY <2>2, <2>3
    <2> QED
      BY <2>1, <2>2, <2>3, <2>4
  <1>3. /\ f \in Loops /\ f.reader.endian = s.order /\ f.reader.resol = s.resol
        /\ f.out = PacketsUpTo(blocks, n)[j - 1]
        /\ buf = SubSeq(Cells(blocks), o + 1, n)
        /\ Len(buf) = n - o
        /\ \A i \in 1..(n - o) : buf[i] = Cells(blocks)[o + i]
    <2>1. j - 1 \in 0..Len(blocks)
      BY <1>1
    <2> QED
      BY <1>1, <1>2, <2>1, AtBlockType, ZenonT(60)
  <1>4. \A i \in 1..L : i <= n - o => buf[i] = c[i]
    BY <1>1, <1>2, NextBlock
  <1>5. /\ t = NextSection(s, b) /\ s \in SectionSet
        /\ PacketsUpTo(blocks, n)[j] = NextPackets(blocks, n, j, f.out)
    <2>1. j - 1 \in 0..Len(blocks)
      BY <1>1
    <2>2. t = NextSection(s, b) /\ s \in SectionSet
      BY <1>1, <2>1, SectionsDef
    <2>3. PacketsUpTo(blocks, n)[j]
            = NextPackets(blocks, n, j, PacketsUpTo(blocks, n)[j - 1])
      BY <1>1, PacketsUpToDef
    <2> HIDE DEF t, s, b, f
    <2> QED
      BY <1>3, <2>2, <2>3
  <1>6. b.type \in {"IDB", "EPB", "cut"} => b.order = s.order
    <2>1. j \in DOMAIN blocks
      BY <1>1
    <2> QED
      BY <2>1 DEF WellFormed
  <1>7. /\ SubSeq(buf, L + 1, Len(buf)) = SubSeq(Cells(blocks), o + L + 1, n)
        /\ L = 1 => Tail(buf) = SubSeq(Cells(blocks), o + L + 1, n)
    <2> DEFINE u == SubSeq(Cells(blocks), o + 1, n)
    <2>1. Cells(blocks) \in Seq(Cell) /\ L \in Nat
      BY <1>1, <1>2, Layout
    <2>2. o \in Nat /\ o + L <= n /\ n <= Len(Cells(blocks)) /\ n \in Nat /\ buf = u
      BY <1>2, <1>3
    <2> HIDE DEF f, b, c, L, o, buf
    <2>3. SubSeq(u, L + 1, Len(u)) = SubSeq(Cells(blocks), o + L + 1, n)
      BY <2>1, <2>2, SliceOfSlice
    <2>4. L = 1 => Tail(u) = SubSeq(Cells(blocks), o + 1 + 1, n)
      <3>1. L = 1 => o + 1 <= n
        BY <2>1, <2>2
      <3> QED
        BY <2>1, <2>2, <3>1, SliceOfSlice
    <2> HIDE DEF u
    <2> QED
      BY <2>1, <2>2, <2>3, <2>4
  <1> DEFINE b2 == SubSeq(Cells(blocks), o + L + 1, n)
  <1>8. AtBlock(blocks, n, j) = [reader |-> [buf |-> b2, endian |-> t.order, resol |-> t.resol],
                                 out |-> NextPackets(blocks, n, j, f.out)]
    BY <1>2, <1>5 DEF AtBlock
  <1>9. /\ c[1].kind = (IF b.type = "cut" THEN "EPB" ELSE IF b.type = "junk" THEN "body" ELSE b.type)
        /\ b.type # "junk" =>
              /\ c[2].kind = "length" /\ c[2].order = b.order /\ c[2].num = L
              /\ c[3].kind = (IF b.type = "SHB" THEN "bom" ELSE "body")
              /\ c[3].order = b.order
        /\ b.type \in {"IDB", "EPB"} => c[3].num = b.num
        /\ b.type = "EPB" => c[3].iface = b.iface /\ c[3].pkt = b.pkt
    BY <1>2, BlockCells
  <1>10. b.type \in Types
    BY <1>2 DEF BlockSet
  <1>11. ASSUME b.type # "EPB" PROVE NextPackets(blocks, n, j, f.out) = f.out
    BY <1>11 DEF NextPackets
  <1>12. b.type = "EPB" => NextPackets(blocks, n, j, f.out) = Append(f.out, Timed(blocks, j))
    BY <1>2 DEF NextPackets
  <1>13. /\ t \in SectionSet
         /\ b.type = "SHB" => t = [order |-> b.order, resol |-> <<>>]
         /\ b.type = "IDB" => t.order = s.order /\ t.resol = Append(s.resol, b.num)
         /\ b.type \notin {"SHB", "IDB"} => t = s
    <2> HIDE DEF s, t, b, c, o, L, f
    <2> QED
      BY <1>2, <1>5, NextSectionType
  <1> DEFINE e == Endian(f.reader)
  <1>14. CASE b.type = "junk"
    <2>1. n - o >= 3 /\ L = 1
      BY <1>2, <1>14 DEF MinBlock
    <2>2. j + 1 \in 1..Len(blocks) /\ Offset(blocks, (j + 1) - 1) = o + 1
      <3>1. j # Len(blocks)
        <4>1. Offset(blocks, Len(blocks)) = Len(Cells(blocks)) /\ Len(Cells(blocks)) \in Nat
          BY <1>1, Layout
        <4> HIDE DEF o, L, b, c
        <4> QED
          BY <1>2, <2>1, <4>1
      <3>2. j + 1 \in 1..Len(blocks) /\ (j + 1) - 1 = j
        BY <1>1, <3>1
      <3> QED
        BY <1>2, <2>1, <3>2
    <2> DEFINE d == blocks[j + 1]
    <2>3. d \in BlockSet
      BY <1>1, <2>2, ElementOfSeq
    <2>4. buf[2] = Block(d)[1]
      <3>1. \A i \in 1..Len(Block(d)) : Cells(blocks)[(o + 1) + i] = Block(d)[i]
        BY <1>1, <2>2, Layout
      <3>2. 1 \in 1..Len(Block(d))
        <4> HIDE DEF d
        <4>1. Len(Block(d)) \in {1, 3, 4}
          BY <2>3, BlockType
        <4>2. \A l \in {1, 3, 4} : 1 \in 1..l
          OBVIOUS
        <4> QED
          BY <4>1, <4>2, Zenon
      <3>3. Cells(blocks)[(o + 1) + 1] = Block(d)[1]
        BY <3>1, <3>2
      <3>4. 2 \in 1..(n - o) /\ (o + 1) + 1 = o + 2
        BY <1>2, <2>1
      <3>5. buf[2] = Cells(blocks)[o + 2]
        BY <1>3, <3>4
      <3> QED
        BY <3>3, <3>4, <3>5
    <2>5. buf[2].kind \in {"SHB", "IDB", "EPB", "body"}
      BY <2>3, <2>4, BlockCells, ZenonT(60) DEF BlockSet, Types
    <2>6. buf[1].kind = "body"
      <3>1. 1 \in 1..L /\ 1 <= n - o
        <4> HIDE DEF o, L
        <4> QED
          BY <1>2, <2>1
      <3> QED
        BY <3>1, <1>4, <1>9, <1>14
    <2>7. e = s.order
      BY <1>3, <2>6 DEF Endian
    <2>8. Desynced(Claimed(f))
      <3>1. Claimed(f) \in {0, MaxBlock + 1}
        BY <2>5 DEF Claimed, LengthRead
      <3> QED
        BY <3>1, PcapngAssumption DEF Desynced, MinBlock
    <2>9. Turn(f) = [reader |-> [buf |-> Tail(buf), endian |-> e, resol |-> s.resol],
                     out |-> f.out]
      <3>1. Len(buf) >= MinBlock
        BY <1>3, <2>1 DEF MinBlock
      <3> QED
        BY <1>3, <2>8, <3>1, TurnCases
    <2>10. Turn(f) = [reader |-> [buf |-> b2, endian |-> s.order, resol |-> s.resol],
                      out |-> f.out]
      BY <1>7, <2>1, <2>7, <2>9
    <2> QED
      BY <1>8, <1>11, <1>13, <1>14, <2>10
  <1>15. CASE b.type # "junk"
    <2>1. L \in {3, 4} /\ 1 \in 1..L /\ 2 \in 1..L /\ 3 \in 1..L
      BY <1>2, <1>15
    <2>2. buf[1] = c[1] /\ buf[2] = c[2] /\ buf[3] = c[3]
      <3>1. 1 <= n - o /\ 2 <= n - o /\ 3 <= n - o
        BY <1>2, <2>1
      <3> QED
        BY <2>1, <3>1, <1>4
    <2>3. e = b.order
      <3>1. CASE b.type = "SHB"
        BY <1>9, <2>2, <3>1 DEF Endian
      <3>2. CASE b.type # "SHB"
        <4>1. buf[1].kind # "SHB"
          BY <1>9, <1>15, <2>2, <3>2
        <4>2. e = s.order
          BY <4>1, <1>3 DEF Endian
        <4> QED
          BY <4>2, <3>2, <1>6, <1>10, <1>15 DEF Types
      <3> QED
        BY <3>1, <3>2
    <2>4. Claimed(f) = L
      BY <1>9, <1>15, <2>2, <2>3 DEF Claimed, LengthRead
    <2>5. ~Desynced(Claimed(f)) /\ ~Waits(f) /\ Len(buf) >= MinBlock
      <3>1. ~Desynced(L)
        <4> HIDE DEF L
        <4> QED
          BY <2>1, PcapngAssumption DEF Desynced, MinBlock, MinEPB
      <3>2. Len(buf) >= L /\ Len(buf) \in Nat
        BY <1>2, <1>3, <2>1, SMTT(30)
      <3> HIDE DEF f, b, c, L
      <3> QED
        BY <3>1, <3>2, <2>1, <2>4 DEF Waits, MinBlock
    <2> DEFINE block == SubSeq(buf, 1, L)
               r == [buf |-> b2, endian |-> b.order, resol |-> s.resol]
    <2>6. Turn(f) = Handle(r, block, f.out)
      <3>1. Turn(f) = Handle([buf |-> SubSeq(buf, L + 1, Len(buf)), endian |-> e,
                              resol |-> f.reader.resol], SubSeq(buf, 1, L), f.out)
        BY <1>3, <2>4, <2>5, TurnCases
      <3> QED
        BY <1>3, <1>7, <2>3, <3>1
    <2>7. Len(block) = L /\ block[1] = c[1] /\ block[3] = c[3]
      BY <1>3, <2>2, <2>4, <2>5, BlockAhead
    <2> HIDE DEF block, b2, f, c, L, s, t, o, b
    <2>8. ASSUME b.type = "SHB" PROVE Turn(f) = AtBlock(blocks, n, j)
      <3>1. \A x : [r EXCEPT !.resol = x] = [buf |-> b2, endian |-> b.order, resol |-> x]
        OBVIOUS
      <3>2. Handle(r, block, f.out) = [reader |-> [r EXCEPT !.resol = <<>>], out |-> f.out]
        BY <1>9, <2>7, <2>8 DEF Handle
      <3>3. Handle(r, block, f.out) =
                [reader |-> [buf |-> b2, endian |-> b.order, resol |-> <<>>], out |-> f.out]
        BY <3>1, <3>2
      <3>4. t.order = b.order /\ t.resol = <<>>
        BY <1>13, <2>8
      <3> QED
        BY <1>8, <1>11, <2>6, <2>8, <3>3, <3>4
    <2>9. ASSUME b.type = "IDB" PROVE Turn(f) = AtBlock(blocks, n, j)
      <3> DEFINE x == Append(s.resol, b.num)
      <3>1. \A y : [r EXCEPT !.resol = y] = [buf |-> b2, endian |-> b.order, resol |-> y]
        OBVIOUS
      <3>2. Handle(r, block, f.out) = [reader |-> [r EXCEPT !.resol = x], out |-> f.out]
        BY <1>9, <2>7, <2>9 DEF Handle
      <3> HIDE DEF x
      <3>3. Handle(r, block, f.out) =
                [reader |-> [buf |-> b2, endian |-> b.order, resol |-> x], out |-> f.out]
        BY <3>1, <3>2
      <3>4. t.order = b.order /\ t.resol = x
        BY <1>6, <1>13, <2>9 DEF x
      <3> QED
        BY <1>8, <1>11, <2>6, <2>9, <3>3, <3>4
    <2>10. ASSUME b.type = "EPB" PROVE Turn(f) = AtBlock(blocks, n, j)
      <3>1. Handle(r, block, f.out) = [reader |-> r, out |-> Append(f.out,
                [pkt |-> b.pkt,
                 ts  |-> IF b.iface + 1 \in DOMAIN s.resol
                         THEN b.num * s.resol[b.iface + 1] ELSE None])]
        <4>1. block[1].kind = "EPB" /\ Len(block) >= MinEPB
          <5>1. L = 4
            BY <1>2, <2>10
          <5> QED
            BY <1>9, <2>7, <2>10, <5>1 DEF MinEPB
        <4>2. block[3].iface = b.iface /\ block[3].pkt = b.pkt /\ block[3].num = b.num
          BY <1>9, <2>7, <2>10
        <4>3. r.resol = s.resol
          OBVIOUS
        <4> HIDE DEF r
        <4> DEFINE ts == IF block[3].iface + 1 \in DOMAIN r.resol
                         THEN block[3].num * r.resol[block[3].iface + 1] ELSE None
        <4>4. Handle(r, block, f.out) =
                  [reader |-> r, out |-> Append(f.out, [pkt |-> block[3].pkt, ts |-> ts])]
          BY <4>1 DEF Handle
        <4>5. ts = IF b.iface + 1 \in DOMAIN s.resol
                   THEN b.num * s.resol[b.iface + 1] ELSE None
          BY <4>2, <4>3, Zenon
        <4> HIDE DEF ts
        <4> QED
          BY <4>2, <4>4, <4>5, Zenon
      <3>2. Timed(blocks, j) = [pkt |-> b.pkt,
                 ts  |-> IF b.iface + 1 \in DOMAIN s.resol
                         THEN b.num * s.resol[b.iface + 1] ELSE None]
        BY DEF Timed, b, s
      <3>3. t.order = b.order /\ t.resol = s.resol
        BY <1>6, <1>13, <2>10
      <3> QED
        BY <1>8, <1>12, <2>6, <2>10, <3>1, <3>2, <3>3
    <2>11. ASSUME b.type = "cut" PROVE Turn(f) = AtBlock(blocks, n, j)
      <3>1. Handle(r, block, f.out) = [reader |-> r, out |-> f.out]
        <4>1. L = 3
          BY <1>2, <2>11
        <4> QED
          BY <1>9, <2>7, <2>11, <4>1 DEF Handle, MinEPB
      <3>2. t.order = b.order /\ t.resol = s.resol
        BY <1>6, <1>13, <2>11
      <3> QED
        BY <1>8, <1>11, <2>6, <2>11, <3>1, <3>2
    <2> QED
      BY <1>10, <1>15, <2>8, <2>9, <2>10, <2>11 DEF Types, f
  <1> QED
    BY <1>14, <1>15

\* A block that is not all there, or a stray word without the two words
\* behind it, keeps the loop waiting, and no packet behind it is due.
LEMMA LeavesBlock ==
    ASSUME NEW blocks, WellFormed(blocks), NEW n \in Nat, n <= Len(Cells(blocks)),
           NEW j \in 1..Len(blocks), Offset(blocks, j - 1) <= n,
           ~(/\ Offset(blocks, j) <= n
             /\ blocks[j].type = "junk" => n - Offset(blocks, j - 1) >= MinBlock)
    PROVE  /\ Waits(AtBlock(blocks, n, j - 1))
           /\ PacketsWithin(blocks, n) = PacketsUpTo(blocks, n)[j - 1]
  <1>1. blocks \in Seq(BlockSet)
    BY DEF WellFormed, BlockSet
  <1> DEFINE N == Len(blocks)
             o == Offset(blocks, j - 1)
             q == Offset(blocks, j)
             b == blocks[j]
             c == Block(b)
             L == Len(c)
             f == AtBlock(blocks, n, j - 1)
             s == Sections(blocks)[j - 1]
             buf == f.reader.buf
             p(i) == PacketsUpTo(blocks, n)[i]
  <1>2. /\ b \in BlockSet /\ j - 1 \in 0..N /\ j \in 0..N /\ o \in Nat /\ q \in Nat
        /\ q = o + L
        /\ \A i \in 1..L : i <= n - o => buf[i] = c[i]
    BY <1>1, NextBlock
  <1>3. /\ f \in Loops /\ f.reader.endian = s.order /\ Len(buf) = n - o
    BY <1>1, <1>2, AtBlockType
  <1>4. L = (IF b.type \in {"SHB", "EPB"} THEN 4 ELSE IF b.type = "junk" THEN 1 ELSE 3)
    BY <1>2, BlockType
  <1>5. /\ c[1].kind = (IF b.type = "cut" THEN "EPB" ELSE IF b.type = "junk" THEN "body" ELSE b.type)
        /\ b.type # "junk" =>
              /\ c[2].kind = "length" /\ c[2].order = b.order /\ c[2].num = L
              /\ c[3].kind = (IF b.type = "SHB" THEN "bom" ELSE "body")
              /\ c[3].order = b.order
    BY <1>2, BlockCells
  <1>6. b.type = "EPB" => b.order = s.order
    <2>1. j \in DOMAIN blocks
      BY <1>1
    <2> QED
      BY <2>1 DEF WellFormed
  <1>a. b.type = "junk" => L = 1 /\ (q > n \/ n - o < 3)
    BY <1>2, <1>4 DEF MinBlock
  <1>b. b.type # "junk" => q > n
    BY <1>2
  <1>7. Waits(f)
    <2> HIDE DEF o, q, L, c, b, f, s
    <2>1. CASE n - o < 3
      BY <1>3, <2>1 DEF Waits, MinBlock
    <2>2. CASE n - o >= 3
      <3>1. b.type # "junk"
        BY <1>2, <1>a, <2>2
      <3>2. L = 4 /\ n - o = 3 /\ b.type \in {"SHB", "EPB"}
        BY <1>2, <1>4, <1>b, <2>2, <3>1
      <3>3. buf[1] = c[1] /\ buf[2] = c[2] /\ buf[3] = c[3]
        <4>1. 1 \in 1..L /\ 2 \in 1..L /\ 3 \in 1..L
          BY <3>2
        <4>2. 1 <= n - o /\ 2 <= n - o /\ 3 <= n - o
          BY <3>2
        <4> QED
          BY <1>2, <4>1, <4>2
      <3>4. Endian(f.reader) = b.order
        <4>1. CASE b.type = "SHB"
          BY <1>5, <3>3, <4>1 DEF Endian
        <4>2. CASE b.type = "EPB"
          BY <1>3, <1>5, <1>6, <3>3, <4>2 DEF Endian
        <4> QED
          BY <3>2, <4>1, <4>2
      <3>5. Claimed(f) = 4
        BY <1>5, <3>1, <3>2, <3>3, <3>4 DEF Claimed, LengthRead
      <3>6. ~Desynced(4)
        BY PcapngAssumption DEF Desynced, MinBlock, MinEPB
      <3> QED
        BY <1>3, <3>2, <3>5, <3>6 DEF Waits
    <2> QED
      BY <1>2, <2>1, <2>2
  <1>8. ASSUME NEW i \in j..N PROVE p(i) = p(i - 1)
    <2>1. i \in 1..N /\ i - 1 \in 0..N /\ N \in Nat
      BY <1>1
    <2>2. p(i) = NextPackets(blocks, n, i, p(i - 1))
      BY <1>1, <2>1, PacketsUpToDef
    <2> DEFINE oi == Offset(blocks, i)
               od == Offset(blocks, i - 1)
    <2>3. ASSUME blocks[i].type = "EPB" PROVE ~(oi <= n)
      <3>1. oi = od + Len(Block(blocks[i])) /\ oi \in Nat /\ od \in Nat
        BY <1>1, <2>1, Layout
      <3>2. Len(Block(blocks[i])) = 4
        <4>1. blocks[i] \in BlockSet
          BY <1>1, <2>1, ElementOfSeq
        <4> QED
          BY <2>3, <4>1, BlockType
      <3>3. CASE i = j
        BY <1>2, <1>b, <2>3, <3>3
      <3>4. CASE i # j
        <4>1. i - 1 \in j..N
          BY <2>1, <3>4
        <4>2. od >= q
          BY <1>1, <4>1, Layout
        <4> HIDE DEF oi, od, q, o, L, b, c
        <4>3. oi = od + 4
          BY <3>1, <3>2
        <4>4. CASE b.type = "junk"
          BY <1>2, <1>a, <3>1, <4>2, <4>3, <4>4
        <4>5. CASE b.type # "junk"
          BY <1>2, <1>b, <3>1, <4>2, <4>3, <4>5
        <4> QED
          BY <4>4, <4>5
      <3> QED
        BY <3>3, <3>4
    <2> QED
      BY <2>2, <2>3 DEF NextPackets
  <1> HIDE DEF p, f, o, q, b, c, L, s
  <1> DEFINE T == {i \in 0..N : i >= j => p(i) = p(j - 1)}
  <1>9. N \in Nat
    BY <1>1
  <1> HIDE DEF N
  <1>10. 0 \in T
    BY <1>2, <1>9
  <1>11. ASSUME NEW i \in 1..N, i - 1 \in T PROVE i \in T
    <2>1. i \in 0..N
      BY <1>9
    <2>2. CASE i = j
      <3>1. p(i) = p(i - 1)
        BY <1>8, <2>2
      <3> QED
        BY <2>1, <2>2, <3>1
    <2>3. CASE i > j
      <3>1. i \in j..N /\ i - 1 >= j
        BY <2>3
      <3>2. p(i) = p(i - 1)
        BY <1>8, <3>1
      <3>3. p(i - 1) = p(j - 1)
        BY <1>11, <3>1
      <3> QED
        BY <2>1, <3>2, <3>3
    <2>4. CASE i < j
      BY <2>1, <2>4
    <2> QED
      BY <2>2, <2>3, <2>4
  <1>12. 0..N \subseteq T
    <2> HIDE DEF T
    <2> QED
      BY <1>9, <1>10, <1>11, UpTo
  <1>13. N \in 0..N /\ N >= j
    BY <1>2, <1>9 DEF N
  <1>14. p(N) = p(j - 1)
    BY <1>12, <1>13
  <1>15. PacketsWithin(blocks, n) = p(N)
    BY DEF PacketsWithin, p, N
  <1> QED
    BY <1>7, <1>14, <1>15 DEF p, f

\* A loop that waits for the rest of a block yields nothing more.
LEMMA FinWaits ==
    ASSUME NEW f \in Loops, Waits(f)
    PROVE  Fin(f).out = f.out
  <1> DEFINE S == {k \in Nat : Turns(f)[k] \in {f, Turn(f)}}
  <1>1. 0 \in S
    BY TurnsDef
  <1>2. ASSUME NEW k \in Nat, k \in S PROVE k + 1 \in S
    <2>1. Turns(f)[k + 1] = Turn(Turns(f)[k])
      BY TurnsDef
    <2>2. Turn(Turn(f)) = Turn(f)
      BY WaitsRests DEF Rests
    <2> QED
      BY <1>2, <2>1, <2>2
  <1>3. Nat \subseteq S
    <2> HIDE DEF S
    <2> QED
      BY <1>1, <1>2, Induction
  <1>4. Len(f.reader.buf) \in Nat
    BY DEF Loops, Readers
  <1>5. Fin(f) \in {f, Turn(f)}
    BY <1>3, <1>4 DEF Fin
  <1> QED
    BY <1>5, WaitsRests

\* A new reader is a reader.
LEMMA NewReaderType == NewReader \in Readers
  <1>1. <<>> \in Seq(Cell) /\ <<>> \in Seq(Nat)
    OBVIOUS
  <1> QED
    BY <1>1 DEF NewReader, Readers, Orders

\* However many cells of a stream have arrived: what the reader makes of them
\* are the packets of the whole blocks among them, each with the time its own
\* section gives it.
THEOREM FeedIsReference ==
    ASSUME NEW blocks, WellFormed(blocks), NEW n \in 0..Len(Cells(blocks))
    PROVE  Feed(NewReader, SubSeq(Cells(blocks), 1, n)).out = PacketsWithin(blocks, n)
  <1>1. blocks \in Seq(BlockSet)
    BY DEF WellFormed, BlockSet
  <1> DEFINE N == Len(blocks)
             f(j) == AtBlock(blocks, n, j)
             o(j) == Offset(blocks, j)
             Done == Fin(f(0)).out = PacketsWithin(blocks, n)
  <1>2. /\ N \in Nat /\ Cells(blocks) \in Seq(Cell) /\ n \in Nat /\ n <= Len(Cells(blocks))
        /\ o(0) = 0 /\ o(N) = Len(Cells(blocks)) /\ \A j \in 0..N : o(j) \in Nat
    <2>1. Cells(blocks) \in Seq(Cell)
      BY <1>1, Layout
    <2>2. n \in Nat /\ n <= Len(Cells(blocks))
      BY <2>1
    <2> QED
      BY <1>1, <2>1, <2>2, Layout
  <1>3. Feed(NewReader, SubSeq(Cells(blocks), 1, n)) = Fin(f(0))
    <2> DEFINE c == SubSeq(Cells(blocks), 1, n)
               e == <<>>
    <2>1. c \in Seq(Cell)
      BY <1>2, Prefix
    <2>2. Feed(NewReader, c) = Fin(Ext(Loop(NewReader), c))
      BY <2>1, NewReaderType, FeedFin
    <2>3. <<>> \o c = c
      BY <2>1, ConcatEmptySeq
    <2>4. f(0) = [reader |-> [buf |-> c, endian |-> "<", resol |-> <<>>], out |-> <<>>]
      <3>1. o(0) + 1 = 1
        BY <1>2
      <3>2. Sections(blocks)[0] = First /\ PacketsUpTo(blocks, n)[0] = <<>>
        BY <1>1, SectionsDef, PacketsUpToDef
      <3>3. Sections(blocks)[0].order = "<" /\ Sections(blocks)[0].resol = <<>>
        BY <3>2 DEF First
      <3>4. f(0) = [reader |-> [buf   |-> SubSeq(Cells(blocks), o(0) + 1, n),
                               endian |-> Sections(blocks)[0].order,
                               resol  |-> Sections(blocks)[0].resol],
                    out    |-> PacketsUpTo(blocks, n)[0]]
        BY DEF AtBlock
      <3> HIDE DEF f, o
      <3> QED
        BY <3>1, <3>2, <3>3, <3>4
    <2>5. Ext(Loop(NewReader), c) = [reader |-> [buf |-> <<>> \o c, endian |-> "<", resol |-> <<>>],
                                     out |-> <<>>]
      BY DEF Ext, With, Loop, NewReader
    <2> HIDE DEF f, c
    <2>6. Ext(Loop(NewReader), c) = f(0)
      BY <2>3, <2>4, <2>5
    <2> QED
      BY <2>2, <2>6 DEF c
  <1> DEFINE T == {j \in 0..N : Done \/ (o(j) <= n /\ Fin(f(j)) = Fin(f(0)))}
  <1>4. 0 \in T
    <2> HIDE DEF f, o, N
    <2> QED
      BY <1>2
  <1>5. ASSUME NEW j \in 1..N, j - 1 \in T PROVE j \in T
    <2>0. j \in 0..N /\ j - 1 \in 0..N
      BY <1>2
    <2> SUFFICES ASSUME ~Done PROVE o(j) <= n /\ Fin(f(j)) = Fin(f(0))
      BY <2>0
    <2>1. o(j - 1) <= n /\ Fin(f(j - 1)) = Fin(f(0))
      BY <1>5
    <2>2. f(j - 1) \in Loops /\ f(j - 1).out = PacketsUpTo(blocks, n)[j - 1]
      BY <1>1, <1>2, <2>0, <2>1, AtBlockType
    <2>3. CASE o(j) <= n /\ (blocks[j].type = "junk" => n - o(j - 1) >= MinBlock)
      <3>1. Turn(f(j - 1)) = f(j)
        BY <1>2, <2>3, TakesBlock
      <3>2. Fin(Turn(f(j - 1))) = Fin(f(j - 1))
        BY <2>2, FinTurn
      <3> HIDE DEF f, o
      <3> QED
        BY <2>1, <2>3, <3>1, <3>2
    <2>4. CASE ~(o(j) <= n /\ (blocks[j].type = "junk" => n - o(j - 1) >= MinBlock))
      <3>1. /\ Waits(f(j - 1))
            /\ PacketsWithin(blocks, n) = PacketsUpTo(blocks, n)[j - 1]
        BY <1>2, <2>1, <2>4, LeavesBlock
      <3>2. Fin(f(j - 1)).out = f(j - 1).out
        BY <2>2, <3>1, FinWaits
      <3>3. Fin(f(0)).out = PacketsWithin(blocks, n)
        <4> HIDE DEF f
        <4> QED
          BY <2>1, <2>2, <3>1, <3>2
      <3> QED
        BY <3>3
    <2> QED
      BY <2>3, <2>4
  <1>6. 0..N \subseteq T
    <2> HIDE DEF T, N
    <2> QED
      BY <1>2, <1>4, <1>5, UpTo
  <1>7. N \in 0..N
    BY <1>2
  <1>8. Done
    <2> SUFFICES ASSUME ~Done PROVE FALSE
      OBVIOUS
    <2>1. o(N) <= n /\ Fin(f(N)) = Fin(f(0))
      BY <1>6, <1>7
    <2>2. /\ f(N) \in Loops /\ f(N).out = PacketsUpTo(blocks, n)[N]
          /\ Len(f(N).reader.buf) = n - o(N)
      BY <1>1, <1>2, <1>7, <2>1, AtBlockType
    <2>3. Waits(f(N))
      <3>1. n - o(N) < 3
        <4> HIDE DEF o, N
        <4> QED
          BY <1>2, <2>1
      <3> HIDE DEF f, o, N
      <3> QED
        BY <2>2, <3>1 DEF Waits, MinBlock
    <2>4. Fin(f(N)).out = PacketsWithin(blocks, n)
      <3>1. Fin(f(N)).out = f(N).out
        BY <2>2, <2>3, FinWaits
      <3> QED
        BY <2>2, <3>1 DEF PacketsWithin
    <2> HIDE DEF f
    <2> QED
      BY <2>1, <2>4
  <1> QED
    BY <1>3, <1>8

-----------------------------------------------------------------------------
(* Frames.                                                                 *)

\* The frames after a packet.
NextFrames(ps, k, s) == IF IsFrame(ps[k].pkt) THEN Append(s, ps[k]) ELSE s

\* The recursive definition of Frames has a value.
LEMMA FramesDef ==
    ASSUME NEW ps \in Seq(Timeds)
    PROVE  \E u : /\ Frames(ps) = u[Len(ps)]
                  /\ u[0] = <<>>
                  /\ \A k \in 1..Len(ps) : u[k] = NextFrames(ps, k, u[k - 1])
                  /\ \A k \in 0..Len(ps) : u[k] \in Seq(Timeds)
  <1> DEFINE n == Len(ps)
             S == Seq(Timeds)
             next(k, s) == NextFrames(ps, k, s)
             step == [k \in 1..n |-> [s \in S |-> next(k, s)]]
  <1>1. n \in Nat
    OBVIOUS
  <1>a. ASSUME NEW k \in 1..n, NEW s \in S PROVE next(k, s) \in S
    <2>1. ps[k] \in Timeds
      BY ElementOfSeq
    <2>2. Append(s, ps[k]) \in Seq(Timeds)
      BY <2>1, AppendProperties
    <2> QED
      BY <2>2 DEF NextFrames
  <1> DEFINE a == <<>>
  <1>3. a \in S
    OBVIOUS
  <1> HIDE DEF next, S, a
  <1>2. step \in [1..n -> [S -> S]]
    BY <1>a
  <1>4. PICK f : Follows(f, S, a, n, step)
    <2> HIDE DEF n, step
    <2> QED
      BY <1>1, <1>2, <1>3, Recursion, Zenon
  <1>5. ASSUME NEW k \in 1..n PROVE f[k] = next(k, f[k - 1])
    <2>1. k - 1 \in 0..n
      BY <1>1
    <2>2. f[k - 1] \in S
      BY <1>4, <2>1 DEF Follows
    <2>3. step[k][f[k - 1]] = next(k, f[k - 1])
      BY <2>2
    <2> HIDE DEF step
    <2> QED
      BY <1>4, <2>3 DEF Follows
  <1>6. f = [k \in 0..n |-> IF k = 0 THEN a ELSE next(k, f[k - 1])]
    <2>1. ASSUME NEW k \in 0..n, k # 0 PROVE f[k] = next(k, f[k - 1])
      <3>1. k \in 1..n
        BY <1>1, <2>1
      <3> QED
        BY <3>1, <1>5
    <2>2. f = [k \in 0..n |-> f[k]]
      BY <1>4 DEF Follows
    <2> HIDE DEF n
    <2> QED
      BY <1>4, <2>1, <2>2 DEF Follows
  <1> DEFINE u == CHOOSE u : u = [k \in 0..n |-> IF k = 0 THEN a ELSE next(k, u[k - 1])]
  <1>7. Frames(ps) = u[n]
    <2> HIDE DEF step
    <2> QED
      BY Zenon DEF Frames, NextFrames, next, a
  <1>8. u = [k \in 0..n |-> IF k = 0 THEN a ELSE next(k, u[k - 1])]
    <2> HIDE DEF step
    <2> QED
      BY <1>6, Zenon
  <1> HIDE DEF u
  <1>9. ASSUME NEW k \in 0..n
        PROVE  u[k] = IF k = 0 THEN a ELSE next(k, u[k - 1])
    <2> HIDE DEF n
    <2> QED
      BY <1>8, Zenon
  <1>10. u[0] = a
    BY <1>1, <1>9
  <1>11. ASSUME NEW k \in 1..n PROVE u[k] = next(k, u[k - 1])
    <2>1. k \in 0..n /\ k # 0
      BY <1>1
    <2> HIDE DEF n
    <2> QED
      BY <2>1, <1>9, Zenon
  <1> DEFINE T == {k \in 0..n : u[k] \in S}
  <1>12. 0 \in T
    <2>1. 0 \in 0..n
      BY <1>1
    <2> QED
      BY <2>1, <1>3, <1>10, Zenon
  <1>13. ASSUME NEW k \in 1..n, k - 1 \in T PROVE k \in T
    <2>1. u[k] = next(k, u[k - 1]) /\ u[k - 1] \in S
      BY <1>11, <1>13
    <2>2. next(k, u[k - 1]) \in S
      BY <2>1, <1>a
    <2>3. k \in 0..n
      BY <1>1
    <2> QED
      BY <2>1, <2>2, <2>3, Zenon
  <1>14. 0..n \subseteq T
    <2> HIDE DEF T, n
    <2> QED
      BY <1>1, <1>12, <1>13, UpTo
  <1> QED
    BY <1>7, <1>10, <1>11, <1>14 DEF a, next, S

\* One packet more is one frame more, if it is a frame.
LEMMA FramesAppend ==
    ASSUME NEW ps \in Seq(Timeds), NEW x \in Timeds
    PROVE  /\ Frames(ps) \in Seq(Timeds)
           /\ Frames(Append(ps, x)) =
                 IF IsFrame(x.pkt) THEN Append(Frames(ps), x) ELSE Frames(ps)
  <1> DEFINE n == Len(ps)
             qs == Append(ps, x)
  <1>1. /\ qs \in Seq(Timeds) /\ Len(qs) = n + 1 /\ n \in Nat
        /\ \A k \in 1..n : qs[k] = ps[k]
        /\ qs[n + 1] = x
    BY AppendProperties
  <1> HIDE DEF qs
  <1>2. PICK u : /\ Frames(ps) = u[n]
                 /\ u[0] = <<>>
                 /\ \A k \in 1..n : u[k] = NextFrames(ps, k, u[k - 1])
                 /\ \A k \in 0..n : u[k] \in Seq(Timeds)
    BY FramesDef
  <1>3. PICK w : /\ Frames(qs) = w[n + 1]
                 /\ w[0] = <<>>
                 /\ \A k \in 1..(n + 1) : w[k] = NextFrames(qs, k, w[k - 1])
    <2>1. \E w : /\ Frames(qs) = w[Len(qs)]
                 /\ w[0] = <<>>
                 /\ \A k \in 1..Len(qs) : w[k] = NextFrames(qs, k, w[k - 1])
                 /\ \A k \in 0..Len(qs) : w[k] \in Seq(Timeds)
      BY <1>1, FramesDef
    <2> HIDE DEF n
    <2> QED
      BY <1>1, <2>1
  <1> HIDE DEF n
  <1> DEFINE T == {k \in 0..n : w[k] = u[k]}
  <1>4. 0 \in T
    BY <1>1, <1>2, <1>3
  <1>5. ASSUME NEW k \in 1..n, k - 1 \in T PROVE k \in T
    <2>1. k \in 0..n /\ k \in 1..(n + 1)
      BY <1>1
    <2>2. w[k] = NextFrames(qs, k, w[k - 1]) /\ u[k] = NextFrames(ps, k, u[k - 1])
      BY <1>2, <1>3, <2>1
    <2>3. NextFrames(qs, k, w[k - 1]) = NextFrames(ps, k, u[k - 1])
      BY <1>1, <1>5 DEF NextFrames
    <2> QED
      BY <2>1, <2>2, <2>3
  <1>6. 0..n \subseteq T
    <2> HIDE DEF T
    <2> QED
      BY <1>1, <1>4, <1>5, UpTo
  <1>7. n \in 0..n /\ n + 1 \in 1..(n + 1) /\ (n + 1) - 1 = n
    BY <1>1
  <1>8. w[n] = u[n]
    BY <1>6, <1>7
  <1>9. w[n + 1] = NextFrames(qs, n + 1, u[n])
    <2>1. w[n + 1] = NextFrames(qs, n + 1, w[(n + 1) - 1])
      BY <1>3, <1>7
    <2> QED
      BY <1>7, <1>8, <2>1
  <1>10. Frames(ps) \in Seq(Timeds)
    BY <1>2, <1>7
  <1> QED
    BY <1>1, <1>2, <1>3, <1>9, <1>10 DEF NextFrames, qs

\* No packets, no frames.
LEMMA FramesEmpty == Frames(<<>>) = <<>>
  <1> DEFINE e == <<>>
  <1>1. e \in Seq(Timeds) /\ Len(e) = 0
    OBVIOUS
  <1> HIDE DEF e
  <1>2. Frames(e) = <<>>
    BY <1>1, FramesDef
  <1> QED
    BY <1>2 DEF e

-----------------------------------------------------------------------------
(* Sets of numbers and sequences given by their elements.                  *)

\* A set of numbers that is not empty has a least member.
LEMMA Least ==
    ASSUME NEW T, T \subseteq Nat, T # {}
    PROVE  LET m == CHOOSE i \in T : \A j \in T : i <= j
           IN  m \in T /\ \A j \in T : m <= j
  <1> DEFINE R == OpToRel(<, Nat)
  <1>1. IsWellFoundedOn(R, Nat)
    BY NatLessThanWellFounded
  <1>2. \A x, y \in Nat : <<y, x>> \in R <=> y < x
    BY DEF OpToRel
  <1> HIDE DEF R
  <1>3. PICK x \in T : \A y \in T : ~(<<y, x>> \in R)
    BY <1>1, WFMin
  <1>4. ASSUME NEW j \in T PROVE x <= j
    <2>1. x \in Nat /\ j \in Nat
      OBVIOUS
    <2>2. ~(j < x)
      BY <1>2, <1>3, <2>1
    <2> QED
      BY <2>1, <2>2
  <1> QED
    BY <1>3, <1>4

\* The least member is the one that is at most every other.
LEMMA LeastIs ==
    ASSUME NEW T, T \subseteq Nat, NEW m \in T, \A j \in T : m <= j
    PROVE  (CHOOSE i \in T : \A j \in T : i <= j) = m
  <1> DEFINE c == CHOOSE i \in T : \A j \in T : i <= j
  <1>1. c \in T /\ \A j \in T : c <= j
    BY Least
  <1> HIDE DEF c
  <1>2. c <= m /\ m <= c /\ c \in Nat /\ m \in Nat
    BY <1>1
  <1>3. c = m
    BY <1>2
  <1> QED
    BY <1>3 DEF c

\* Append on a sequence that was written as a function.
LEMMA AppendFun ==
    ASSUME NEW N \in Nat, NEW f, f = [i \in 1..N |-> f[i]], NEW e
    PROVE  /\ Len(f) = N
           /\ Append(f, e) = [i \in 1..(N + 1) |-> IF i = N + 1 THEN e ELSE f[i]]
  <1> DEFINE S == {f[i] : i \in 1..N} \cup {e}
             g == [i \in 1..(N + 1) |-> IF i = N + 1 THEN e ELSE f[i]]
  <1>1. (\A i \in 1..N : f[i] \in S) /\ e \in S
    OBVIOUS
  <1> HIDE DEF S
  <1>2. f \in Seq(S) /\ Len(f) = N
    <2>1. f \in [1..N -> S]
      BY <1>1
    <2> QED
      BY <2>1, LenProperties
  <1>3. g \in Seq(S) /\ Len(g) = N + 1
    <2>1. g \in [1..(N + 1) -> S]
      BY <1>1
    <2> HIDE DEF g
    <2> QED
      BY <2>1, LenProperties
  <1>4. /\ Append(f, e) \in Seq(S) /\ Len(Append(f, e)) = N + 1
        /\ \A i \in 1..N : Append(f, e)[i] = f[i]
        /\ Append(f, e)[N + 1] = e
    BY <1>1, <1>2, AppendProperties
  <1>5. ASSUME NEW i \in 1..(N + 1) PROVE Append(f, e)[i] = g[i]
    BY <1>4
  <1> HIDE DEF g
  <1>6. Append(f, e) = g
    BY <1>3, <1>4, <1>5, SeqEqual
  <1> QED
    BY <1>2, <1>6 DEF g

-----------------------------------------------------------------------------
(* The log.                                                                *)

\* The parts of LogOf, for its frames.
Kept(n) == IF MaxFrames < 0 \/ MaxFrames > n THEN n ELSE MaxFrames
TimedIn(s, k) == {i \in 1..k : s[i].ts # -1}
ZeroOf(s, T) == IF T = {} THEN -1 ELSE s[CHOOSE i \in T : \A j \in T : i <= j].ts
KindsOf(s) == {s[i].pkt.kind : i \in DOMAIN s}
OfKind(s, k) == {i \in DOMAIN s : s[i].pkt.kind = k}
RecordOf(s, T, i) ==
    [kind |-> s[i].pkt.kind, n |-> i, t |-> IF i \in T THEN s[i].ts - ZeroOf(s, T) ELSE Unset]
LogFrom(s) ==
    LET k == Kept(Len(s))
        T == TimedIn(s, k)
    IN  [total     |-> Len(s),
         counts    |-> [x \in KindsOf(s) |-> Cardinality(OfKind(s, x))],
         frames    |-> [i \in 1..k |-> RecordOf(s, T, i)],
         truncated |-> k < Len(s),
         t0        |-> ZeroOf(s, T)]

\* A log tells of the frames only.
LEMMA LogOfFrom ==
    ASSUME NEW ps
    PROVE  LogOf(ps) = LogFrom(Frames(ps))
  BY DEF LogOf, LogFrom, Kept, TimedIn, ZeroOf, KindsOf, OfKind, RecordOf

\* One frame more adds one to the count of its kind.
LEMMA CountsAppend ==
    ASSUME NEW s \in Seq(Timeds), NEW x \in Timeds
    PROVE  LET counts == [k \in KindsOf(s) |-> Cardinality(OfKind(s, k))]
               kind   == x.pkt.kind
               seen   == IF kind \in DOMAIN counts THEN counts[kind] ELSE 0
               t      == Append(s, x)
           IN  [k \in KindsOf(t) |-> Cardinality(OfKind(t, k))] = Put(counts, kind, seen + 1)
  <1> DEFINE N == Len(s)
             t == Append(s, x)
             kind == x.pkt.kind
             counts == [k \in KindsOf(s) |-> Cardinality(OfKind(s, k))]
             seen == IF kind \in DOMAIN counts THEN counts[kind] ELSE 0
  <1>1. /\ t \in Seq(Timeds) /\ Len(t) = N + 1 /\ N \in Nat
        /\ \A i \in 1..N : t[i] = s[i]
        /\ t[N + 1] = x
        /\ DOMAIN s = 1..N /\ DOMAIN t = 1..(N + 1)
    BY AppendProperties, LenProperties
  <1> HIDE DEF t, N
  <1>2. KindsOf(t) = KindsOf(s) \cup {kind}
    BY <1>1 DEF KindsOf
  <1>3. ASSUME NEW k, k # kind PROVE OfKind(t, k) = OfKind(s, k)
    BY <1>1, <1>3 DEF OfKind
  <1>4. OfKind(t, kind) = OfKind(s, kind) \cup {N + 1}
    BY <1>1 DEF OfKind
  <1>5. IsFiniteSet(OfKind(s, kind)) /\ N + 1 \notin OfKind(s, kind)
    <2>1. IsFiniteSet(1..N)
      BY <1>1, FS_Interval
    <2>2. OfKind(s, kind) \subseteq 1..N
      BY <1>1 DEF OfKind
    <2>3. N + 1 \notin 1..N
      BY <1>1
    <2> QED
      BY <2>1, <2>2, <2>3, FS_Subset
  <1>6. Cardinality(OfKind(t, kind)) = Cardinality(OfKind(s, kind)) + 1
    BY <1>4, <1>5, FS_AddElement
  <1>7. kind \notin KindsOf(s) => Cardinality(OfKind(s, kind)) = 0
    <2>1. kind \notin KindsOf(s) => OfKind(s, kind) = {}
      BY DEF KindsOf, OfKind
    <2> QED
      BY <2>1, FS_EmptySet
  <1>8. seen = Cardinality(OfKind(s, kind))
    <2>1. DOMAIN counts = KindsOf(s)
      OBVIOUS
    <2>2. kind \in KindsOf(s) => counts[kind] = Cardinality(OfKind(s, kind))
      OBVIOUS
    <2> HIDE DEF counts
    <2> QED
      BY <1>7, <2>1, <2>2
  <1> DEFINE f == [k \in KindsOf(t) |-> Cardinality(OfKind(t, k))]
             g == [k \in DOMAIN counts \cup {kind} |-> IF k = kind THEN seen + 1 ELSE counts[k]]
  <1>9. g = Put(counts, kind, seen + 1)
    BY DEF Put
  <1>10. DOMAIN counts = KindsOf(s) /\ \A k \in KindsOf(s) : counts[k] = Cardinality(OfKind(s, k))
    OBVIOUS
  <1> HIDE DEF counts, seen, kind
  <1>11. f = g
    <2>1. ASSUME NEW k \in KindsOf(t)
          PROVE  Cardinality(OfKind(t, k)) = IF k = kind THEN seen + 1 ELSE counts[k]
      <3>1. CASE k = kind
        BY <1>6, <1>8, <3>1
      <3>2. CASE k # kind
        BY <1>2, <1>3, <1>10, <3>2
      <3> QED
        BY <3>1, <3>2
    <2>2. DOMAIN counts \cup {kind} = KindsOf(t)
      BY <1>2, <1>10
    <2> QED
      BY <2>1, <2>2
  <1> QED
    BY <1>9, <1>11 DEF t, kind, counts, seen

\* A log that is full keeps no more records.
LEMMA KeptNext ==
    ASSUME NEW N \in Nat
    PROVE  /\ Kept(N) \in 0..N
           /\ (MaxFrames >= 0 /\ Kept(N) >= MaxFrames) =>
                  Kept(N) < N + 1 /\ Kept(N + 1) = Kept(N)
           /\ ~(MaxFrames >= 0 /\ Kept(N) >= MaxFrames) =>
                  Kept(N) = N /\ Kept(N + 1) = N + 1
  <1>1. MaxFrames \in Int
    BY Dot11Assumption
  <1>2. CASE MaxFrames < 0 \/ MaxFrames > N
    <2>1. Kept(N) = N
      BY <1>2 DEF Kept
    <2>2. Kept(N + 1) = N + 1
      BY <1>1, <1>2 DEF Kept
    <2> QED
      BY <1>1, <1>2, <2>1, <2>2
  <1>3. CASE ~(MaxFrames < 0 \/ MaxFrames > N)
    <2>1. Kept(N) = MaxFrames
      BY <1>3 DEF Kept
    <2>2. Kept(N + 1) = MaxFrames
      BY <1>1, <1>3 DEF Kept
    <2> QED
      BY <1>1, <1>3, <2>1, <2>2
  <1> QED
    BY <1>2, <1>3

\* The time the records start from, one frame later.
LEMMA ZeroNext ==
    ASSUME NEW s \in Seq(Timeds), NEW x \in Timeds
    PROVE  LET N == Len(s)
               t == Append(s, x)
           IN  /\ \A k \in 0..N : /\ TimedIn(s, k) \subseteq 1..N
                                  /\ TimedIn(t, k) = TimedIn(s, k)
               /\ \A T \in SUBSET (1..N) : ZeroOf(t, T) = ZeroOf(s, T)
               /\ TimedIn(t, N + 1) =
                     TimedIn(s, N) \cup (IF x.ts # -1 THEN {N + 1} ELSE {})
               /\ ZeroOf(t, TimedIn(t, N + 1)) =
                     LET zero == ZeroOf(s, TimedIn(s, N))
                     IN  IF zero # -1 THEN zero ELSE x.ts
  <1> DEFINE N == Len(s)
             t == Append(s, x)
  <1>1. /\ t \in Seq(Timeds) /\ Len(t) = N + 1 /\ N \in Nat
        /\ \A i \in 1..N : t[i] = s[i]
        /\ t[N + 1] = x
    BY AppendProperties
  <1> HIDE DEF N, t
  <1>2. /\ TimedIn(s, N) \subseteq 1..N
        /\ \A i \in TimedIn(s, N) : s[i].ts # -1
    BY <1>1 DEF TimedIn
  <1>a. ASSUME NEW k \in 0..N
        PROVE  TimedIn(s, k) \subseteq 1..N /\ TimedIn(t, k) = TimedIn(s, k)
    BY <1>1 DEF TimedIn
  <1>3. ASSUME NEW T, T \subseteq 1..N PROVE ZeroOf(t, T) = ZeroOf(s, T)
    <2>1. CASE T = {}
      BY <2>1 DEF ZeroOf
    <2>2. CASE T # {}
      <3> DEFINE c == CHOOSE i \in T : \A j \in T : i <= j
      <3>1. T \subseteq Nat
        BY <1>1, <1>3
      <3>2. c \in T
        BY <2>2, <3>1, Least
      <3> HIDE DEF c
      <3>3. t[c] = s[c]
        BY <1>1, <1>3, <3>2
      <3> QED
        BY <2>2, <3>3 DEF ZeroOf, c
    <2> QED
      BY <2>1, <2>2
  <1>4. TimedIn(t, N + 1) = TimedIn(s, N) \cup (IF x.ts # -1 THEN {N + 1} ELSE {})
    BY <1>1 DEF TimedIn
  <1> DEFINE T == TimedIn(s, N)
             U == TimedIn(t, N + 1)
             zero == ZeroOf(s, T)
  <1>5. ZeroOf(t, U) = IF zero # -1 THEN zero ELSE x.ts
    <2>1. CASE T = {}
      <3>1. zero = -1
        BY <2>1 DEF ZeroOf
      <3>2. CASE x.ts = -1
        <4>1. U = {}
          BY <1>4, <2>1, <3>2
        <4> HIDE DEF U, zero
        <4> QED
          BY <3>1, <3>2, <4>1 DEF ZeroOf
      <3>3. CASE x.ts # -1
        <4>1. U = {N + 1}
          BY <1>4, <2>1, <3>3
        <4> HIDE DEF U, zero
        <4>2. /\ U \subseteq Nat /\ N + 1 \in U /\ \A j \in U : N + 1 <= j
          BY <1>1, <4>1
        <4>3. (CHOOSE i \in U : \A j \in U : i <= j) = N + 1
          BY <4>2, LeastIs
        <4>4. U # {}
          BY <4>2
        <4>5. ZeroOf(t, U) = t[CHOOSE i \in U : \A j \in U : i <= j].ts
          BY <4>4, Zenon DEF ZeroOf
        <4>6. ZeroOf(t, U) = t[N + 1].ts
          BY <4>3, <4>5, Zenon
        <4> QED
          BY <1>1, <3>1, <4>6
      <3> QED
        BY <3>2, <3>3
    <2>2. CASE T # {}
      <3> DEFINE c == CHOOSE i \in T : \A j \in T : i <= j
      <3>1. T \subseteq Nat /\ T \subseteq 1..N
        BY <1>1, <1>2
      <3>2. c \in T /\ \A j \in T : c <= j
        <4> HIDE DEF T
        <4> QED
          BY <2>2, <3>1, Least
      <3>3. zero = s[c].ts
        <4> HIDE DEF T
        <4> QED
          BY <2>2 DEF ZeroOf
      <3> HIDE DEF c
      <3>4. zero # -1 /\ t[c] = s[c]
        BY <1>1, <1>2, <3>1, <3>2, <3>3
      <3>5. /\ U \subseteq Nat /\ c \in U /\ \A j \in U : c <= j
        <4>1. c \in Nat /\ c <= N + 1
          BY <1>1, <3>1, <3>2
        <4>2. \A j \in U : j \in T \/ j = N + 1
          BY <1>4
        <4>3. c \in U
          BY <1>4, <3>2
        <4> HIDE DEF U, T
        <4> QED
          BY <1>1, <3>1, <3>2, <4>1, <4>2, <4>3
      <3> HIDE DEF U, zero
      <3>6. (CHOOSE i \in U : \A j \in U : i <= j) = c
        BY <3>5, LeastIs
      <3>7. U # {}
        BY <3>5
      <3>8. ZeroOf(t, U) = t[CHOOSE i \in U : \A j \in U : i <= j].ts
        BY <3>7, Zenon DEF ZeroOf
      <3>9. ZeroOf(t, U) = t[c].ts
        BY <3>6, <3>8, Zenon
      <3> QED
        BY <3>3, <3>4, <3>9
    <2> QED
      BY <2>1, <2>2
  <1> QED
    BY <1>a, <1>3, <1>4, <1>5, Zenon DEF N, t

\* A log whose records have a time knows where they start.
LEMMA ZeroSet ==
    ASSUME NEW s \in Seq(Timeds), NEW k \in 0..Len(s), TimedIn(s, k) # {}
    PROVE  ZeroOf(s, TimedIn(s, k)) # -1
  <1> DEFINE T == TimedIn(s, k)
             c == CHOOSE i \in T : \A j \in T : i <= j
  <1>1. T \subseteq Nat /\ \A i \in T : s[i].ts # -1
    BY DEF TimedIn
  <1>2. T # {}
    OBVIOUS
  <1> HIDE DEF T
  <1>3. c \in T
    BY <1>1, <1>2, Least
  <1>4. ZeroOf(s, T) = s[c].ts
    BY <1>2, Zenon DEF ZeroOf
  <1> QED
    BY <1>1, <1>3, <1>4 DEF T

\* What FrameLog.add does to the log of the frames so far is the log with one
\* more frame.
LEMMA LogAppend ==
    ASSUME NEW s \in Seq(Timeds), NEW x \in Timeds
    PROVE  LogFrom(Append(s, x)) = Add(LogFrom(s), x.pkt, x.ts)
  <1> DEFINE N == Len(s)
             t == Append(s, x)
             k == Kept(N)
             T == TimedIn(s, k)
             soFar == LogFrom(s)
             frames == [i \in 1..k |-> RecordOf(s, T, i)]
             full == MaxFrames >= 0 /\ k >= MaxFrames
  <1>1. /\ t \in Seq(Timeds) /\ Len(t) = N + 1 /\ N \in Nat
        /\ \A i \in 1..N : t[i] = s[i]
        /\ t[N + 1] = x
    BY AppendProperties
  <1> HIDE DEF N, t
  <1>2. /\ k \in 0..N
        /\ full => k < N + 1 /\ Kept(N + 1) = k
        /\ ~full => k = N /\ Kept(N + 1) = N + 1
    BY <1>1, KeptNext
  <1>3. k \in Nat
    BY <1>1, <1>2
  <1> HIDE DEF k
  <1>4. Len(frames) = k
    BY <1>3, LenProperties
  <1>5. /\ soFar.total = N
        /\ soFar.counts = [y \in KindsOf(s) |-> Cardinality(OfKind(s, y))]
        /\ soFar.frames = frames
        /\ soFar.truncated = (k < N)
        /\ soFar.t0 = ZeroOf(s, T)
    BY DEF LogFrom, N, k
  <1> DEFINE K == Kept(N + 1)
             U == TimedIn(t, K)
             after == LogFrom(t)
  <1>6. after =
          [total     |-> N + 1,
           counts    |-> [y \in KindsOf(t) |-> Cardinality(OfKind(t, y))],
           frames    |-> [i \in 1..K |-> RecordOf(t, U, i)],
           truncated |-> K < N + 1,
           t0        |-> ZeroOf(t, U)]
    BY <1>1 DEF LogFrom
  <1>7. [y \in KindsOf(t) |-> Cardinality(OfKind(t, y))] =
           Put(soFar.counts, x.pkt.kind,
               (IF x.pkt.kind \in DOMAIN soFar.counts THEN soFar.counts[x.pkt.kind] ELSE 0) + 1)
    <2> HIDE DEF soFar, frames, T
    <2> QED
      BY <1>5, CountsAppend, Zenon DEF t
  <1>8. Full(soFar) <=> full
    <2> HIDE DEF soFar, frames
    <2> QED
      BY <1>4, <1>5 DEF Full
  <1> DEFINE added == Add(soFar, x.pkt, x.ts)
             t0 == IF full \/ soFar.t0 # -1 THEN soFar.t0 ELSE x.ts
             rec == [kind |-> x.pkt.kind, n |-> N + 1,
                     t |-> IF x.ts = -1 THEN Unset ELSE x.ts - t0]
  <1>9. added =
          [total     |-> N + 1,
           counts    |-> Put(soFar.counts, x.pkt.kind,
               (IF x.pkt.kind \in DOMAIN soFar.counts THEN soFar.counts[x.pkt.kind] ELSE 0) + 1),
           frames    |-> IF full THEN frames ELSE Append(frames, rec),
           truncated |-> (k < N) \/ full,
           t0        |-> t0]
    <2> HIDE DEF soFar, frames, full
    <2> QED
      BY <1>5, <1>8 DEF Add
  <1>10. (K < N + 1) = ((k < N) \/ full)
    <2>1. MaxFrames \in Int
      BY Dot11Assumption
    <2> QED
      BY <1>1, <1>2, <1>3, <2>1
  <1>11. \A Q \in SUBSET (1..N) : ZeroOf(t, Q) = ZeroOf(s, Q)
    BY ZeroNext, Zenon DEF t, N
  <1>12. T \subseteq 1..N /\ TimedIn(t, k) = T
    <2>1. k \in 0..Len(s)
      BY <1>2 DEF N
    <2> QED
      BY <2>1, ZeroNext, Zenon DEF t, N
  <1>13. CASE full
    <2>1. K = k
      BY <1>2, <1>13
    <2>2. U = T
      BY <2>1, <1>12
    <2>3. ZeroOf(t, T) = ZeroOf(s, T)
      BY <1>11, <1>12
    <2>4. ASSUME NEW i \in 1..k PROVE RecordOf(t, T, i) = RecordOf(s, T, i)
      <3>1. t[i] = s[i]
        BY <1>1, <1>2
      <3> QED
        BY <2>3, <3>1 DEF RecordOf
    <2>5. [i \in 1..K |-> RecordOf(t, U, i)] = frames
      <3> HIDE DEF K, T, U
      <3> QED
        BY <2>1, <2>2, <2>4
    <2>6. ZeroOf(t, U) = t0
      BY <2>2, <2>3, <1>5, <1>13
    <2> HIDE DEF K, U, T, soFar, full, t0, added, frames, after
    <2> QED
      BY <1>6, <1>7, <1>9, <1>10, <1>13, <2>5, <2>6 DEF after, added, t, soFar
  <1>14. CASE ~full
    <2>1. k = N /\ K = N + 1
      BY <1>2, <1>14
    <2>2. /\ U = T \cup (IF x.ts # -1 THEN {N + 1} ELSE {})
          /\ ZeroOf(t, U) = IF ZeroOf(s, T) # -1 THEN ZeroOf(s, T) ELSE x.ts
      <3> HIDE DEF k, K
      <3> QED
        BY <2>1, ZeroNext, Zenon DEF t, N
    <2>3. ZeroOf(t, U) = t0
      BY <2>2, <1>5, <1>14
    <2>4. T # {} => ZeroOf(s, T) # -1
      <3>1. k \in 0..Len(s)
        BY <1>2 DEF N
      <3> QED
        BY <3>1, ZeroSet
    <2>5. RecordOf(t, U, N + 1) = rec
      <3>1. N + 1 \in U <=> x.ts # -1
        <4>1. N + 1 \notin T
          BY <1>1, <1>12
        <4> HIDE DEF T, U
        <4> QED
          BY <2>2, <4>1
      <3> HIDE DEF T, U, K, t0
      <3> QED
        BY <1>1, <2>3, <3>1 DEF RecordOf
    <2>6. ASSUME NEW i \in 1..N PROVE RecordOf(t, U, i) = RecordOf(s, T, i)
      <3>1. t[i] = s[i]
        BY <1>1
      <3>2. i \in U <=> i \in T
        <4>1. i # N + 1
          BY <1>1
        <4> HIDE DEF T, U
        <4> QED
          BY <2>2, <4>1
      <3>3. i \in T => ZeroOf(t, U) = ZeroOf(s, T)
        <4> HIDE DEF T, U
        <4> QED
          BY <2>2, <2>4
      <3> HIDE DEF T, U, K
      <3> QED
        BY <3>1, <3>2, <3>3 DEF RecordOf
    <2>7. [i \in 1..K |-> RecordOf(t, U, i)] = Append(frames, rec)
      <3>1. /\ frames = [i \in 1..N |-> RecordOf(s, T, i)]
            /\ \A i \in 1..N : frames[i] = RecordOf(s, T, i)
        BY <2>1
      <3> HIDE DEF frames, T, U, K, rec
      <3>2. frames = [i \in 1..N |-> frames[i]]
        BY <3>1
      <3>3. Append(frames, rec) = [i \in 1..(N + 1) |-> IF i = N + 1 THEN rec ELSE frames[i]]
        BY <1>1, <3>2, AppendFun
      <3>4. ASSUME NEW i \in 1..(N + 1)
            PROVE  RecordOf(t, U, i) = IF i = N + 1 THEN rec ELSE frames[i]
        <4>1. i = N + 1 \/ i \in 1..N
          BY <1>1
        <4>2. N + 1 \notin 1..N
          BY <1>1
        <4> QED
          BY <2>5, <2>6, <3>1, <4>1, <4>2
      <3> QED
        BY <2>1, <3>3, <3>4
    <2> HIDE DEF K, U, T, soFar, full, t0, added, frames, after, rec
    <2> QED
      BY <1>6, <1>7, <1>9, <1>10, <1>14, <2>3, <2>7 DEF after, added, t, soFar
  <1> QED
    BY <1>13, <1>14

\* The log of a sequence of packets, one packet later.
LEMMA LogOfAppend ==
    ASSUME NEW ps \in Seq(Timeds), NEW x \in Timeds
    PROVE  LogOf(Append(ps, x)) = IF IsFrame(x.pkt) THEN Add(LogOf(ps), x.pkt, x.ts) ELSE LogOf(ps)
  <1>1. LogOf(Append(ps, x)) = LogFrom(Frames(Append(ps, x))) /\ LogOf(ps) = LogFrom(Frames(ps))
    BY LogOfFrom
  <1> QED
    BY <1>1, FramesAppend, LogAppend

\* The log of no packets is a new one.
LEMMA LogOfEmpty == LogOf(<<>>) = NewLog
  <1> DEFINE e == <<>>
  <1>1. LogOf(<<>>) = LogFrom(e)
    BY LogOfFrom, FramesEmpty
  <1>2. Len(e) = 0 /\ DOMAIN e = {}
    OBVIOUS
  <1> HIDE DEF e
  <1>3. Kept(0) = 0
    BY Dot11Assumption DEF Kept
  <1>4. TimedIn(e, 0) = {} /\ KindsOf(e) = {}
    BY <1>2 DEF TimedIn, KindsOf
  <1>5. ZeroOf(e, {}) = -1
    BY DEF ZeroOf
  <1>6. LogFrom(e) = [total     |-> 0,
                      counts    |-> [x \in {} |-> Cardinality(OfKind(e, x))],
                      frames    |-> [i \in 1..0 |-> RecordOf(e, {}, i)],
                      truncated |-> 0 < 0,
                      t0        |-> -1]
    BY <1>2, <1>3, <1>4, <1>5 DEF LogFrom
  <1>7. [x \in {} |-> Cardinality(OfKind(e, x))] = <<>>
    OBVIOUS
  <1>8. [i \in 1..0 |-> RecordOf(e, {}, i)] = <<>>
    OBVIOUS
  <1>9. (0 < 0) = FALSE
    OBVIOUS
  <1> QED
    BY <1>1, <1>6, <1>7, <1>8, <1>9 DEF NewLog

-----------------------------------------------------------------------------
(* The table.                                                              *)

\* The least member by its property.
LEMMA MinIs ==
    ASSUME NEW T, T \subseteq Nat, NEW m \in T, \A j \in T : m <= j
    PROVE  Min(T) = m
  BY LeastIs, Zenon DEF Min

\* The greatest member by its property.
LEMMA MaxIs ==
    ASSUME NEW T, T \subseteq Nat, NEW m \in T, \A j \in T : m >= j
    PROVE  Max(T) = m
  <1> DEFINE c == CHOOSE i \in T : \A j \in T : i >= j
  <1>1. c \in T /\ \A j \in T : c >= j
    BY Zenon
  <1> HIDE DEF c
  <1>2. c >= m /\ m >= c /\ c \in Nat /\ m \in Nat
    BY <1>1
  <1>3. c = m
    BY <1>2
  <1> QED
    BY <1>3, Zenon DEF c, Max

\* The least member is a member.
LEMMA MinIn ==
    ASSUME NEW T, T \subseteq Nat, T # {}
    PROVE  Min(T) \in T /\ \A j \in T : Min(T) <= j
  BY Least, Zenon DEF Min

\* The greatest member of a finite set is a member.
LEMMA MaxIn ==
    ASSUME NEW n \in Nat, NEW T, T \subseteq 1..n, T # {}
    PROVE  Max(T) \in T
  <1> DEFINE D == {n - i : i \in T}
             c == CHOOSE d \in D : \A e \in D : d <= e
  <1>1. D \subseteq Nat /\ D # {}
    <2>1. \A i \in T : n - i \in Nat
      <3>1. \A i \in 1..n : n - i \in Nat
        OBVIOUS
      <3> QED
        BY <3>1
    <2> QED
      BY <2>1, Zenon
  <1>2. \A i \in T : n - i \in D
    OBVIOUS
  <1>3. \A d \in D : \E i \in T : d = n - i
    OBVIOUS
  <1> HIDE DEF D
  <1>4. c \in D /\ \A e \in D : c <= e
    BY <1>1, Least, Zenon
  <1> HIDE DEF c
  <1>5. PICK i \in T : c = n - i
    BY <1>3, <1>4
  <1>6. ASSUME NEW j \in T PROVE i >= j
    <2>1. i \in Nat /\ j \in Nat
      OBVIOUS
    <2>2. n - i <= n - j
      BY <1>2, <1>4, <1>5
    <2> QED
      BY <2>1, <2>2
  <1>7. T \subseteq Nat
    OBVIOUS
  <1>8. Max(T) = i
    BY <1>6, <1>7, MaxIs
  <1> QED
    BY <1>8

\* w tells what v tells and one more value, which comes last.
OneMore(n, v, w) ==
    /\ n \in Nat /\ DOMAIN v \subseteq 1..n
    /\ DOMAIN w = DOMAIN v \cup {n + 1}
    /\ \A i \in DOMAIN v : w[i] = v[i]

\* The last value told, one value later.
LEMMA LastNext ==
    ASSUME NEW n, NEW v, NEW w, OneMore(n, v, w), NEW blank
    PROVE  LastOr(w, blank) = IF DOMAIN v = {} \/ w[n + 1] \notin blank
                              THEN w[n + 1] ELSE LastOr(v, blank)
  <1> DEFINE D == DOMAIN v
             e == w[n + 1]
             W == {i \in DOMAIN w : w[i] \notin blank}
             V == {i \in DOMAIN v : v[i] \notin blank}
  <1>0. /\ n \in Nat /\ D \subseteq 1..n /\ DOMAIN w = D \cup {n + 1}
        /\ \A i \in D : w[i] = v[i]
    BY DEF OneMore
  <1>1. n + 1 \notin 1..n /\ n + 1 \in Nat /\ D \subseteq Nat
    BY <1>0
  <1>2. W = V \cup (IF e \notin blank THEN {n + 1} ELSE {})
    BY <1>0, <1>1
  <1>3. V \subseteq D /\ W \subseteq Nat
    BY <1>0, <1>1
  <1>4. /\ LastOr(w, blank) = w[IF W = {} THEN Min(DOMAIN w) ELSE Max(W)]
        /\ LastOr(v, blank) = v[IF V = {} THEN Min(DOMAIN v) ELSE Max(V)]
    BY Zenon DEF LastOr
  <1> HIDE DEF W, V
  <1>5. CASE e \notin blank
    <2>1. n + 1 \in W /\ \A j \in W : n + 1 >= j
      BY <1>0, <1>1, <1>2, <1>3, <1>5
    <2>2. Max(W) = n + 1
      BY <1>0, <1>1, <1>3, <2>1, MaxIs
    <2> QED
      BY <1>4, <1>5, <2>1, <2>2
  <1>6. CASE e \in blank /\ D = {}
    <2>1. W = {} /\ DOMAIN w = {n + 1}
      BY <1>0, <1>2, <1>3, <1>6
    <2>2. Min({n + 1}) = n + 1
      BY <1>0, <1>1, MinIs
    <2> QED
      BY <1>4, <1>6, <2>1, <2>2
  <1>7. CASE e \in blank /\ D # {}
    <2>1. W = V
      BY <1>0, <1>2, <1>7
    <2>2. CASE V = {}
      <3>1. Min(D) \in D /\ \A j \in D : Min(D) <= j
        BY <1>0, <1>1, <1>7, MinIn
      <3> DEFINE m == Min(D)
      <3> HIDE DEF m
      <3>2. m \in DOMAIN w /\ \A j \in DOMAIN w : m <= j
        BY <1>0, <1>1, <3>1 DEF m
      <3>3. Min(DOMAIN w) = m
        <4>1. DOMAIN w \subseteq Nat
          BY <1>0, <1>1
        <4> QED
          BY <3>2, <4>1, MinIs
      <3>4. W = {} /\ w[m] = v[m]
        BY <1>0, <2>1, <2>2, <3>1 DEF m
      <3>5. LastOr(w, blank) = w[m] /\ LastOr(v, blank) = v[m]
        <4>1. Min(DOMAIN v) = m
          BY DEF m
        <4> HIDE DEF m
        <4> QED
          BY <1>4, <2>2, <3>3, <3>4, <4>1, Zenon
      <3> QED
        BY <1>7, <3>4, <3>5
    <2>3. CASE V # {}
      <3>1. Max(V) \in V
        BY <1>0, <1>3, <2>3, MaxIn
      <3> QED
        BY <1>0, <1>3, <1>4, <1>7, <2>1, <2>3, <3>1
    <2> QED
      BY <2>2, <2>3
  <1> QED
    BY <1>5, <1>6, <1>7

\* The fields of a row of the table.
LEMMA ApForm ==
    ASSUME NEW p
    PROVE  ParseBeacon(p) =
             [bssid    |-> p.bssid,
              ssid     |-> ParseBeacon(p).ssid,
              channel  |-> ParseBeacon(p).channel,
              security |-> ParseBeacon(p).security,
              rsn      |-> ParseBeacon(p).rsn,
              wpa      |-> ParseBeacon(p).wpa,
              phy      |-> ParseBeacon(p).phy,
              count    |-> 1]
  BY DEF ParseBeacon

\* The packets of an access point, one packet later.
LEMMA OfApNext ==
    ASSUME NEW ps \in Seq(Timeds), NEW x \in Timeds, NEW b
    PROVE  LET n == Len(ps)
               t == Append(ps, x)
           IN  /\ n \in Nat
               /\ OfAp(ps, b) \subseteq 1..n
               /\ \A i \in OfAp(ps, b) : t[i] = ps[i]
               /\ t[n + 1] = x
               /\ OfAp(t, b) = IF IsAp(x.pkt) /\ x.pkt.bssid = b
                               THEN OfAp(ps, b) \cup {n + 1} ELSE OfAp(ps, b)
               /\ IsFiniteSet(OfAp(ps, b)) /\ n + 1 \notin OfAp(ps, b)
  <1> DEFINE n == Len(ps)
             t == Append(ps, x)
  <1>1. /\ t \in Seq(Timeds) /\ Len(t) = n + 1 /\ n \in Nat
        /\ \A i \in 1..n : t[i] = ps[i]
        /\ t[n + 1] = x
        /\ DOMAIN ps = 1..n /\ DOMAIN t = 1..(n + 1)
    BY AppendProperties, LenProperties
  <1> HIDE DEF t, n
  <1>2. OfAp(ps, b) \subseteq 1..n
    BY <1>1 DEF OfAp
  <1>3. IsFiniteSet(OfAp(ps, b))
    <2>1. IsFiniteSet(1..n)
      BY <1>1, FS_Interval
    <2> QED
      BY <1>2, <2>1, FS_Subset
  <1>4. n + 1 \notin 1..n
    BY <1>1
  <1>5. OfAp(t, b) = IF IsAp(x.pkt) /\ x.pkt.bssid = b
                     THEN OfAp(ps, b) \cup {n + 1} ELSE OfAp(ps, b)
    BY <1>1 DEF OfAp
  <1> QED
    BY <1>1, <1>2, <1>3, <1>4, <1>5 DEF n, t

\* What the packets of D show in a field.
Shown(ps, D, field) == [i \in D |-> ParseBeacon(ps[i].pkt)[field]]

\* A packet of an access point changes its row, and no other one's, the way
\* ScanTable.update does.
LEMMA RowNext ==
    ASSUME NEW ps \in Seq(Timeds), NEW x \in Timeds, NEW b
    PROVE  RowOf(Append(ps, x), b) =
              IF ~(IsAp(x.pkt) /\ x.pkt.bssid = b) THEN RowOf(ps, b)
              ELSE IF OfAp(ps, b) = {} THEN ParseBeacon(x.pkt)
              ELSE Merge(RowOf(ps, b), ParseBeacon(x.pkt))
  <1> DEFINE n == Len(ps)
             t == Append(ps, x)
             D == OfAp(ps, b)
             ap == ParseBeacon(x.pkt)
  <1>1. /\ n \in Nat /\ D \subseteq 1..n
        /\ \A i \in D : t[i] = ps[i]
        /\ t[n + 1] = x
        /\ OfAp(t, b) = IF IsAp(x.pkt) /\ x.pkt.bssid = b THEN D \cup {n + 1} ELSE D
        /\ IsFiniteSet(D) /\ n + 1 \notin D
    BY OfApNext
  <1>2. RowOf(ps, b) =
         [bssid    |-> b,
          ssid     |-> LastOr(Shown(ps, D, "ssid"), {Unset, Hidden}),
          channel  |-> LastOr(Shown(ps, D, "channel"), {Unset}),
          security |-> LastOr(Shown(ps, D, "security"), {"Open"}),
          rsn      |-> LastOr(Shown(ps, D, "rsn"), {Unset}),
          wpa      |-> LastOr(Shown(ps, D, "wpa"), {Unset}),
          phy      |-> UNION {ParseBeacon(ps[i].pkt).phy : i \in D},
          count    |-> Cardinality(D)]
    BY Zenon DEF RowOf, Shown
  <1>3. RowOf(t, b) =
         [bssid    |-> b,
          ssid     |-> LastOr(Shown(t, OfAp(t, b), "ssid"), {Unset, Hidden}),
          channel  |-> LastOr(Shown(t, OfAp(t, b), "channel"), {Unset}),
          security |-> LastOr(Shown(t, OfAp(t, b), "security"), {"Open"}),
          rsn      |-> LastOr(Shown(t, OfAp(t, b), "rsn"), {Unset}),
          wpa      |-> LastOr(Shown(t, OfAp(t, b), "wpa"), {Unset}),
          phy      |-> UNION {ParseBeacon(t[i].pkt).phy : i \in OfAp(t, b)},
          count    |-> Cardinality(OfAp(t, b))]
    BY Zenon DEF RowOf, Shown
  <1>4. ap = [bssid |-> x.pkt.bssid, ssid |-> ap.ssid, channel |-> ap.channel,
              security |-> ap.security, rsn |-> ap.rsn, wpa |-> ap.wpa,
              phy |-> ap.phy, count |-> 1]
    BY ApForm
  <1> HIDE DEF t, n, D
  <1>5. CASE ~(IsAp(x.pkt) /\ x.pkt.bssid = b)
    <2>1. OfAp(t, b) = D
      BY <1>1, <1>5
    <2>2. UNION {ParseBeacon(t[i].pkt).phy : i \in D} = UNION {ParseBeacon(ps[i].pkt).phy : i \in D}
      BY <1>1
    <2>3. \A i \in D : ParseBeacon(t[i].pkt) = ParseBeacon(ps[i].pkt)
      BY <1>1
    <2>4. /\ Shown(t, D, "ssid") = Shown(ps, D, "ssid")
          /\ Shown(t, D, "channel") = Shown(ps, D, "channel")
          /\ Shown(t, D, "security") = Shown(ps, D, "security")
          /\ Shown(t, D, "rsn") = Shown(ps, D, "rsn")
          /\ Shown(t, D, "wpa") = Shown(ps, D, "wpa")
      BY <2>3, Zenon DEF Shown
    <2> QED
      BY <1>2, <1>3, <1>5, <2>1, <2>2, <2>4, Zenon DEF t
  <1>6. CASE IsAp(x.pkt) /\ x.pkt.bssid = b
    <2> DEFINE E == D \cup {n + 1}
               pick(f, blank, old) == IF D = {} \/ f \notin blank THEN f ELSE old
    <2>1. OfAp(t, b) = E
      BY <1>1, <1>6
    <2>2. ASSUME NEW f, NEW blank
          PROVE  LastOr(Shown(t, E, f), blank) =
                    pick(ap[f], blank, LastOr(Shown(ps, D, f), blank))
      <3> DEFINE v == Shown(ps, D, f)
                 w == Shown(t, E, f)
      <3>1. OneMore(n, v, w) /\ DOMAIN v = D /\ w[n + 1] = ap[f]
        BY <1>1 DEF OneMore, Shown
      <3> HIDE DEF v, w
      <3>2. LastOr(w, blank) = IF DOMAIN v = {} \/ w[n + 1] \notin blank
                               THEN w[n + 1] ELSE LastOr(v, blank)
        <4>1. OneMore(n, v, w)
          BY <3>1
        <4> QED
          BY <4>1, LastNext
      <3> HIDE DEF ap, D, E
      <3> QED
        BY <3>1, <3>2, Zenon DEF v, w, pick
    <2> HIDE DEF pick
    <2>3. /\ LastOr(Shown(t, E, "ssid"), {Unset, Hidden}) =
                pick(ap.ssid, {Unset, Hidden}, LastOr(Shown(ps, D, "ssid"), {Unset, Hidden}))
          /\ LastOr(Shown(t, E, "channel"), {Unset}) =
                pick(ap.channel, {Unset}, LastOr(Shown(ps, D, "channel"), {Unset}))
          /\ LastOr(Shown(t, E, "security"), {"Open"}) =
                pick(ap.security, {"Open"}, LastOr(Shown(ps, D, "security"), {"Open"}))
          /\ LastOr(Shown(t, E, "rsn"), {Unset}) =
                pick(ap.rsn, {Unset}, LastOr(Shown(ps, D, "rsn"), {Unset}))
          /\ LastOr(Shown(t, E, "wpa"), {Unset}) =
                pick(ap.wpa, {Unset}, LastOr(Shown(ps, D, "wpa"), {Unset}))
      <3> HIDE DEF ap, E
      <3> QED
        BY <2>2, Zenon
    <2>4. UNION {ParseBeacon(t[i].pkt).phy : i \in E} =
             (UNION {ParseBeacon(ps[i].pkt).phy : i \in D}) \cup ap.phy
      BY <1>1
    <2>5. Cardinality(E) = Cardinality(D) + 1
      BY <1>1, FS_AddElement
    <2> HIDE DEF E, ap
    <2>6. RowOf(t, b) =
         [bssid    |-> b,
          ssid     |-> pick(ap.ssid, {Unset, Hidden}, RowOf(ps, b).ssid),
          channel  |-> pick(ap.channel, {Unset}, RowOf(ps, b).channel),
          security |-> pick(ap.security, {"Open"}, RowOf(ps, b).security),
          rsn      |-> pick(ap.rsn, {Unset}, RowOf(ps, b).rsn),
          wpa      |-> pick(ap.wpa, {Unset}, RowOf(ps, b).wpa),
          phy      |-> RowOf(ps, b).phy \cup ap.phy,
          count    |-> RowOf(ps, b).count + 1]
      <3>1. /\ RowOf(ps, b).ssid = LastOr(Shown(ps, D, "ssid"), {Unset, Hidden})
            /\ RowOf(ps, b).channel = LastOr(Shown(ps, D, "channel"), {Unset})
            /\ RowOf(ps, b).security = LastOr(Shown(ps, D, "security"), {"Open"})
            /\ RowOf(ps, b).rsn = LastOr(Shown(ps, D, "rsn"), {Unset})
            /\ RowOf(ps, b).wpa = LastOr(Shown(ps, D, "wpa"), {Unset})
            /\ RowOf(ps, b).phy = UNION {ParseBeacon(ps[i].pkt).phy : i \in D}
            /\ RowOf(ps, b).count = Cardinality(D)
        BY <1>2
      <3> QED
        BY <1>3, <2>1, <2>3, <2>4, <2>5, <3>1, Zenon
    <2>7. CASE D = {}
      <3>1. RowOf(ps, b).phy = {} /\ RowOf(ps, b).count = 0
        BY <1>2, <2>7, FS_EmptySet
      <3> DEFINE row == RowOf(ps, b)
      <3> HIDE DEF row
      <3>2. RowOf(t, b) = [bssid |-> b, ssid |-> ap.ssid, channel |-> ap.channel,
              security |-> ap.security, rsn |-> ap.rsn, wpa |-> ap.wpa,
              phy |-> {} \cup ap.phy, count |-> 0 + 1]
        BY <2>6, <2>7, <3>1 DEF pick
      <3>3. {} \cup ap.phy = ap.phy /\ 0 + 1 = 1
        OBVIOUS
      <3> QED
        BY <1>4, <1>6, <2>7, <3>2, <3>3, Zenon DEF D, t, ap
    <2>8. CASE D # {}
      <3> DEFINE row == RowOf(ps, b)
      <3>1. row.bssid = b
        BY <1>2
      <3> HIDE DEF row
      <3>2. RowOf(t, b) = Merge(row, ap)
        BY <2>6, <2>8, <3>1 DEF Merge, pick, row
      <3> QED
        BY <1>6, <2>8, <3>2 DEF row, D, t, ap
    <2> QED
      BY <2>7, <2>8
  <1> QED
    BY <1>5, <1>6

\* The access points of a sequence of packets, and the positions they are at.
ApsIn(ps) == {i \in DOMAIN ps : IsAp(ps[i].pkt)}
BssidsOf(ps) == {ps[i].pkt.bssid : i \in ApsIn(ps)}

\* The table of a sequence of packets, one packet later.
LEMMA TableOfAppend ==
    ASSUME NEW ps \in Seq(Timeds), NEW x \in Timeds
    PROVE  TableOf(Append(ps, x)) =
              IF IsAp(x.pkt) THEN Updated(TableOf(ps), ParseBeacon(x.pkt))
              ELSE [aps |-> TableOf(ps).aps, other |-> TableOf(ps).other + 1]
  <1> DEFINE n == Len(ps)
             t == Append(ps, x)
             b == x.pkt.bssid
             ap == ParseBeacon(x.pkt)
             aps == [c \in BssidsOf(ps) |-> RowOf(ps, c)]
             A == ApsIn(ps)
             others == DOMAIN ps \ A
  <1>1. /\ t \in Seq(Timeds) /\ Len(t) = n + 1 /\ n \in Nat
        /\ \A i \in 1..n : t[i] = ps[i]
        /\ t[n + 1] = x
        /\ DOMAIN ps = 1..n /\ DOMAIN t = 1..(n + 1)
    BY AppendProperties, LenProperties
  <1>2. /\ TableOf(ps) = [aps |-> aps, other |-> Cardinality(others)]
        /\ TableOf(t) = [aps   |-> [c \in BssidsOf(t) |-> RowOf(t, c)],
                         other |-> Cardinality(DOMAIN t \ ApsIn(t))]
    BY Zenon DEF TableOf, BssidsOf, ApsIn
  <1>3. A \subseteq 1..n
    BY <1>1 DEF ApsIn
  <1>4. ASSUME NEW c PROVE c \in BssidsOf(ps) <=> OfAp(ps, c) # {}
    BY DEF BssidsOf, ApsIn, OfAp
  <1>5. IsFiniteSet(others) /\ n + 1 \notin others
    <2>1. IsFiniteSet(1..n)
      BY <1>1, FS_Interval
    <2>2. others \subseteq 1..n
      BY <1>1
    <2>3. n + 1 \notin 1..n
      BY <1>1
    <2> QED
      BY <2>1, <2>2, <2>3, FS_Subset
  <1>6. ASSUME NEW c
        PROVE  RowOf(t, c) = IF ~(IsAp(x.pkt) /\ b = c) THEN RowOf(ps, c)
                             ELSE IF OfAp(ps, c) = {} THEN ap
                             ELSE Merge(RowOf(ps, c), ap)
    BY RowNext
  <1> HIDE DEF n, t
  <1>7. CASE IsAp(x.pkt)
    <2>1. ApsIn(t) = A \cup {n + 1}
      BY <1>1, <1>7 DEF ApsIn
    <2>2. BssidsOf(t) = BssidsOf(ps) \cup {b}
      BY <1>1, <1>3, <2>1 DEF BssidsOf
    <2>3. DOMAIN t \ ApsIn(t) = others
      BY <1>1, <2>1
    <2> DEFINE row == IF b \in DOMAIN aps THEN Merge(aps[b], ap) ELSE ap
    <2>4. ap.bssid = b
      BY ApForm
    <2>5. DOMAIN aps = BssidsOf(ps) /\ \A c \in BssidsOf(ps) : aps[c] = RowOf(ps, c)
      OBVIOUS
    <2> HIDE DEF aps, ap, b
    <2>6. Updated(TableOf(ps), ap) = [aps |-> Put(aps, b, row), other |-> Cardinality(others)]
      <3>1. TableOf(ps).aps = aps /\ TableOf(ps).other = Cardinality(others)
        BY <1>2
      <3> QED
        BY <2>4, <3>1, Zenon DEF Updated
    <2>7. ASSUME NEW c \in BssidsOf(t) PROVE RowOf(t, c) = IF c = b THEN row ELSE aps[c]
      <3>1. CASE c = b
        BY <1>4, <1>6, <1>7, <2>5, <3>1
      <3>2. CASE c # b
        <4>1. c \in BssidsOf(ps)
          BY <2>2, <3>2
        <4>2. RowOf(t, c) = RowOf(ps, c)
          BY <1>6, <3>2
        <4> QED
          BY <2>5, <3>2, <4>1, <4>2
      <3> QED
        BY <3>1, <3>2
    <2>8. [c \in BssidsOf(t) |-> RowOf(t, c)] = Put(aps, b, row)
      <3> HIDE DEF row
      <3>1. Put(aps, b, row) = [c \in BssidsOf(ps) \cup {b} |-> IF c = b THEN row ELSE aps[c]]
        BY <2>5, Zenon DEF Put
      <3> QED
        BY <2>2, <2>7, <3>1
    <2> HIDE DEF row, others
    <2> QED
      BY <1>2, <1>7, <2>3, <2>6, <2>8, Zenon DEF t, ap
  <1>8. CASE ~IsAp(x.pkt)
    <2>1. ApsIn(t) = A
      BY <1>1, <1>8 DEF ApsIn
    <2>2. BssidsOf(t) = BssidsOf(ps)
      BY <1>1, <1>3, <2>1 DEF BssidsOf
    <2>3. DOMAIN t \ ApsIn(t) = others \cup {n + 1}
      <3>1. n + 1 \notin 1..n /\ 1..(n + 1) = (1..n) \cup {n + 1}
        BY <1>1
      <3> HIDE DEF A
      <3> QED
        BY <1>1, <1>3, <2>1, <3>1
    <2>4. Cardinality(others \cup {n + 1}) = Cardinality(others) + 1
      BY <1>5, FS_AddElement
    <2>5. \A c : RowOf(t, c) = RowOf(ps, c)
      BY <1>6, <1>8
    <2>6. [c \in BssidsOf(t) |-> RowOf(t, c)] = aps
      BY <2>2, <2>5, Zenon
    <2> HIDE DEF others, aps
    <2>7. TableOf(ps).aps = aps /\ TableOf(ps).other = Cardinality(others)
      BY <1>2
    <2> QED
      BY <1>2, <1>8, <2>3, <2>4, <2>6, <2>7, Zenon DEF t
  <1> QED
    BY <1>7, <1>8

\* The table of no packets is a new one.
LEMMA TableOfEmpty == TableOf(<<>>) = NewTable
  <1> DEFINE e == <<>>
  <1>1. DOMAIN e = {}
    OBVIOUS
  <1> HIDE DEF e
  <1>2. ApsIn(e) = {} /\ BssidsOf(e) = {} /\ DOMAIN e \ ApsIn(e) = {}
    BY <1>1 DEF ApsIn, BssidsOf
  <1>3. TableOf(e) = [aps   |-> [c \in BssidsOf(e) |-> RowOf(e, c)],
                      other |-> Cardinality(DOMAIN e \ ApsIn(e))]
    BY Zenon DEF TableOf, BssidsOf, ApsIn
  <1>4. TableOf(e) = [aps |-> [c \in {} |-> RowOf(e, c)], other |-> 0]
    BY <1>2, <1>3, FS_EmptySet
  <1>5. [c \in {} |-> RowOf(e, c)] = <<>>
    OBVIOUS
  <1> QED
    BY <1>4, <1>5 DEF e, NewTable

-----------------------------------------------------------------------------
(* The summary.                                                            *)

\* A reader with the table and the log of the packets it has put out.
Told(rd, ps) == [reader |-> rd, table |-> TableOf(ps), log |-> LogOf(ps)]

\* Dissecting one packet more is telling of one packet more.
LEMMA ToldAppend ==
    ASSUME NEW rd, NEW ps \in Seq(Timeds), NEW x \in Timeds
    PROVE  Dissected(Told(rd, ps), x) = Told(rd, Append(ps, x))
  <1> DEFINE acc == Told(rd, ps)
  <1>1. acc.reader = rd /\ acc.table = TableOf(ps) /\ acc.log = LogOf(ps)
    BY DEF Told
  <1> HIDE DEF acc
  <1>2. Dissected(acc, x) =
          [reader |-> rd,
           table  |-> IF IsAp(x.pkt) THEN Updated(TableOf(ps), ParseBeacon(x.pkt))
                      ELSE [aps |-> TableOf(ps).aps, other |-> TableOf(ps).other + 1],
           log    |-> IF IsFrame(x.pkt) THEN Add(LogOf(ps), x.pkt, x.ts) ELSE LogOf(ps)]
    BY <1>1, Zenon DEF Dissected
  <1> QED
    BY <1>2, TableOfAppend, LogOfAppend, Zenon DEF Told, acc

-----------------------------------------------------------------------------
(* Sequences of sequences.                                                 *)

\* The recursive definition of FlattenSeq has a value.
LEMMA FlattenDef ==
    ASSUME NEW C, NEW s \in Seq(Seq(C))
    PROVE  \E f : /\ FlattenSeq(s) = f[Len(s)]
                  /\ f[0] = <<>>
                  /\ \A k \in 1..Len(s) : f[k] = f[k - 1] \o s[k]
                  /\ \A k \in 0..Len(s) : f[k] \in Seq(C)
  <1> DEFINE n == Len(s)
             S == Seq(C)
             step == [k \in 1..n |-> [a \in S |-> a \o s[k]]]
             e == <<>>
  <1>1. n \in Nat /\ e \in S /\ \A k \in 1..n : s[k] \in S
    BY ElementOfSeq
  <1>2. step \in [1..n -> [S -> S]]
    <2>1. ASSUME NEW k \in 1..n, NEW a \in S PROVE a \o s[k] \in S
      BY <1>1, ConcatProperties
    <2> HIDE DEF S
    <2> QED
      BY <2>1
  <1> HIDE DEF S, e
  <1>3. PICK f : Follows(f, S, e, n, step)
    <2> HIDE DEF n, step
    <2> QED
      BY <1>1, <1>2, Recursion, Zenon
  <1>4. ASSUME NEW k \in 1..n PROVE f[k] = f[k - 1] \o s[k]
    <2>1. k - 1 \in 0..n
      BY <1>1
    <2>2. f[k - 1] \in S
      BY <1>3, <2>1 DEF Follows
    <2>3. step[k][f[k - 1]] = f[k - 1] \o s[k]
      BY <2>2
    <2> HIDE DEF step
    <2> QED
      BY <1>3, <2>3 DEF Follows
  <1>5. f[0] = e /\ \A k \in 0..n : f[k] \in S
    BY <1>3 DEF Follows
  <1> HIDE DEF step
  <1>6. FlattenSeq(s) = f[n]
    <2>1. CASE n = 0
      <3>1. s = <<>>
        BY <2>1, EmptySeq
      <3>2. FlattenSeq(s) = s
        BY <2>1, Zenon DEF FlattenSeq, n
      <3> QED
        BY <1>5, <2>1, <3>1, <3>2 DEF e
    <2>2. CASE n # 0
      <3> DEFINE g == [k \in 1..n |-> f[k]]
                 v == CHOOSE v : v = [k \in 1..n |-> IF k = 1 THEN s[k] ELSE v[k - 1] \o s[k]]
      <3>1. f[1] = s[1]
        <4>1. 1 \in 1..n /\ 1 - 1 = 0
          BY <1>1, <2>2
        <4>2. f[1] = f[0] \o s[1]
          BY <1>4, <4>1
        <4> DEFINE w == s[1]
        <4>3. w \in S
          BY <1>1, <4>1
        <4>4. e \o w = w
          <5> HIDE DEF w
          <5> QED
            BY <4>3, ConcatEmptySeq DEF e, S
        <4> QED
          BY <1>5, <4>2, <4>4
      <3>2. ASSUME NEW k \in 1..n PROVE f[k] = IF k = 1 THEN s[k] ELSE g[k - 1] \o s[k]
        <4>1. CASE k = 1
          BY <3>1, <4>1
        <4>2. CASE k # 1
          <5>1. k - 1 \in 1..n
            BY <1>1, <4>2
          <5> QED
            BY <1>4, <4>2, <5>1
        <4> QED
          BY <4>1, <4>2
      <3>3. g = [k \in 1..n |-> IF k = 1 THEN s[k] ELSE g[k - 1] \o s[k]]
        <4> HIDE DEF n
        <4>1. \A k \in 1..n : g[k] = f[k]
          OBVIOUS
        <4>2. g = [k \in 1..n |-> g[k]]
          OBVIOUS
        <4> HIDE DEF g
        <4> QED
          BY <3>2, <4>1, <4>2, ZenonT(60)
      <3> HIDE DEF g
      <3>4. v = [k \in 1..n |-> IF k = 1 THEN s[k] ELSE v[k - 1] \o s[k]]
        BY <3>3, Zenon
      <3>5. FlattenSeq(s) = v[n]
        <4> HIDE DEF S
        <4> QED
          BY <2>2, Zenon DEF FlattenSeq, n
      <3> HIDE DEF v
      <3>6. ASSUME NEW k \in 1..n PROVE v[k] = IF k = 1 THEN s[k] ELSE v[k - 1] \o s[k]
        <4> HIDE DEF n
        <4> QED
          BY <3>4, Zenon
      <3> DEFINE T == {k \in 0..n : k = 0 \/ v[k] = f[k]}
      <3>7. 0 \in T
        BY <1>1
      <3>8. ASSUME NEW k \in 1..n, k - 1 \in T PROVE k \in T
        <4>1. k \in 0..n
          BY <1>1
        <4>2. v[k] = f[k]
          <5>1. CASE k = 1
            BY <3>1, <3>6, <5>1
          <5>2. CASE k # 1
            <6>1. k - 1 # 0
              BY <1>1, <5>2
            <6>2. v[k - 1] = f[k - 1]
              BY <3>8, <6>1
            <6> QED
              BY <1>4, <3>6, <5>2, <6>2, ZenonT(60)
          <5> QED
            BY <5>1, <5>2
        <4> QED
          BY <4>1, <4>2
      <3>9. 0..n \subseteq T
        <4> HIDE DEF T, n
        <4> QED
          BY <1>1, <3>7, <3>8, UpTo
      <3>10. n \in 0..n
        BY <1>1
      <3> QED
        BY <2>2, <3>5, <3>9, <3>10
    <2> QED
      BY <2>1, <2>2
  <1> QED
    BY <1>4, <1>5, <1>6 DEF n, S, e

\* A chunk more at the end.
LEMMA FlattenAppend ==
    ASSUME NEW C, NEW s \in Seq(Seq(C)), NEW x \in Seq(C)
    PROVE  FlattenSeq(s) \in Seq(C) /\ FlattenSeq(Append(s, x)) = FlattenSeq(s) \o x
  <1> DEFINE n == Len(s)
             t == Append(s, x)
  <1>1. /\ t \in Seq(Seq(C)) /\ Len(t) = n + 1 /\ n \in Nat
        /\ \A k \in 1..n : t[k] = s[k]
        /\ t[n + 1] = x
    BY AppendProperties
  <1> HIDE DEF t
  <1>2. PICK f : /\ FlattenSeq(s) = f[n]
                 /\ f[0] = <<>>
                 /\ \A k \in 1..n : f[k] = f[k - 1] \o s[k]
                 /\ \A k \in 0..n : f[k] \in Seq(C)
    BY FlattenDef
  <1>3. PICK g : /\ FlattenSeq(t) = g[n + 1]
                 /\ g[0] = <<>>
                 /\ \A k \in 1..(n + 1) : g[k] = g[k - 1] \o t[k]
    <2>1. \E g : /\ FlattenSeq(t) = g[Len(t)]
                 /\ g[0] = <<>>
                 /\ \A k \in 1..Len(t) : g[k] = g[k - 1] \o t[k]
                 /\ \A k \in 0..Len(t) : g[k] \in Seq(C)
      BY <1>1, FlattenDef
    <2> HIDE DEF n
    <2> QED
      BY <1>1, <2>1
  <1> HIDE DEF n
  <1> DEFINE T == {k \in 0..n : g[k] = f[k]}
  <1>4. 0 \in T
    BY <1>1, <1>2, <1>3
  <1>5. ASSUME NEW k \in 1..n, k - 1 \in T PROVE k \in T
    <2>1. k \in 0..n /\ k \in 1..(n + 1)
      BY <1>1
    <2>2. g[k] = g[k - 1] \o t[k] /\ f[k] = f[k - 1] \o s[k]
      BY <1>2, <1>3, <2>1, Zenon
    <2>3. g[k - 1] = f[k - 1] /\ t[k] = s[k]
      BY <1>1, <1>5
    <2>4. g[k] = f[k]
      BY <2>2, <2>3, Zenon
    <2> QED
      BY <2>1, <2>4
  <1>6. 0..n \subseteq T
    <2> HIDE DEF T
    <2> QED
      BY <1>1, <1>4, <1>5, UpTo
  <1>7. n \in 0..n /\ n + 1 \in 1..(n + 1) /\ (n + 1) - 1 = n
    <2>1. n \in Nat
      BY <1>1
    <2> QED
      BY <2>1
  <1>8. g[n] = f[n]
    BY <1>6, <1>7
  <1>9. g[n + 1] = f[n] \o x
    BY <1>1, <1>3, <1>7, <1>8, Zenon
  <1>10. f[n] \in Seq(C)
    BY <1>2, <1>7, Zenon
  <1> QED
    BY <1>2, <1>3, <1>9, <1>10, Zenon DEF t

\* No chunks hold no cells.
LEMMA FlattenEmpty == FlattenSeq(<<>>) = <<>>
  <1> DEFINE e == <<>>
  <1>1. Len(e) = 0
    OBVIOUS
  <1> HIDE DEF e
  <1>2. FlattenSeq(e) = e
    BY <1>1, Zenon DEF FlattenSeq
  <1> QED
    BY <1>2 DEF e

\* A sequence and its prefixes, by their last elements.
LEMMA PrefixSteps ==
    ASSUME NEW C, NEW s \in Seq(C)
    PROVE  /\ SubSeq(s, 1, 0) = <<>>
           /\ SubSeq(s, 1, Len(s)) = s
           /\ \A k \in 1..Len(s) : /\ SubSeq(s, 1, k - 1) \in Seq(C)
                                   /\ s[k] \in C
                                   /\ SubSeq(s, 1, k) = Append(SubSeq(s, 1, k - 1), s[k])
  <1>1. SubSeq(s, 1, 0) = <<>> /\ SubSeq(s, 1, Len(s)) = s
    BY SubSeqEmpty, SubSeqFull
  <1>2. ASSUME NEW k \in 1..Len(s)
        PROVE  /\ SubSeq(s, 1, k - 1) \in Seq(C)
               /\ s[k] \in C
               /\ SubSeq(s, 1, k) = Append(SubSeq(s, 1, k - 1), s[k])
    <2> DEFINE p == SubSeq(s, 1, k - 1)
               q == SubSeq(s, 1, k)
    <2>1. k - 1 \in Nat /\ k \in Nat /\ k - 1 <= Len(s) /\ k <= Len(s)
      OBVIOUS
    <2>2. p \in Seq(C) /\ Len(p) = k - 1 /\ \A i \in 1..(k - 1) : p[i] = s[i]
      BY <2>1, Prefix
    <2>3. q \in Seq(C) /\ Len(q) = k /\ \A i \in 1..k : q[i] = s[i]
      BY <2>1, Prefix
    <2>4. s[k] \in C
      OBVIOUS
    <2> DEFINE x == s[k]
    <2> HIDE DEF p, q, x
    <2>5. /\ Append(p, x) \in Seq(C) /\ Len(Append(p, x)) = (k - 1) + 1
          /\ \A i \in 1..(k - 1) : Append(p, x)[i] = p[i]
          /\ Append(p, x)[(k - 1) + 1] = x
      <3>1. x \in C
        BY <2>4 DEF x
      <3> QED
        BY <2>2, <3>1, AppendProperties
    <2>6. ASSUME NEW i \in 1..k PROVE q[i] = Append(p, x)[i]
      <3>1. CASE i = k
        BY <2>1, <2>3, <2>5, <3>1 DEF x
      <3>2. CASE i # k
        <4>1. i \in 1..(k - 1)
          BY <2>1, <3>2
        <4> QED
          BY <2>2, <2>3, <2>5, <4>1
      <3> QED
        BY <3>1, <3>2
    <2>7. Len(Append(p, x)) = k
      BY <2>1, <2>5
    <2>8. q = Append(p, x)
      BY <2>3, <2>5, <2>6, <2>7, SeqEqual
    <2> QED
      BY <2>2, <2>4, <2>8 DEF p, q, x
  <1> QED
    BY <1>1, <1>2

\* Appending to the second part of a sequence appends to the whole.
LEMMA ConcatAppend ==
    ASSUME NEW C, NEW s \in Seq(C), NEW t \in Seq(C), NEW x \in C
    PROVE  s \o Append(t, x) = Append(s \o t, x)
  <1>1. Append(t, x) = t \o <<x>> /\ <<x>> \in Seq(C)
    OBVIOUS
  <1>2. s \o t \in Seq(C)
    OBVIOUS
  <1>3. Append(s \o t, x) = (s \o t) \o <<x>>
    BY <1>2
  <1> QED
    BY <1>1, <1>3, ConcatAssociative

\* One chunk holds its cells.
LEMMA FlattenOne ==
    ASSUME NEW C, NEW x \in Seq(C)
    PROVE  FlattenSeq(<<x>>) = x
  <1> DEFINE e == <<>>
  <1>1. e \in Seq(Seq(C)) /\ Append(e, x) = <<x>> /\ e \o x = x
    BY ConcatEmptySeq
  <1>2. FlattenSeq(e) = e
    BY FlattenEmpty
  <1> HIDE DEF e
  <1>3. FlattenSeq(Append(e, x)) = FlattenSeq(e) \o x
    BY <1>1, FlattenAppend
  <1> QED
    BY <1>1, <1>2, <1>3

Groups(s, t, u) == (s \o t) \o u = s \o (t \o u)

\* How four parts of a sequence are grouped does not matter.
LEMMA Grouping ==
    ASSUME NEW C, NEW s \in Seq(C), NEW t \in Seq(C), NEW u \in Seq(C)
    PROVE  Groups(s, t, u)
  BY ConcatAssociative DEF Groups

\* A chunk less at the start.
LEMMA FlattenHead ==
    ASSUME NEW C, NEW s \in Seq(Seq(C)), s # <<>>
    PROVE  /\ Head(s) \in Seq(C) /\ Tail(s) \in Seq(Seq(C))
           /\ FlattenSeq(s) = Head(s) \o FlattenSeq(Tail(s))
  <1> DEFINE h == Head(s)
             t == Tail(s)
             n == Len(t)
             upto(k) == SubSeq(s, 1, k + 1)
             rest(k) == SubSeq(t, 1, k)
  <1>1. /\ h \in Seq(C) /\ t \in Seq(Seq(C)) /\ n \in Nat /\ Len(s) = n + 1
        /\ h = s[1] /\ \A k \in 1..n : t[k] = s[k + 1]
    BY HeadTailProperties
  <1> HIDE DEF h, t, n
  <1> DEFINE T == {k \in 0..n : FlattenSeq(upto(k)) = h \o FlattenSeq(rest(k))}
  <1>2. 0 \in T
    <2>1. rest(0) = <<>>
      BY <1>1, SubSeqEmpty
    <2>2. upto(0) = <<h>>
      <3>1. Len(s) \in Nat /\ 1 \in 1..Len(s) /\ 1 - 1 = 0 /\ 0 + 1 = 1
        BY <1>1
      <3>2. SubSeq(s, 1, 1) = Append(SubSeq(s, 1, 0), s[1])
        BY <3>1, PrefixSteps
      <3>3. SubSeq(s, 1, 0) = <<>>
        BY <1>1, SubSeqEmpty
      <3>4. Append(<<>>, h) = <<h>>
        OBVIOUS
      <3>5. SubSeq(s, 1, 1) = <<h>>
        BY <1>1, <3>2, <3>3, <3>4, Zenon
      <3> QED
        BY <3>1, <3>5
    <2>3. FlattenSeq(<<h>>) = h /\ h \o <<>> = h
      BY <1>1, FlattenOne, ConcatEmptySeq
    <2>4. FlattenSeq(upto(0)) = h \o FlattenSeq(rest(0))
      <3> HIDE DEF upto, rest
      <3> QED
        BY <2>1, <2>2, <2>3, FlattenEmpty, Zenon
    <2>5. 0 \in 0..n
      BY <1>1
    <2> QED
      BY <2>4, <2>5
  <1>3. ASSUME NEW k \in 1..n, k - 1 \in T PROVE k \in T
    <2>1. k \in 0..n /\ k - 1 \in Nat /\ k \in Nat
      BY <1>1
    <2>2. /\ rest(k - 1) \in Seq(Seq(C)) /\ t[k] \in Seq(C)
          /\ rest(k) = Append(rest(k - 1), t[k])
      <3>1. k \in 1..Len(t)
        BY DEF n
      <3> QED
        BY <1>1, <3>1, PrefixSteps, SMTT(30)
    <2>3. /\ upto(k - 1) \in Seq(Seq(C)) /\ upto(k) = Append(upto(k - 1), t[k])
      <3>1. k + 1 \in 1..Len(s) /\ (k + 1) - 1 = k /\ (k - 1) + 1 = k
        BY <1>1, <2>1
      <3>2. /\ SubSeq(s, 1, (k + 1) - 1) \in Seq(Seq(C))
            /\ SubSeq(s, 1, k + 1) = Append(SubSeq(s, 1, (k + 1) - 1), s[k + 1])
        BY <3>1, PrefixSteps
      <3> QED
        BY <1>1, <3>1, <3>2
    <2> HIDE DEF upto, rest
    <2> DEFINE a == FlattenSeq(rest(k - 1))
               x == t[k]
    <2>4. a \in Seq(C) /\ FlattenSeq(rest(k)) = a \o x
      BY <2>2, FlattenAppend
    <2>5. FlattenSeq(upto(k)) = FlattenSeq(upto(k - 1)) \o x
      BY <2>2, <2>3, FlattenAppend
    <2>6. FlattenSeq(upto(k - 1)) = h \o a
      BY <1>3
    <2>7. x \in Seq(C)
      BY <2>2
    <2> HIDE DEF a, x
    <2>8. FlattenSeq(upto(k)) = (h \o a) \o x
      BY <2>5, <2>6, Zenon
    <2>9. (h \o a) \o x = h \o (a \o x)
      <3>1. h \in Seq(C) /\ a \in Seq(C) /\ x \in Seq(C)
        BY <1>1, <2>4, <2>7
      <3>2. Groups(h, a, x)
        BY <3>1, Grouping, Zenon
      <3> QED
        BY <3>2 DEF Groups
    <2>10. FlattenSeq(upto(k)) = h \o FlattenSeq(rest(k))
      BY <2>4, <2>8, <2>9, Zenon
    <2> QED
      BY <2>1, <2>10
  <1>4. 0..n \subseteq T
    <2> HIDE DEF T
    <2> QED
      BY <1>1, <1>2, <1>3, UpTo
  <1>5. n \in T
    <2>1. n \in 0..n
      <3>1. n \in Nat
        BY <1>1
      <3> QED
        BY <3>1
    <2> HIDE DEF T
    <2> QED
      BY <1>4, <2>1
  <1>6. FlattenSeq(upto(n)) = h \o FlattenSeq(rest(n))
    BY <1>5
  <1>7. upto(n) = s /\ rest(n) = t
    <2>1. SubSeq(s, 1, Len(s)) = s /\ SubSeq(t, 1, Len(t)) = t
      BY <1>1, SubSeqFull
    <2> QED
      BY <1>1, <2>1 DEF n
  <1> QED
    BY <1>1, <1>6, <1>7 DEF h, t

-----------------------------------------------------------------------------
(* The summary of what has been read.                                      *)

\* A chunk's packets go to the table and the log one after the other.
LEMMA DissectedAllIs ==
    ASSUME NEW rd, NEW ps \in Seq(Timeds), NEW qs \in Seq(Timeds)
    PROVE  DissectedAll(Told(rd, ps), qs) = Told(rd, ps \o qs)
  <1> DEFINE n == Len(qs)
             acc == Told(rd, ps)
             P(k) == ps \o SubSeq(qs, 1, k)
             g == [k \in 0..n |-> Told(rd, P(k))]
             u == CHOOSE u : u = [k \in 0..n |-> IF k = 0 THEN acc ELSE Dissected(u[k - 1], qs[k])]
  <1>1. n \in Nat
    OBVIOUS
  <1>2. P(0) = ps /\ P(n) = ps \o qs
    <2>1. SubSeq(qs, 1, 0) = <<>> /\ SubSeq(qs, 1, n) = qs
      BY PrefixSteps
    <2>2. ps \o <<>> = ps
      BY ConcatEmptySeq
    <2> HIDE DEF n
    <2> QED
      BY <2>1, <2>2, Zenon
  <1>3. ASSUME NEW k \in 1..n
        PROVE  /\ P(k - 1) \in Seq(Timeds) /\ qs[k] \in Timeds
               /\ P(k) = Append(P(k - 1), qs[k])
    <2> DEFINE a == SubSeq(qs, 1, k - 1)
               x == qs[k]
    <2>1. a \in Seq(Timeds) /\ x \in Timeds /\ SubSeq(qs, 1, k) = Append(a, x)
      BY PrefixSteps
    <2> HIDE DEF a, x
    <2>2. ps \o a \in Seq(Timeds) /\ ps \o Append(a, x) = Append(ps \o a, x)
      BY <2>1, ConcatProperties, ConcatAppend
    <2> QED
      BY <2>1, <2>2, Zenon DEF a, x
  <1> HIDE DEF P
  <1>4. ASSUME NEW k \in 1..n PROVE Told(rd, P(k)) = Dissected(Told(rd, P(k - 1)), qs[k])
    <2> DEFINE a == P(k - 1)
               x == qs[k]
    <2>1. a \in Seq(Timeds) /\ x \in Timeds /\ P(k) = Append(a, x)
      BY <1>3
    <2> HIDE DEF a, x
    <2>2. Dissected(Told(rd, a), x) = Told(rd, Append(a, x))
      BY <2>1, ToldAppend
    <2> QED
      BY <2>1, <2>2, Zenon DEF a, x
  <1> HIDE DEF n
  <1>5. g = [k \in 0..n |-> IF k = 0 THEN acc ELSE Dissected(g[k - 1], qs[k])]
    <2>1. ASSUME NEW k \in 0..n
          PROVE  Told(rd, P(k)) = IF k = 0 THEN acc ELSE Dissected(g[k - 1], qs[k])
      <3>1. CASE k = 0
        BY <1>2, <3>1, Zenon
      <3>2. CASE k # 0
        <4>1. k \in 1..n /\ k - 1 \in 0..n
          BY <1>1, <3>2
        <4>2. g[k - 1] = Told(rd, P(k - 1))
          BY <4>1, Zenon
        <4> QED
          BY <1>4, <3>2, <4>1, <4>2, Zenon
      <3> QED
        BY <3>1, <3>2
    <2> QED
      BY <2>1, Zenon
  <1>6. \A k \in 0..n : g[k] = Told(rd, P(k))
    BY Zenon
  <1> HIDE DEF g
  <1>7. u = [k \in 0..n |-> IF k = 0 THEN acc ELSE Dissected(u[k - 1], qs[k])]
    BY <1>5, Zenon
  <1>8. DissectedAll(acc, qs) = u[n]
    BY Zenon DEF DissectedAll, n
  <1> HIDE DEF u, acc
  <1>9. ASSUME NEW k \in 0..n
        PROVE  u[k] = IF k = 0 THEN acc ELSE Dissected(u[k - 1], qs[k])
    BY <1>7, Zenon
  <1> DEFINE T == {k \in 0..n : u[k] = Told(rd, P(k))}
  <1>10. 0 \in T
    <2>1. 0 \in 0..n
      BY <1>1
    <2> QED
      BY <1>2, <1>9, <2>1, Zenon DEF acc
  <1>11. ASSUME NEW k \in 1..n, k - 1 \in T PROVE k \in T
    <2>1. k \in 0..n /\ k # 0
      BY <1>1
    <2> QED
      BY <1>4, <1>9, <1>11, <2>1, Zenon
  <1>12. 0..n \subseteq T
    <2> HIDE DEF T
    <2> QED
      BY <1>1, <1>10, <1>11, UpTo
  <1>13. n \in 0..n
    BY <1>1
  <1>14. u[n] = Told(rd, P(n))
    BY <1>12, <1>13
  <1> QED
    BY <1>2, <1>8, <1>14, Zenon DEF acc

\* What a new reader, an empty table and an empty log become when the cells c
\* go through them.
Abs(c) == Told(Feed(NewReader, c).reader, Feed(NewReader, c).out)

\* What the call holds after the cells c.
LEMMA AbsType ==
    ASSUME NEW c \in Seq(Cell)
    PROVE  /\ Feed(NewReader, c) \in Loops
           /\ Feed(NewReader, c).reader \in Readers
           /\ Feed(NewReader, c).out \in Seq(Timeds)
  <1>1. NewReader \in Readers
    BY NewReaderType
  <1>2. Feed(NewReader, c) \in Loops
    BY <1>1, FeedAppend
  <1> QED
    BY <1>2 DEF Loops

\* However the cells are cut into chunks: a chunk more is its cells more.
LEMMA AbsorbIs ==
    ASSUME NEW c \in Seq(Cell), NEW d \in Seq(Cell)
    PROVE  Absorb(Abs(c), d) = Abs(c \o d)
  <1> DEFINE one == Feed(NewReader, c)
             two == Feed(one.reader, d)
             acc == Abs(c)
  <1>1. NewReader \in Readers
    BY NewReaderType
  <1>2. /\ one \in Loops /\ two \in Loops
        /\ Feed(NewReader, c \o d) = [reader |-> two.reader, out |-> one.out \o two.out]
    BY <1>1, FeedAppend
  <1>3. one.out \in Seq(Timeds) /\ two.out \in Seq(Timeds)
    <2> HIDE DEF one, two
    <2> QED
      BY <1>2 DEF Loops
  <1>4. acc.reader = one.reader /\ acc.table = TableOf(one.out) /\ acc.log = LogOf(one.out)
    BY DEF Abs, Told
  <1>5. Absorb(acc, d) = DissectedAll([reader |-> two.reader, table |-> acc.table, log |-> acc.log], two.out)
    <2> HIDE DEF acc
    <2>1. Feed(acc.reader, d) = two
      BY <1>4
    <2> HIDE DEF two
    <2> QED
      BY <2>1, Zenon DEF Absorb
  <1>6. [reader |-> two.reader, table |-> acc.table, log |-> acc.log] = Told(two.reader, one.out)
    <2> HIDE DEF acc, two, one
    <2> QED
      BY <1>4 DEF Told
  <1>7. DissectedAll(Told(two.reader, one.out), two.out) = Told(two.reader, one.out \o two.out)
    <2> HIDE DEF two, one
    <2> QED
      BY <1>3, DissectedAllIs
  <1>8. Abs(c \o d) = Told(two.reader, one.out \o two.out)
    <2> DEFINE both == Feed(NewReader, c \o d)
    <2>1. both.reader = two.reader /\ both.out = one.out \o two.out
      <3> HIDE DEF both, one, two
      <3>1. both = [reader |-> two.reader, out |-> one.out \o two.out]
        BY <1>2 DEF both, one, two
      <3> QED
        BY <3>1
    <2> HIDE DEF one, two
    <2> QED
      BY <2>1, Zenon DEF Abs
  <1> QED
    BY <1>5, <1>6, <1>7, <1>8, Zenon

\* Absorbing chunk after chunk is absorbing the cells of all of them.
LEMMA AbsorbAllIs ==
    ASSUME NEW c \in Seq(Cell), NEW chunks \in Seq(Seq(Cell))
    PROVE  AbsorbAll(Abs(c), chunks) = Abs(c \o FlattenSeq(chunks))
  <1> DEFINE n == Len(chunks)
             acc == Abs(c)
             P(k) == c \o FlattenSeq(SubSeq(chunks, 1, k))
             g == [k \in 0..n |-> Abs(P(k))]
             u == CHOOSE u : u = [k \in 0..n |-> IF k = 0 THEN acc ELSE Absorb(u[k - 1], chunks[k])]
  <1>1. n \in Nat
    OBVIOUS
  <1>2. P(0) = c /\ P(n) = c \o FlattenSeq(chunks)
    <2>1. SubSeq(chunks, 1, 0) = <<>> /\ SubSeq(chunks, 1, n) = chunks
      BY PrefixSteps
    <2>2. c \o <<>> = c
      BY ConcatEmptySeq
    <2> HIDE DEF n
    <2> QED
      BY <2>1, <2>2, FlattenEmpty, Zenon
  <1>3. ASSUME NEW k \in 1..n
        PROVE  /\ P(k - 1) \in Seq(Cell) /\ chunks[k] \in Seq(Cell)
               /\ P(k) = P(k - 1) \o chunks[k]
    <2> DEFINE a == SubSeq(chunks, 1, k - 1)
               x == chunks[k]
               b == FlattenSeq(a)
    <2>1. a \in Seq(Seq(Cell)) /\ x \in Seq(Cell) /\ SubSeq(chunks, 1, k) = Append(a, x)
      BY PrefixSteps
    <2> HIDE DEF a, x
    <2>2. b \in Seq(Cell) /\ FlattenSeq(Append(a, x)) = b \o x
      BY <2>1, FlattenAppend
    <2> HIDE DEF b
    <2>3. Groups(c, b, x) /\ c \o b \in Seq(Cell)
      BY <2>1, <2>2, Grouping, ConcatProperties
    <2>4. c \o (b \o x) = (c \o b) \o x
      BY <2>3 DEF Groups
    <2> QED
      BY <2>1, <2>2, <2>3, <2>4, Zenon DEF a, b, x
  <1> HIDE DEF P
  <1>4. ASSUME NEW k \in 1..n PROVE Abs(P(k)) = Absorb(Abs(P(k - 1)), chunks[k])
    <2> DEFINE a == P(k - 1)
               x == chunks[k]
    <2>1. a \in Seq(Cell) /\ x \in Seq(Cell) /\ P(k) = a \o x
      BY <1>3
    <2> HIDE DEF a, x
    <2>2. Absorb(Abs(a), x) = Abs(a \o x)
      BY <2>1, AbsorbIs
    <2> QED
      BY <2>1, <2>2, Zenon DEF a, x
  <1> HIDE DEF n
  <1>5. g = [k \in 0..n |-> IF k = 0 THEN acc ELSE Absorb(g[k - 1], chunks[k])]
    <2>1. ASSUME NEW k \in 0..n
          PROVE  Abs(P(k)) = IF k = 0 THEN acc ELSE Absorb(g[k - 1], chunks[k])
      <3>1. CASE k = 0
        BY <1>2, <3>1, Zenon
      <3>2. CASE k # 0
        <4>1. k \in 1..n /\ k - 1 \in 0..n
          BY <1>1, <3>2
        <4>2. g[k - 1] = Abs(P(k - 1))
          BY <4>1, Zenon
        <4> QED
          BY <1>4, <3>2, <4>1, <4>2, Zenon
      <3> QED
        BY <3>1, <3>2
    <2> QED
      BY <2>1, Zenon
  <1> HIDE DEF g
  <1>7. u = [k \in 0..n |-> IF k = 0 THEN acc ELSE Absorb(u[k - 1], chunks[k])]
    BY <1>5, Zenon
  <1>8. AbsorbAll(acc, chunks) = u[n]
    BY Zenon DEF AbsorbAll, n
  <1> HIDE DEF u, acc
  <1>9. ASSUME NEW k \in 0..n
        PROVE  u[k] = IF k = 0 THEN acc ELSE Absorb(u[k - 1], chunks[k])
    BY <1>7, Zenon
  <1> DEFINE T == {k \in 0..n : u[k] = Abs(P(k))}
  <1>10. 0 \in T
    <2>1. 0 \in 0..n
      BY <1>1
    <2> QED
      BY <1>2, <1>9, <2>1, Zenon DEF acc
  <1>11. ASSUME NEW k \in 1..n, k - 1 \in T PROVE k \in T
    <2>1. k \in 0..n /\ k # 0
      BY <1>1
    <2> QED
      BY <1>4, <1>9, <1>11, <2>1, Zenon
  <1>12. 0..n \subseteq T
    <2> HIDE DEF T
    <2> QED
      BY <1>1, <1>10, <1>11, UpTo
  <1>13. n \in 0..n
    BY <1>1
  <1>14. u[n] = Abs(P(n))
    BY <1>12, <1>13
  <1> QED
    BY <1>2, <1>8, <1>14, Zenon DEF acc

\* With no cell there is nothing to tell.
LEMMA AbsEmpty == Abs(<<>>) = [reader |-> NewReader, table |-> NewTable, log |-> NewLog]
  <1> DEFINE e == <<>>
             r == [NewReader EXCEPT !.buf = @ \o e]
  <1>1. r = NewReader
    <2>1. <<>> \o e = <<>>
      OBVIOUS
    <2> QED
      BY <2>1 DEF NewReader
  <1> HIDE DEF r
  <1>2. Feed(NewReader, e) = Scan(NewReader, <<>>)
    BY <1>1, Zenon DEF Feed, r
  <1>3. Len(NewReader.buf) = 0
    BY DEF NewReader
  <1>4. Scan(NewReader, <<>>) = Turns([reader |-> NewReader, out |-> <<>>])[0]
    BY <1>3, Zenon DEF Scan
  <1>5. Feed(NewReader, e) = [reader |-> NewReader, out |-> <<>>]
    <2> DEFINE f == [reader |-> NewReader, out |-> <<>>]
    <2>1. Turns(f)[0] = f
      BY TurnsDef
    <2> QED
      BY <1>2, <1>4, <2>1, Zenon
  <1>6. Abs(e) = Told(NewReader, <<>>)
    <2> DEFINE x == Feed(NewReader, e)
    <2>1. x.reader = NewReader /\ x.out = <<>>
      BY <1>5
    <2> HIDE DEF x
    <2> QED
      BY <2>1 DEF Abs, x
  <1> QED
    BY <1>6, TableOfEmpty, LogOfEmpty, Zenon DEF Told

-----------------------------------------------------------------------------
(* Messages on their way.                                                  *)

MessageTypes == {"chunk", "answer", "error", "info", "end", "closed"}
Message == [type : MessageTypes, cells : Seq(Cell)]

CellsIn(l) == [i \in DOMAIN l |-> l[i].cells]
Flat(l)    == FlattenSeq(CellsIn(l))

\* The cells of the messages in the link.
LEMMA CellsInType ==
    ASSUME NEW l \in Seq(Message)
    PROVE  CellsIn(l) \in Seq(Seq(Cell)) /\ Len(CellsIn(l)) = Len(l)
  <1> DEFINE n == Len(l)
  <1>1. DOMAIN l = 1..n /\ n \in Nat
    BY LenProperties
  <1>2. \A i \in 1..n : l[i].cells \in Seq(Cell)
    <2>1. \A m \in Message : m.cells \in Seq(Cell)
      BY DEF Message
    <2>2. \A i \in 1..n : l[i] \in Message
      BY ElementOfSeq
    <2> HIDE DEF n
    <2> QED
      BY <2>1, <2>2
  <1> HIDE DEF n
  <1>3. CellsIn(l) = [i \in 1..n |-> l[i].cells]
    BY <1>1 DEF CellsIn
  <1>4. CellsIn(l) \in [1..n -> Seq(Cell)]
    <2> DEFINE S == Seq(Cell)
    <2>1. \A i \in 1..n : l[i].cells \in S
      BY <1>2
    <2> HIDE DEF S
    <2>2. [i \in 1..n |-> l[i].cells] \in [1..n -> S]
      BY <2>1
    <2> QED
      BY <1>3, <2>2 DEF S
  <1> QED
    BY <1>1, <1>4, LenProperties DEF n

\* A message more at the end of the link.
LEMMA FlatAppend ==
    ASSUME NEW l \in Seq(Message), NEW m \in Message
    PROVE  /\ Append(l, m) \in Seq(Message)
           /\ Flat(l) \in Seq(Cell)
           /\ Flat(Append(l, m)) = Flat(l) \o m.cells
  <1> DEFINE n == Len(l)
             t == Append(l, m)
             c == CellsIn(l)
             x == m.cells
  <1>1. /\ t \in Seq(Message) /\ Len(t) = n + 1 /\ n \in Nat
        /\ \A i \in 1..n : t[i] = l[i]
        /\ t[n + 1] = m
        /\ DOMAIN t = 1..(n + 1) /\ DOMAIN l = 1..n
    BY AppendProperties, LenProperties
  <1>2. c \in Seq(Seq(Cell)) /\ x \in Seq(Cell)
    BY CellsInType DEF Message
  <1> HIDE DEF t, n
  <1>3. c = [i \in 1..n |-> l[i].cells] /\ \A i \in 1..n : c[i] = l[i].cells
    BY <1>1 DEF CellsIn
  <1>4. CellsIn(t) = [i \in 1..(n + 1) |-> t[i].cells]
    BY <1>1 DEF CellsIn
  <1> HIDE DEF c
  <1>5. Append(c, x) = [i \in 1..(n + 1) |-> IF i = n + 1 THEN x ELSE c[i]]
    <2>1. c = [i \in 1..n |-> c[i]]
      BY <1>3
    <2> QED
      BY <1>1, <2>1, AppendFun
  <1>6. ASSUME NEW i \in 1..(n + 1) PROVE t[i].cells = IF i = n + 1 THEN x ELSE c[i]
    <2>1. i = n + 1 \/ i \in 1..n
      BY <1>1
    <2>2. n + 1 \notin 1..n
      BY <1>1
    <2> QED
      BY <1>1, <1>3, <2>1, <2>2
  <1>7. CellsIn(t) = Append(c, x)
    BY <1>4, <1>5, <1>6
  <1> HIDE DEF x
  <1>8. FlattenSeq(c) \in Seq(Cell) /\ FlattenSeq(Append(c, x)) = FlattenSeq(c) \o x
    BY <1>2, FlattenAppend
  <1> QED
    BY <1>1, <1>7, <1>8, Zenon DEF Flat, c, t, x

\* A message less at its start.
LEMMA FlatHead ==
    ASSUME NEW l \in Seq(Message), l # <<>>
    PROVE  /\ Head(l) \in Message /\ Tail(l) \in Seq(Message)
           /\ Len(l) \in Nat \ {0} /\ Len(Tail(l)) = Len(l) - 1
           /\ Head(l) = l[1]
           /\ \A i \in 1..Len(Tail(l)) : Tail(l)[i] = l[i + 1]
           /\ Flat(l) = Head(l).cells \o Flat(Tail(l))
  <1> DEFINE t == Tail(l)
             n == Len(t)
             c == CellsIn(l)
  <1>1. /\ Head(l) \in Message /\ t \in Seq(Message)
        /\ Len(l) \in Nat \ {0} /\ n = Len(l) - 1 /\ n \in Nat
        /\ Head(l) = l[1]
        /\ \A i \in 1..n : t[i] = l[i + 1]
        /\ DOMAIN t = 1..n /\ DOMAIN l = 1..Len(l)
    <2>1. l \in Seq(Message) /\ l # <<>>
      OBVIOUS
    <2>2. /\ Head(l) \in Message /\ t \in Seq(Message) /\ n = Len(l) - 1
          /\ \A i \in 1..n : t[i] = l[i + 1]
      BY <2>1, HeadTailProperties
    <2>3. Len(l) \in Nat \ {0} /\ Head(l) = l[1]
      BY <2>1
    <2> HIDE DEF t
    <2>4. n \in Nat /\ DOMAIN t = 1..n /\ DOMAIN l = 1..Len(l)
      BY <2>2, LenProperties, SMTT(30)
    <2> QED
      BY <2>2, <2>3, <2>4
  <1>2. c \in Seq(Seq(Cell)) /\ CellsIn(t) \in Seq(Seq(Cell)) /\ Len(c) = Len(l) /\ Len(CellsIn(t)) = n
    BY <1>1, CellsInType
  <1>3. \A i \in 1..Len(l) : c[i] = l[i].cells
    BY <1>1 DEF CellsIn
  <1>4. \A i \in 1..n : CellsIn(t)[i] = t[i].cells
    BY <1>1 DEF CellsIn
  <1> HIDE DEF t, c, n
  <1>5. c # <<>> /\ Head(c) = Head(l).cells
    <2>1. c # <<>>
      BY <1>1, <1>2
    <2>2. Head(c) = c[1]
      BY <1>2, <2>1
    <2> QED
      BY <1>1, <1>3, <2>1, <2>2
  <1> DEFINE d == Tail(c)
  <1>6. /\ d \in Seq(Seq(Cell)) /\ Len(d) = Len(c) - 1
        /\ \A i \in 1..Len(d) : d[i] = c[i + 1]
    BY <1>2, <1>5, HeadTailProperties
  <1> HIDE DEF d
  <1>7. Len(d) = n
    BY <1>1, <1>2, <1>6
  <1>8. ASSUME NEW i \in 1..n PROVE d[i] = CellsIn(t)[i]
    <2>1. i + 1 \in 1..Len(l)
      BY <1>1
    <2> QED
      BY <1>1, <1>3, <1>4, <1>6, <1>7, <2>1
  <1>9. d = CellsIn(t)
    BY <1>2, <1>6, <1>7, <1>8, SeqEqual
  <1>10. FlattenSeq(c) = Head(c) \o FlattenSeq(d)
    BY <1>2, <1>5, FlattenHead DEF d
  <1> QED
    BY <1>1, <1>5, <1>9, <1>10, Zenon DEF Flat, c, t, n

\* Where no message is a chunk, no cell is on its way.
LEMMA FlatQuiet ==
    ASSUME NEW l \in Seq(Message), \A i \in DOMAIN l : l[i].cells = <<>>
    PROVE  Flat(l) = <<>>
  <1> DEFINE c == CellsIn(l)
             n == Len(c)
             T == {k \in 0..n : FlattenSeq(SubSeq(c, 1, k)) = <<>>}
  <1>1. c \in Seq(Seq(Cell)) /\ n \in Nat /\ DOMAIN c = 1..n
    BY CellsInType, LenProperties
  <1>2. \A k \in 1..n : c[k] = <<>>
    <2>1. DOMAIN c = DOMAIN l
      BY DEF CellsIn
    <2>2. \A k \in DOMAIN l : c[k] = l[k].cells
      BY DEF CellsIn
    <2> HIDE DEF c, n
    <2> QED
      BY <1>1, <2>1, <2>2
  <1> HIDE DEF c
  <1>3. /\ SubSeq(c, 1, 0) = <<>> /\ SubSeq(c, 1, n) = c
        /\ \A k \in 1..n : /\ SubSeq(c, 1, k - 1) \in Seq(Seq(Cell))
                           /\ SubSeq(c, 1, k) = Append(SubSeq(c, 1, k - 1), c[k])
    BY <1>1, PrefixSteps
  <1> HIDE DEF n
  <1>4. 0 \in T
    <2>1. 0 \in 0..n
      BY <1>1
    <2> QED
      BY <1>3, <2>1, FlattenEmpty, Zenon
  <1>5. ASSUME NEW k \in 1..n, k - 1 \in T PROVE k \in T
    <2> DEFINE a == SubSeq(c, 1, k - 1)
               e == <<>>
    <2>1. k \in 0..n
      BY <1>1
    <2>2. a \in Seq(Seq(Cell)) /\ SubSeq(c, 1, k) = Append(a, e) /\ FlattenSeq(a) = e
      BY <1>2, <1>3, <1>5
    <2>3. e \in Seq(Cell) /\ e \o e = e
      OBVIOUS
    <2> HIDE DEF a, e
    <2>4. FlattenSeq(Append(a, e)) = FlattenSeq(a) \o e
      BY <2>2, <2>3, FlattenAppend
    <2>5. FlattenSeq(SubSeq(c, 1, k)) = e
      BY <2>2, <2>3, <2>4, Zenon
    <2> QED
      BY <2>1, <2>5 DEF e
  <1>6. 0..n \subseteq T
    <2> HIDE DEF T
    <2> QED
      BY <1>1, <1>4, <1>5, UpTo
  <1>7. n \in 0..n
    BY <1>1
  <1>8. FlattenSeq(SubSeq(c, 1, n)) = <<>>
    BY <1>6, <1>7
  <1> QED
    BY <1>3, <1>8, Zenon DEF Flat, c

\* The first chunks of several make a prefix of what they all make.
LEMMA FlattenPrefix ==
    ASSUME NEW C, NEW s \in Seq(Seq(C)), NEW k \in 0..Len(s)
    PROVE  /\ SubSeq(s, 1, k) \in Seq(Seq(C))
           /\ \E r \in Seq(C) : FlattenSeq(s) = FlattenSeq(SubSeq(s, 1, k)) \o r
  <1> DEFINE n == Len(s)
             p(j) == SubSeq(s, 1, j)
             f == FlattenSeq(p(k))
             T == {j \in 0..n : j < k \/ \E r \in Seq(C) : FlattenSeq(p(j)) = f \o r}
  <1>1. n \in Nat /\ k \in 0..n
    OBVIOUS
  <1>2. /\ p(0) = <<>> /\ p(n) = s
        /\ \A j \in 1..n : /\ p(j - 1) \in Seq(Seq(C)) /\ s[j] \in Seq(C)
                           /\ p(j) = Append(p(j - 1), s[j])
    BY PrefixSteps
  <1>3. p(k) \in Seq(Seq(C))
    <2>1. k \in Nat /\ k <= Len(s)
      OBVIOUS
    <2> QED
      BY <2>1, Prefix
  <1> HIDE DEF p, n
  <1> DEFINE e == <<>>
  <1>4. f \in Seq(C)
    <2>1. e \in Seq(C)
      OBVIOUS
    <2> HIDE DEF e
    <2> QED
      BY <1>3, <2>1, FlattenAppend
  <1> HIDE DEF f
  <1>5. e \in Seq(C) /\ f \o e = f
    BY <1>4, ConcatEmptySeq
  <1> HIDE DEF e
  <1>6. ASSUME NEW j \in 0..n, j = k PROVE j \in T
    <2>1. FlattenSeq(p(j)) = f \o e
      BY <1>5, <1>6, Zenon DEF f
    <2> QED
      BY <1>5, <2>1
  <1>7. 0 \in T
    <2>1. 0 \in 0..n /\ (0 < k \/ 0 = k)
      BY <1>1
    <2>2. CASE 0 < k
      BY <2>1, <2>2
    <2>3. CASE 0 = k
      BY <1>6, <2>1, <2>3
    <2> QED
      BY <2>1, <2>2, <2>3
  <1>8. ASSUME NEW j \in 1..n, j - 1 \in T PROVE j \in T
    <2>1. j \in 0..n /\ (j < k \/ j = k \/ ~(j - 1 < k))
      BY <1>1
    <2>2. CASE j < k
      BY <2>1, <2>2
    <2>3. CASE j = k
      BY <1>6, <2>1, <2>3
    <2>4. CASE ~(j - 1 < k)
      <3>1. PICK r \in Seq(C) : FlattenSeq(p(j - 1)) = f \o r
        BY <1>8, <2>4
      <3> DEFINE x == s[j]
                 a == p(j - 1)
      <3>2. x \in Seq(C) /\ a \in Seq(Seq(C)) /\ p(j) = Append(a, x)
        BY <1>2
      <3>a. FlattenSeq(a) = f \o r
        BY <3>1
      <3> HIDE DEF x, a
      <3>3. FlattenSeq(Append(a, x)) = FlattenSeq(a) \o x
        BY <3>2, FlattenAppend
      <3>4. Groups(f, r, x) /\ r \o x \in Seq(C)
        <4>1. Groups(f, r, x)
          BY <1>4, <3>2, Grouping, Zenon
        <4>2. r \in Seq(C) /\ x \in Seq(C)
          BY <3>2
        <4> QED
          BY <4>1, <4>2, ConcatProperties
      <3>5. FlattenSeq(p(j)) = f \o (r \o x)
        BY <3>2, <3>a, <3>3, <3>4, Zenon DEF Groups
      <3> QED
        BY <2>1, <3>4, <3>5
    <2> QED
      BY <2>1, <2>2, <2>3, <2>4
  <1>9. 0..n \subseteq T
    <2> HIDE DEF T
    <2> QED
      BY <1>1, <1>7, <1>8, UpTo
  <1>10. n \in 0..n /\ ~(n < k)
    BY <1>1
  <1>11. \E r \in Seq(C) : FlattenSeq(p(n)) = f \o r
    BY <1>9, <1>10
  <1> QED
    BY <1>2, <1>3, <1>11, Zenon DEF f, p

-----------------------------------------------------------------------------
(* The inductive invariant.                                                *)

\* What its variables range over.
Typed ==
    /\ script \in Streams
    /\ core \in {"idle", "refused", "capturing", "over", "closed"}
    /\ sent \in 0..Len(Stream)
    /\ chatter \in 0..MaxChatter
    /\ link \in Seq(Message)
    /\ phase \in {"awaiting", "ready", "window", "drain", "over", "failed", "cut"}
    /\ answered \in BOOLEAN /\ owner \in BOOLEAN /\ tees \in BOOLEAN /\ ended \in BOOLEAN
    /\ pending \in Seq(Seq(Cell))
    /\ absorbed \in Seq(Cell)

\* Core sends no more of the capture.
Done == core \in {"over", "closed"}

\* Only chunks carry cells, and none follows the event of the capture's end.
EndsLast ==
    /\ \A i \in DOMAIN link : link[i].type # "chunk" => link[i].cells = <<>>
    /\ \A i \in DOMAIN link : link[i].type = "end" =>
          Done /\ \A j \in DOMAIN link : j > i => link[j].type # "chunk"
    /\ ended => Done /\ \A i \in DOMAIN link : link[i].type # "chunk"

\* What was kept for the window is replayed when it starts.
Replayed == phase \in {"window", "drain", "over"} => pending = <<>>

\* What core has sent of the capture.
Sent == SubSeq(Stream, 1, sent)

\* What was absorbed, is kept and is on its way, in this order, is what was
\* sent; after a failure what was absorbed is still the first of it.
Whole ==
    /\ \E r \in Seq(Cell) : absorbed \o r = Sent
    /\ phase # "failed" => (absorbed \o FlattenSeq(pending)) \o Flat(link) = Sent

\* The reader, the table and the log are those of the cells absorbed, and
\* the tee has these cells.
Summed ==
    /\ [reader |-> reader, table |-> table, log |-> log] = Abs(absorbed)
    /\ tees => tee = absorbed

SocketInv == Typed /\ EndsLast /\ Replayed /\ Whole /\ Summed

\* The types of the streams of the invariant.
LEMMA StreamType ==
    ASSUME Typed
    PROVE  /\ WellFormed(script) /\ Stream \in Seq(Cell)
           /\ sent \in Nat /\ sent <= Len(Stream) /\ Sent \in Seq(Cell)
           /\ FlattenSeq(pending) \in Seq(Cell) /\ Flat(link) \in Seq(Cell)
           /\ absorbed \o FlattenSeq(pending) \in Seq(Cell)
  <1>1. WellFormed(script)
    BY SocketAssumption DEF Typed
  <1>2. Stream \in Seq(Cell)
    <2>1. script \in Seq(BlockSet)
      BY <1>1 DEF WellFormed, BlockSet
    <2> QED
      BY <2>1, Layout DEF Stream
  <1>3. sent \in Nat /\ sent <= Len(Stream)
    BY <1>2 DEF Typed
  <1>4. Sent \in Seq(Cell)
    BY <1>2, <1>3, Prefix DEF Sent
  <1> DEFINE e == <<>>
             m == [type |-> "info", cells |-> <<>>]
             f == FlattenSeq(pending)
  <1>5. f \in Seq(Cell)
    <2>1. e \in Seq(Cell) /\ pending \in Seq(Seq(Cell))
      BY DEF Typed
    <2> HIDE DEF e
    <2> QED
      BY <2>1, FlattenAppend
  <1>6. Flat(link) \in Seq(Cell)
    <2>1. m \in Message /\ link \in Seq(Message)
      BY DEF Typed, Message, MessageTypes
    <2> HIDE DEF m
    <2> QED
      BY <2>1, FlatAppend
  <1> HIDE DEF f
  <1>7. absorbed \o f \in Seq(Cell)
    BY <1>5, ConcatProperties DEF Typed
  <1> QED
    BY <1>1, <1>2, <1>3, <1>4, <1>5, <1>6, <1>7 DEF f

\* The invariant holds when the last command is sent.
LEMMA InitInv == Init => SocketInv
  <1> SUFFICES ASSUME Init PROVE SocketInv
    OBVIOUS
  <1> DEFINE e == <<>>
  <1>0. e \in Seq(Cell) /\ e \in Seq(Seq(Cell)) /\ e \in Seq(Message) /\ DOMAIN e = {} /\ e \o e = e
    OBVIOUS
  <1> HIDE DEF e
  <1>1. /\ script \in Streams /\ core = "idle" /\ answered = FALSE /\ sent = 0 /\ chatter = 0
        /\ link = e /\ phase = "awaiting" /\ owner \in BOOLEAN /\ tees \in BOOLEAN
        /\ pending = e /\ ended = FALSE /\ tee = e /\ absorbed = e
        /\ reader = NewReader /\ table = NewTable /\ log = NewLog
    BY DEF Init, e
  <1>2. WellFormed(script) /\ Stream \in Seq(Cell)
    <2>1. WellFormed(script)
      BY <1>1, SocketAssumption
    <2>2. script \in Seq(BlockSet)
      BY <2>1 DEF WellFormed, BlockSet
    <2> QED
      BY <2>1, <2>2, Layout DEF Stream
  <1>3. Typed
    <2>1. sent \in 0..Len(Stream)
      BY <1>1, <1>2
    <2>2. chatter \in 0..MaxChatter
      BY <1>1, SocketAssumption
    <2> QED
      BY <1>0, <1>1, <2>1, <2>2 DEF Typed
  <1>4. EndsLast
    BY <1>0, <1>1 DEF EndsLast
  <1>5. Replayed
    BY <1>1 DEF Replayed
  <1>6. Whole
    <2>1. Sent = e
      BY <1>1, <1>2, SubSeqEmpty DEF Sent, e
    <2>2. FlattenSeq(pending) = e
      BY <1>1, FlattenEmpty DEF e
    <2>3. Flat(link) = e
      BY <1>0, <1>1, FlatQuiet DEF e
    <2> QED
      BY <1>0, <1>1, <2>1, <2>2, <2>3, Zenon DEF Whole
  <1>7. Summed
    <2>1. [reader |-> reader, table |-> table, log |-> log] = Abs(absorbed)
      BY <1>1, AbsEmpty DEF e
    <2> QED
      BY <1>1, <2>1 DEF Summed
  <1> QED
    BY <1>3, <1>4, <1>5, <1>6, <1>7 DEF SocketInv

\* Steps that neither send nor read.
LEMMA StaysStep ==
    ASSUME SocketInv,
           UNCHANGED <<script, answered, sent, chatter, link, owner, tees, pending, ended, summaryVars>>,
           core' \in {"idle", "refused", "capturing", "over", "closed"}, Done => Done',
           phase # "failed",
           phase' \in {"awaiting", "ready", "window", "drain", "over", "failed", "cut"},
           phase' \in {"window", "drain", "over"} => pending = <<>>
    PROVE  SocketInv'
  <1>1. Sent' = Sent /\ Stream' = Stream
    BY DEF Sent, Stream
  <1>2. Typed'
    BY <1>1 DEF SocketInv, Typed, summaryVars
  <1>3. EndsLast'
    BY DEF SocketInv, EndsLast
  <1>4. Replayed'
    BY DEF Replayed
  <1>5. Whole'
    <2>1. absorbed' = absorbed /\ link' = link /\ pending' = pending
      BY DEF summaryVars
    <2>2. (absorbed \o FlattenSeq(pending)) \o Flat(link) = Sent /\ \E r \in Seq(Cell) : absorbed \o r = Sent
      BY DEF SocketInv, Whole
    <2> QED
      BY <1>1, <2>1, <2>2, Zenon DEF Whole
  <1>6. Summed'
    <2>1. UNCHANGED <<absorbed, tee, reader, table, log, tees>>
      BY DEF summaryVars
    <2>2. Summed
      BY DEF SocketInv
    <2> QED
      BY <2>1, <2>2 DEF Summed
  <1> QED
    BY <1>2, <1>3, <1>4, <1>5, <1>6 DEF SocketInv

\* Core says something that carries no cells.
LEMMA SaysStep ==
    ASSUME SocketInv, NEW m \in Message, Says(m), m.type # "chunk", m.cells = <<>>,
           sent' = sent,
           core' \in {"idle", "refused", "capturing", "over", "closed"}, Done => Done',
           m.type = "end" => Done',
           answered' \in BOOLEAN, chatter' \in 0..MaxChatter
    PROVE  SocketInv'
  <1>0. Typed /\ EndsLast /\ Replayed /\ Whole /\ Summed
    BY DEF SocketInv
  <1>1. /\ link' = Append(link, m)
        /\ UNCHANGED <<script, phase, owner, tees, pending, ended, tee, absorbed, reader, table, log>>
    BY DEF Says, summaryVars
  <1>2. Sent' = Sent /\ Stream' = Stream
    BY <1>1 DEF Sent, Stream
  <1> DEFINE n == Len(link)
             t == Append(link, m)
  <1>3. /\ link \in Seq(Message) /\ t \in Seq(Message) /\ n \in Nat
        /\ DOMAIN link = 1..n /\ DOMAIN t = 1..(n + 1)
        /\ \A i \in 1..n : t[i] = link[i]
        /\ t[n + 1] = m
    <2>1. link \in Seq(Message)
      BY <1>0 DEF Typed
    <2> QED
      BY <2>1, AppendProperties, LenProperties
  <1>4. Flat(t) = Flat(link)
    <2>1. Flat(t) = Flat(link) \o m.cells /\ Flat(link) \in Seq(Cell)
      BY <1>3, FlatAppend
    <2> DEFINE f == Flat(link)
    <2> HIDE DEF f, t
    <2>2. f \o <<>> = f
      BY <2>1, ConcatEmptySeq DEF f
    <2> QED
      BY <2>1, <2>2, Zenon DEF f
  <1> HIDE DEF t, n
  <1>a. link' = t
    BY <1>1 DEF t
  <1>5. Typed'
    BY <1>0, <1>1, <1>2, <1>3, <1>a DEF Typed
  <1>6. EndsLast'
    <2>1. \A i \in DOMAIN t : t[i].type # "chunk" => t[i].cells = <<>>
      BY <1>0, <1>3 DEF EndsLast
    <2>2. ASSUME NEW i \in DOMAIN t, t[i].type = "end"
          PROVE  Done' /\ \A j \in DOMAIN t : j > i => t[j].type # "chunk"
      <3>1. i \in 1..n \/ i = n + 1
        BY <1>3
      <3>2. CASE i \in 1..n
        <4>1. Done /\ \A j \in 1..n : j > i => link[j].type # "chunk"
          BY <1>0, <1>3, <2>2, <3>2 DEF EndsLast
        <4>2. \A j \in 1..(n + 1) : j \in 1..n \/ j = n + 1
          BY <1>3
        <4> QED
          BY <1>3, <4>1, <4>2
      <3>3. CASE i = n + 1
        <4>1. Done'
          BY <1>3, <2>2, <3>3
        <4>2. \A j \in 1..(n + 1) : ~(j > n + 1)
          BY <1>3
        <4> QED
          BY <1>3, <3>3, <4>1, <4>2
      <3> QED
        BY <3>1, <3>2, <3>3
    <2>3. ended => Done' /\ \A i \in DOMAIN t : t[i].type # "chunk"
      <3>1. \A j \in 1..(n + 1) : j \in 1..n \/ j = n + 1
        BY <1>3
      <3> QED
        BY <1>0, <1>3, <3>1 DEF EndsLast
    <2>4. ended' = ended
      BY <1>1
    <2> HIDE DEF Done
    <2> QED
      BY <1>a, <2>1, <2>2, <2>3, <2>4 DEF EndsLast
  <1>7. Replayed'
    BY <1>0, <1>1 DEF Replayed
  <1>8. Whole'
    BY <1>0, <1>1, <1>2, <1>4, <1>a, Zenon DEF Whole
  <1>9. Summed'
    BY <1>0, <1>1 DEF Summed
  <1> QED
    BY <1>5, <1>6, <1>7, <1>8, <1>9 DEF SocketInv

\* A chunk core sends goes to the end of what the call has not read.
LEMMA CoreSendsStep ==
    ASSUME SocketInv, CoreSends, phase # "failed"
    PROVE  SocketInv'
  <1>0. Typed /\ EndsLast /\ Replayed /\ Whole /\ Summed
    BY DEF SocketInv
  <1>1. PICK k \in ChunkSizes :
          LET upto == IF sent + k > Len(Stream) THEN Len(Stream) ELSE sent + k
          IN  /\ upto > sent
              /\ sent' = upto
              /\ Says(Chunk(SubSeq(Stream, sent + 1, upto)))
    BY DEF CoreSends
  <1> DEFINE n == Len(link)
             d == SubSeq(Stream, sent + 1, sent')
             m == Chunk(d)
             t == Append(link, m)
  <1>2. /\ sent' \in Nat /\ sent < sent' /\ sent' <= Len(Stream) /\ Says(m)
    <2>1. k \in Nat /\ sent \in Nat /\ Len(Stream) \in Nat
      BY <1>0, StreamType, SocketAssumption
    <2>2. sent' = IF sent + k > Len(Stream) THEN Len(Stream) ELSE sent + k
      BY <1>1
    <2>3. sent' > sent /\ Says(m)
      BY <1>1
    <2> QED
      BY <2>1, <2>2, <2>3
  <1>3. Stream \in Seq(Cell) /\ sent \in Nat /\ sent <= Len(Stream) /\ Len(Stream) \in Nat
    BY <1>0, StreamType
  <1>4. /\ link' = t
        /\ UNCHANGED <<script, phase, owner, tees, pending, ended, tee, absorbed, reader, table, log>>
        /\ core = "capturing" /\ core' = core /\ answered' = answered /\ chatter' = chatter
    BY <1>2 DEF Says, summaryVars, CoreSends
  <1>5. d \in Seq(Cell)
    <2>1. sent <= sent'
      BY <1>2, <1>3
    <2> QED
      BY <1>2, <1>3, <2>1, Slice
  <1>6. Stream' = Stream /\ Sent' = Sent \o d
    <2>1. Stream' = Stream
      BY <1>4 DEF Stream
    <2>2. Sent' = SubSeq(Stream, 1, sent')
      BY <2>1 DEF Sent
    <2>3. 1 \in 1..(Len(Stream) + 1) /\ sent \in (1 - 1)..Len(Stream) /\ sent' \in sent..Len(Stream)
      BY <1>2, <1>3
    <2>4. SubSeq(Stream, 1, sent) \o SubSeq(Stream, sent + 1, sent') = SubSeq(Stream, 1, sent')
      BY <1>3, <2>3, ConcatAdjacentSubSeq
    <2> QED
      BY <2>1, <2>2, <2>4 DEF Sent
  <1> HIDE DEF d
  <1>7. m \in Message /\ m.type = "chunk" /\ m.cells = d
    BY <1>5 DEF Chunk, Message, MessageTypes
  <1> HIDE DEF m
  <1>8. /\ link \in Seq(Message) /\ t \in Seq(Message) /\ n \in Nat
        /\ DOMAIN link = 1..n /\ DOMAIN t = 1..(n + 1)
        /\ \A i \in 1..n : t[i] = link[i]
        /\ t[n + 1] = m
    <2>1. link \in Seq(Message)
      BY <1>0 DEF Typed
    <2> QED
      BY <1>7, <2>1, AppendProperties, LenProperties
  <1>9. Flat(t) = Flat(link) \o d
    BY <1>7, <1>8, FlatAppend
  <1> HIDE DEF t, n
  <1>10. Typed'
    <2>1. sent' \in 0..Len(Stream)
      BY <1>2, <1>3
    <2> QED
      BY <1>0, <1>4, <1>6, <1>8, <2>1 DEF Typed
  <1>11. EndsLast'
    <2>1. ~Done /\ ~ended /\ \A i \in 1..n : link[i].type # "end"
      BY <1>0, <1>4, <1>8 DEF EndsLast, Done
    <2>2. \A i \in 1..n : link[i].type # "chunk" => link[i].cells = <<>>
      BY <1>0, <1>8 DEF EndsLast
    <2>3. \A j \in 1..(n + 1) : j \in 1..n \/ j = n + 1
      BY <1>8
    <2>4. \A i \in DOMAIN t : t[i].type # "chunk" => t[i].cells = <<>>
      BY <1>7, <1>8, <2>2, <2>3
    <2>5. \A i \in DOMAIN t : t[i].type # "end"
      BY <1>7, <1>8, <2>1, <2>3
    <2> HIDE DEF Done
    <2> QED
      BY <1>4, <2>1, <2>4, <2>5 DEF EndsLast
  <1>12. Replayed'
    BY <1>0, <1>4 DEF Replayed
  <1>13. Whole'
    <2> DEFINE a == absorbed \o FlattenSeq(pending)
               f == Flat(link)
    <2>1. a \in Seq(Cell) /\ f \in Seq(Cell) /\ absorbed \in Seq(Cell)
      BY <1>0, StreamType DEF Typed
    <2>2. a \o f = Sent
      BY <1>0 DEF Whole
    <2>3. PICK r \in Seq(Cell) : absorbed \o r = Sent
      BY <1>0 DEF Whole
    <2> HIDE DEF a, f
    <2>4. Groups(a, f, d)
      BY <1>5, <2>1, Grouping, Zenon
    <2>5. Groups(absorbed, r, d) /\ r \o d \in Seq(Cell)
      <3>1. Groups(absorbed, r, d)
        BY <1>5, <2>1, Grouping, Zenon
      <3> QED
        BY <1>5, <3>1, ConcatProperties
    <2>6. a \o (f \o d) = Sent'
      BY <1>6, <2>2, <2>4, Zenon DEF Groups
    <2>7. absorbed \o (r \o d) = Sent'
      BY <1>6, <2>3, <2>5, Zenon DEF Groups
    <2>8. (absorbed \o FlattenSeq(pending)) \o Flat(t) = Sent'
      BY <1>9, <2>6, Zenon DEF a, f
    <2> QED
      BY <1>4, <2>5, <2>7, <2>8, Zenon DEF Whole
  <1>14. Summed'
    BY <1>0, <1>4 DEF Summed
  <1> QED
    BY <1>10, <1>11, <1>12, <1>13, <1>14 DEF SocketInv

\* The head of the link and what is behind it.
LEMMA ReadsHead ==
    ASSUME Typed, EndsLast, link # <<>>
    PROVE  LET m == Head(link)
               t == Tail(link)
           IN  /\ m \in Message /\ t \in Seq(Message)
               /\ m.cells \in Seq(Cell) /\ Flat(t) \in Seq(Cell)
               /\ Flat(link) = m.cells \o Flat(t)
               /\ m.type # "chunk" => Flat(link) = Flat(t)
               /\ \A i \in DOMAIN t : t[i].type # "chunk" => t[i].cells = <<>>
               /\ \A i \in DOMAIN t : t[i].type = "end" =>
                     Done /\ \A j \in DOMAIN t : j > i => t[j].type # "chunk"
               /\ (ended \/ m.type = "end") => Done /\ \A i \in DOMAIN t : t[i].type # "chunk"
  <1> DEFINE m == Head(link)
             t == Tail(link)
             n == Len(t)
  <1>1. link \in Seq(Message)
    BY DEF Typed
  <1>2. /\ m \in Message /\ t \in Seq(Message)
        /\ Len(link) \in Nat \ {0} /\ n = Len(link) - 1 /\ m = link[1]
        /\ \A i \in 1..n : t[i] = link[i + 1]
        /\ Flat(link) = m.cells \o Flat(t)
    BY <1>1, FlatHead, SMTT(30)
  <1> HIDE DEF m, t
  <1>3. n \in Nat /\ DOMAIN t = 1..n /\ DOMAIN link = 1..(n + 1)
    <2>1. DOMAIN link = 1..Len(link) /\ DOMAIN t = 1..n /\ n \in Nat
      BY <1>1, <1>2, LenProperties
    <2>2. n + 1 = Len(link)
      BY <1>2
    <2> QED
      BY <2>1, <2>2
  <1> HIDE DEF n
  <1>4. \A i \in 1..n : i + 1 \in 1..(n + 1) /\ t[i] = link[i + 1]
    BY <1>2, <1>3
  <1>5. 1 \in 1..(n + 1) /\ \A i \in 1..n : i + 1 > 1
    BY <1>3
  <1>6. m.cells \in Seq(Cell)
    BY <1>2 DEF Message
  <1>7. Flat(t) \in Seq(Cell)
    BY <1>2, FlatAppend
  <1>8. m.type # "chunk" => Flat(link) = Flat(t)
    <2>1. m.type # "chunk" => m.cells = <<>>
      BY <1>2, <1>3, <1>5 DEF EndsLast
    <2> DEFINE f == Flat(t)
    <2>2. <<>> \o f = f
      <3> HIDE DEF f
      <3> QED
        BY <1>7, ConcatEmptySeq DEF f
    <2> HIDE DEF f
    <2> QED
      BY <1>2, <2>1, <2>2, Zenon DEF f
  <1>9. \A i \in DOMAIN t : t[i].type # "chunk" => t[i].cells = <<>>
    BY <1>3, <1>4 DEF EndsLast
  <1>10. ASSUME NEW i \in DOMAIN t, t[i].type = "end"
         PROVE  Done /\ \A j \in DOMAIN t : j > i => t[j].type # "chunk"
    <2>1. Done /\ \A j \in 1..(n + 1) : j > i + 1 => link[j].type # "chunk"
      BY <1>3, <1>4, <1>10 DEF EndsLast
    <2>2. \A j \in 1..n : j > i => j + 1 > i + 1
      BY <1>3
    <2> QED
      BY <1>3, <1>4, <2>1, <2>2
  <1>11. (ended \/ m.type = "end") => Done /\ \A i \in DOMAIN t : t[i].type # "chunk"
    <2>1. CASE ended
      BY <1>3, <1>4, <2>1 DEF EndsLast
    <2>2. CASE m.type = "end"
      <3>1. Done /\ \A j \in 1..(n + 1) : j > 1 => link[j].type # "chunk"
        BY <1>2, <1>3, <1>5, <2>2 DEF EndsLast
      <3> QED
        BY <1>3, <1>4, <1>5, <3>1
    <2> QED
      BY <2>1, <2>2
  <1> QED
    BY <1>2, <1>6, <1>7, <1>8, <1>9, <1>10, <1>11 DEF m, t

\* What is taken is absorbed, told and kept in the tee.
LEMMA TakesIs ==
    ASSUME Typed, Summed, NEW chunks \in Seq(Seq(Cell)), Takes(chunks), UNCHANGED tees
    PROVE  /\ absorbed' = absorbed \o FlattenSeq(chunks)
           /\ absorbed' \in Seq(Cell)
           /\ Summed'
  <1> DEFINE f == FlattenSeq(chunks)
             acc == [reader |-> reader, table |-> table, log |-> log]
             e == <<>>
  <1>1. f \in Seq(Cell) /\ absorbed \in Seq(Cell)
    <2>1. e \in Seq(Cell)
      OBVIOUS
    <2> HIDE DEF e
    <2> QED
      BY <2>1, FlattenAppend DEF Typed
  <1>2. /\ tee' = IF tees THEN tee \o f ELSE tee
        /\ absorbed' = absorbed \o f
        /\ reader' = AbsorbAll(acc, chunks).reader
        /\ table' = AbsorbAll(acc, chunks).table
        /\ log' = AbsorbAll(acc, chunks).log
    BY Zenon DEF Takes
  <1>3. acc = Abs(absorbed)
    BY DEF Summed
  <1>4. AbsorbAll(acc, chunks) = Abs(absorbed \o f)
    <2>1. AbsorbAll(Abs(absorbed), chunks) = Abs(absorbed \o f)
      BY <1>1, AbsorbAllIs
    <2> HIDE DEF acc
    <2> QED
      BY <1>3, <2>1, Zenon
  <1> HIDE DEF f, acc
  <1>5. absorbed' \in Seq(Cell)
    BY <1>1, <1>2, ConcatProperties
  <1>6. [reader |-> reader', table |-> table', log |-> log'] = Abs(absorbed')
    <2> DEFINE rd == Feed(NewReader, absorbed').reader
               ps == Feed(NewReader, absorbed').out
    <2>1. Abs(absorbed') = [reader |-> rd, table |-> TableOf(ps), log |-> LogOf(ps)]
      BY Zenon DEF Abs, Told
    <2>2. /\ reader' = Abs(absorbed').reader /\ table' = Abs(absorbed').table
          /\ log' = Abs(absorbed').log
      BY <1>2, <1>4, Zenon
    <2> HIDE DEF rd, ps
    <2> QED
      BY <2>1, <2>2
  <1>7. tees' => tee' = absorbed'
    <2>1. tees => tee = absorbed
      BY DEF Summed
    <2> QED
      BY <1>2, <2>1, Zenon
  <1> QED
    BY <1>2, <1>5, <1>6, <1>7, Zenon DEF Summed, f

\* A message read while waiting is kept for the window, in order.
LEMMA AwaitReadsStep ==
    ASSUME SocketInv, AwaitReads
    PROVE  SocketInv'
  <1>0. Typed /\ EndsLast /\ Replayed /\ Whole /\ Summed
    BY DEF SocketInv
  <1> DEFINE m == Head(link)
             t == Tail(link)
             a == absorbed
             p == FlattenSeq(pending)
             f == Flat(t)
             x == m.cells
  <1>1. /\ phase = "awaiting" /\ link # <<>> /\ link' = t
        /\ phase' \in {"awaiting", "ready", "failed"}
        /\ pending' = IF m.type = "chunk" THEN Append(pending, x) ELSE pending
        /\ ended' = (ended \/ m.type = "end")
        /\ UNCHANGED <<script, core, answered, sent, chatter, owner, tees, tee, absorbed, reader, table, log>>
    BY DEF AwaitReads, coreVars, summaryVars
  <1>2. /\ m \in Message /\ t \in Seq(Message)
        /\ x \in Seq(Cell) /\ f \in Seq(Cell)
        /\ Flat(link) = x \o f
        /\ m.type # "chunk" => Flat(link) = f
        /\ \A i \in DOMAIN t : t[i].type # "chunk" => t[i].cells = <<>>
        /\ \A i \in DOMAIN t : t[i].type = "end" =>
              Done /\ \A j \in DOMAIN t : j > i => t[j].type # "chunk"
        /\ (ended \/ m.type = "end") => Done /\ \A i \in DOMAIN t : t[i].type # "chunk"
    BY <1>0, <1>1, ReadsHead
  <1>3. Sent' = Sent /\ Stream' = Stream /\ Done' = Done
    BY <1>1 DEF Sent, Stream, Done
  <1>4. a \in Seq(Cell) /\ p \in Seq(Cell) /\ pending \in Seq(Seq(Cell)) /\ a \o p \in Seq(Cell)
    BY <1>0, StreamType DEF Typed
  <1> HIDE DEF m, t, p, f, x
  <1>5. Typed'
    <2>1. pending' \in Seq(Seq(Cell))
      BY <1>1, <1>2, <1>4, AppendProperties
    <2>2. ended' \in BOOLEAN
      BY <1>1
    <2> QED
      BY <1>0, <1>1, <1>2, <1>3, <2>1, <2>2 DEF Typed
  <1>6. EndsLast'
    <2> HIDE DEF Done
    <2> QED
      BY <1>1, <1>2, <1>3, ZenonT(60) DEF EndsLast
  <1>7. Replayed'
    BY <1>1 DEF Replayed
  <1>8. Whole'
    <2>1. PICK r \in Seq(Cell) : a \o r = Sent
      BY <1>0 DEF Whole
    <2>2. (a \o p) \o Flat(link) = Sent
      BY <1>0, <1>1, Zenon DEF Whole, p
    <2>3. (absorbed' \o FlattenSeq(pending')) \o Flat(link') = Sent'
      <3>1. CASE m.type = "chunk"
        <4>1. FlattenSeq(pending') = p \o x
          BY <1>1, <1>2, <1>4, <3>1, FlattenAppend DEF p
        <4>2. Groups(a, p, x) /\ Groups(a \o p, x, f)
          BY <1>2, <1>4, Grouping, Zenon
        <4>3. (a \o p) \o (x \o f) = Sent
          BY <1>2, <2>2, Zenon
        <4>4. (a \o (p \o x)) \o f = Sent
          BY <4>2, <4>3, Zenon DEF Groups
        <4> QED
          BY <1>1, <1>3, <4>1, <4>4, Zenon DEF f
      <3>2. CASE m.type # "chunk"
        <4>1. pending' = pending /\ Flat(link) = f
          BY <1>1, <1>2, <3>2
        <4> QED
          BY <1>1, <1>3, <2>2, <4>1, Zenon DEF f, p
      <3> QED
        BY <3>1, <3>2
    <2> QED
      BY <1>1, <1>3, <2>1, <2>3, Zenon DEF Whole
  <1>9. Summed'
    BY <1>0, <1>1 DEF Summed
  <1> QED
    BY <1>5, <1>6, <1>7, <1>8, <1>9 DEF SocketInv

\* The replay hands all that was kept to the reader, in order.
LEMMA ReplaysStep ==
    ASSUME SocketInv, Replays
    PROVE  SocketInv'
  <1>0. Typed /\ EndsLast /\ Replayed /\ Whole /\ Summed
    BY DEF SocketInv
  <1> DEFINE p == FlattenSeq(pending)
             f == Flat(link)
             e == <<>>
  <1>1. /\ phase = "ready" /\ phase' = "window" /\ Takes(pending) /\ pending' = e
        /\ UNCHANGED <<script, core, answered, sent, chatter, link, owner, tees, ended>>
    BY DEF Replays, coreVars
  <1>2. /\ absorbed \in Seq(Cell) /\ p \in Seq(Cell) /\ f \in Seq(Cell)
        /\ pending \in Seq(Seq(Cell)) /\ absorbed \o p \in Seq(Cell)
    BY <1>0, StreamType DEF Typed
  <1>3. absorbed' = absorbed \o p /\ absorbed' \in Seq(Cell) /\ Summed'
    BY <1>0, <1>1, <1>2, TakesIs
  <1>4. Sent' = Sent /\ Stream' = Stream /\ Done' = Done
    BY <1>1 DEF Sent, Stream, Done
  <1>5. e \in Seq(Seq(Cell))
    OBVIOUS
  <1> HIDE DEF p, f
  <1>6. Typed'
    <2> HIDE DEF e
    <2> QED
      BY <1>0, <1>1, <1>3, <1>4, <1>5 DEF Typed
  <1>7. EndsLast'
    <2> HIDE DEF Done
    <2> QED
      BY <1>0, <1>1, <1>4 DEF EndsLast
  <1>8. Replayed'
    BY <1>1 DEF Replayed
  <1>9. Whole'
    <2>1. (absorbed \o p) \o f = Sent
      BY <1>0, <1>1, Zenon DEF Whole, p, f
    <2>2. (absorbed \o p) \o e = absorbed \o p
      <3> DEFINE a == absorbed \o p
      <3>1. a \in Seq(Cell)
        BY <1>2
      <3> HIDE DEF a
      <3>2. a \o e = a
        BY <3>1, ConcatEmptySeq
      <3> QED
        BY <3>2 DEF a
    <2>3. FlattenSeq(pending') = e
      BY <1>1, FlattenEmpty
    <2>4. (absorbed' \o FlattenSeq(pending')) \o Flat(link') = Sent'
      BY <1>1, <1>3, <1>4, <2>1, <2>2, <2>3, Zenon DEF f
    <2>5. absorbed' \o f = Sent'
      BY <1>3, <1>4, <2>1, Zenon
    <2> QED
      BY <1>2, <2>4, <2>5, Zenon DEF Whole
  <1> QED
    BY <1>3, <1>6, <1>7, <1>8, <1>9 DEF SocketInv

\* A replay cut short by the tee has absorbed whole chunks of it.
LEMMA ReplayFailsStep ==
    ASSUME SocketInv, ReplayFails
    PROVE  SocketInv'
  <1>0. Typed /\ EndsLast /\ Replayed /\ Whole /\ Summed
    BY DEF SocketInv
  <1>1. PICK i \in DOMAIN pending : Takes(SubSeq(pending, 1, i - 1))
    BY DEF ReplayFails
  <1> DEFINE q == SubSeq(pending, 1, i - 1)
             p == FlattenSeq(pending)
             f == Flat(link)
             b == FlattenSeq(q)
  <1>2. /\ phase = "ready" /\ phase' = "failed"
        /\ UNCHANGED <<script, core, answered, sent, chatter, link, owner, tees, pending, ended>>
    BY DEF ReplayFails, coreVars
  <1>3. /\ absorbed \in Seq(Cell) /\ p \in Seq(Cell) /\ f \in Seq(Cell)
        /\ pending \in Seq(Seq(Cell)) /\ absorbed \o p \in Seq(Cell)
    BY <1>0, StreamType DEF Typed
  <1>4. q \in Seq(Seq(Cell)) /\ \E r \in Seq(Cell) : p = b \o r
    <2>1. i - 1 \in 0..Len(pending)
      BY <1>3, LenProperties
    <2> QED
      BY <1>3, <2>1, FlattenPrefix
  <1>5. PICK r \in Seq(Cell) : p = b \o r
    BY <1>4
  <1> HIDE DEF q
  <1>6. b \in Seq(Cell)
    <2> DEFINE e == <<>>
    <2>1. e \in Seq(Cell)
      OBVIOUS
    <2> HIDE DEF e
    <2> QED
      BY <1>4, <2>1, FlattenAppend
  <1>7. absorbed' = absorbed \o b /\ absorbed' \in Seq(Cell) /\ Summed'
    BY <1>0, <1>1, <1>2, <1>4, TakesIs DEF q
  <1>8. Sent' = Sent /\ Stream' = Stream /\ Done' = Done
    BY <1>2 DEF Sent, Stream, Done
  <1> HIDE DEF p, f, b
  <1>9. Typed'
    BY <1>0, <1>2, <1>7, <1>8 DEF Typed
  <1>10. EndsLast'
    <2> HIDE DEF Done
    <2> QED
      BY <1>0, <1>2, <1>8 DEF EndsLast
  <1>11. Replayed'
    BY <1>2 DEF Replayed
  <1>12. Whole'
    <2>1. (absorbed \o p) \o f = Sent
      BY <1>0, <1>2, Zenon DEF Whole, p, f
    <2>2. Groups(absorbed, b, r)
      BY <1>3, <1>6, Grouping, Zenon
    <2>3. Groups(absorbed', r, f) /\ r \o f \in Seq(Cell)
      <3>1. Groups(absorbed', r, f)
        BY <1>3, <1>7, Grouping, Zenon
      <3> QED
        BY <1>3, <3>1, ConcatProperties
    <2>4. absorbed' \o (r \o f) = Sent'
      BY <1>5, <1>7, <1>8, <2>1, <2>2, <2>3, Zenon DEF Groups
    <2>5. phase' = "failed"
      BY <1>2
    <2> QED
      BY <2>3, <2>4, <2>5 DEF Whole
  <1> QED
    BY <1>7, <1>9, <1>10, <1>11, <1>12 DEF SocketInv

\* A message read in the window is the next part of the stream.
LEMMA ReadsStep ==
    ASSUME SocketInv, Reads
    PROVE  SocketInv'
  <1>0. Typed /\ EndsLast /\ Replayed /\ Whole /\ Summed
    BY DEF SocketInv
  <1> DEFINE m == Head(link)
             t == Tail(link)
             f == Flat(t)
             x == m.cells
             e == <<>>
  <1>1. /\ phase \in {"window", "drain"} /\ link # <<>> /\ link' = t /\ phase' = phase
        /\ ended' = (m.type = "end")
        /\ IF m.type = "chunk" THEN Takes(<<x>>)
           ELSE UNCHANGED <<tee, absorbed, reader, table, log>>
        /\ UNCHANGED <<script, core, answered, sent, chatter, owner, tees, pending>>
    BY DEF Reads, Reading, coreVars, summaryVars
  <1>2. /\ m \in Message /\ t \in Seq(Message)
        /\ x \in Seq(Cell) /\ f \in Seq(Cell)
        /\ Flat(link) = x \o f
        /\ m.type # "chunk" => Flat(link) = f
        /\ \A i \in DOMAIN t : t[i].type # "chunk" => t[i].cells = <<>>
        /\ \A i \in DOMAIN t : t[i].type = "end" =>
              Done /\ \A j \in DOMAIN t : j > i => t[j].type # "chunk"
        /\ (ended \/ m.type = "end") => Done /\ \A i \in DOMAIN t : t[i].type # "chunk"
    BY <1>0, <1>1, ReadsHead
  <1>3. Sent' = Sent /\ Stream' = Stream /\ Done' = Done
    BY <1>1 DEF Sent, Stream, Done
  <1>4. absorbed \in Seq(Cell) /\ pending = e /\ FlattenSeq(pending) = e
    <2>1. pending = e
      BY <1>0, <1>1 DEF Replayed
    <2> QED
      BY <1>0, <2>1, FlattenEmpty DEF Typed
  <1> HIDE DEF m, t, f, x
  <1>5. /\ absorbed' \in Seq(Cell) /\ Summed'
        /\ m.type = "chunk" => absorbed' = absorbed \o x
        /\ m.type # "chunk" => absorbed' = absorbed
    <2>1. CASE m.type = "chunk"
      <3> DEFINE c == <<x>>
      <3>1. c \in Seq(Seq(Cell)) /\ Takes(c) /\ FlattenSeq(c) = x
        BY <1>1, <1>2, <2>1, FlattenOne
      <3> HIDE DEF c
      <3>2. absorbed' = absorbed \o FlattenSeq(c) /\ absorbed' \in Seq(Cell) /\ Summed'
        BY <1>0, <1>1, <3>1, TakesIs
      <3> QED
        BY <2>1, <3>1, <3>2
    <2>2. CASE m.type # "chunk"
      <3>1. UNCHANGED <<tee, absorbed, reader, table, log, tees>>
        BY <1>1, <2>2
      <3>2. Summed'
        BY <1>0, <3>1 DEF Summed
      <3> QED
        BY <1>4, <2>2, <3>1, <3>2
    <2> QED
      BY <2>1, <2>2
  <1>6. Typed'
    <2>1. ended' \in BOOLEAN
      BY <1>1
    <2> QED
      BY <1>0, <1>1, <1>2, <1>3, <1>5, <2>1 DEF Typed
  <1>7. EndsLast'
    <2> HIDE DEF Done
    <2> QED
      BY <1>1, <1>2, <1>3, ZenonT(60) DEF EndsLast
  <1>8. Replayed'
    BY <1>1, <1>4 DEF Replayed
  <1>9. Whole'
    <2> DEFINE a == absorbed
               b == absorbed'
    <2>1. a \o e = a /\ b \o e = b /\ a \in Seq(Cell) /\ b \in Seq(Cell)
      BY <1>4, <1>5, ConcatEmptySeq
    <2>2. (a \o e) \o Flat(link) = Sent
      <3>1. phase # "failed"
        BY <1>1
      <3> HIDE DEF e
      <3> QED
        BY <1>0, <1>4, <3>1, Zenon DEF Whole
    <2>3. b \o f = Sent
      <3>1. CASE m.type = "chunk"
        <4>1. Groups(a, x, f)
          BY <1>2, <2>1, Grouping, Zenon
        <4>2. b = a \o x
          BY <1>5, <3>1
        <4> HIDE DEF b, a
        <4> QED
          BY <1>2, <2>1, <2>2, <4>1, <4>2, Zenon DEF Groups
      <3>2. CASE m.type # "chunk"
        <4>1. b = a /\ Flat(link) = f
          BY <1>2, <1>5, <3>2
        <4> HIDE DEF b, a
        <4> QED
          BY <2>1, <2>2, <4>1, Zenon
      <3> QED
        BY <3>1, <3>2
    <2>4. (b \o FlattenSeq(pending')) \o Flat(link') = Sent'
      <3>1. pending' = pending /\ link' = t
        BY <1>1
      <3> HIDE DEF b, e
      <3> QED
        BY <1>3, <1>4, <2>1, <2>3, <3>1, Zenon DEF f
    <2>5. b \o f = Sent' /\ f \in Seq(Cell)
      BY <1>2, <1>3, <2>3, Zenon
    <2> QED
      BY <2>4, <2>5, Zenon DEF Whole
  <1> QED
    BY <1>5, <1>6, <1>7, <1>8, <1>9 DEF SocketInv

\* A chunk the tee could not take reaches neither reader nor summary.
LEMMA WriteFailsStep ==
    ASSUME SocketInv, WriteFails
    PROVE  SocketInv'
  <1>0. Typed /\ EndsLast /\ Replayed /\ Whole /\ Summed
    BY DEF SocketInv
  <1> DEFINE t == Tail(link)
  <1>1. /\ link # <<>> /\ link' = t /\ phase' = "failed"
        /\ UNCHANGED <<script, core, answered, sent, chatter, owner, tees, pending, ended, tee, absorbed, reader, table, log>>
    BY DEF WriteFails, Reading, coreVars, summaryVars
  <1>2. /\ t \in Seq(Message)
        /\ \A i \in DOMAIN t : t[i].type # "chunk" => t[i].cells = <<>>
        /\ \A i \in DOMAIN t : t[i].type = "end" =>
              Done /\ \A j \in DOMAIN t : j > i => t[j].type # "chunk"
        /\ ended => Done /\ \A i \in DOMAIN t : t[i].type # "chunk"
    BY <1>0, <1>1, ReadsHead
  <1>3. Sent' = Sent /\ Stream' = Stream /\ Done' = Done
    BY <1>1 DEF Sent, Stream, Done
  <1> HIDE DEF t
  <1>4. Typed'
    BY <1>0, <1>1, <1>2, <1>3 DEF Typed
  <1>5. EndsLast'
    <2> HIDE DEF Done
    <2> QED
      BY <1>1, <1>2, <1>3 DEF EndsLast
  <1>6. Replayed'
    BY <1>1 DEF Replayed
  <1>7. Whole'
    <2>1. PICK r \in Seq(Cell) : absorbed \o r = Sent
      BY <1>0 DEF Whole
    <2>2. absorbed' \o r = Sent'
      BY <1>1, <1>3, <2>1
    <2> QED
      BY <1>1, <2>2 DEF Whole
  <1>8. Summed'
    BY <1>0, <1>1 DEF Summed
  <1> QED
    BY <1>4, <1>5, <1>6, <1>7, <1>8 DEF SocketInv

\* Every step of core and of the call preserves the invariant.
LEMMA NextInv == SocketInv /\ [Next]_vars => SocketInv'
  <1> SUFFICES ASSUME SocketInv, [Next]_vars PROVE SocketInv'
    OBVIOUS
  <1> DEFINE Cores == {"idle", "refused", "capturing", "over", "closed"}
             Phases == {"awaiting", "ready", "window", "drain", "over", "failed", "cut"}
  <1>0. /\ core \in Cores /\ phase \in Phases /\ answered \in BOOLEAN
        /\ chatter \in 0..MaxChatter /\ Replayed
    BY DEF SocketInv, Typed
  <1>a. \A code \in MessageTypes \ {"chunk"} :
           /\ Event(code) \in Message
           /\ Event(code).type = code /\ code # "chunk" /\ Event(code).cells = <<>>
    <2> DEFINE e == <<>>
    <2>1. e \in Seq(Cell)
      OBVIOUS
    <2> QED
      BY <2>1 DEF Event, Message
  <1>1. CASE UNCHANGED vars
    <2>1. /\ UNCHANGED <<script, core, answered, sent, chatter, link, phase, owner, tees,
                         pending, ended, tee, absorbed, reader, table, log>>
      BY <1>1 DEF vars, coreVars, summaryVars
    <2>2. Sent' = Sent /\ Stream' = Stream /\ Done' = Done
      BY <2>1 DEF Sent, Stream, Done
    <2>3. Typed' /\ Replayed'
      BY <2>1, <2>2 DEF SocketInv, Typed, Replayed
    <2>4. EndsLast'
      BY <2>1, <2>2 DEF SocketInv, EndsLast
    <2>5. Whole'
      <3>1. Whole
        BY DEF SocketInv
      <3> QED
        BY <2>1, <2>2, <3>1, Zenon DEF Whole
    <2>6. Summed'
      <3>1. Summed
        BY DEF SocketInv
      <3> QED
        BY <2>1, <3>1 DEF Summed
    <2> QED
      BY <2>3, <2>4, <2>5, <2>6 DEF SocketInv
  <1>2. CASE CoreNext
    <2>0. phase # "failed"
      BY <1>2 DEF CoreNext
    <2>1. CASE CoreHandles
      <3>1. /\ core = "idle" /\ core' = "capturing" /\ phase' = phase
            /\ UNCHANGED <<script, answered, sent, chatter, link, owner, tees, pending, ended, summaryVars>>
        BY <2>1 DEF CoreHandles
      <3> QED
        BY <1>0, <2>0, <3>1, StaysStep DEF Done, Replayed
    <2>2. CASE CoreAnswers
      <3>1. /\ Says(Event("answer")) /\ core' = core /\ sent' = sent /\ chatter' = chatter
            /\ answered' = TRUE /\ "answer" \in MessageTypes \ {"chunk"}
        BY <2>2 DEF CoreAnswers, MessageTypes
      <3> QED
        BY <1>0, <1>a, <3>1, SaysStep DEF Done
    <2>3. CASE CoreRefuses
      <3>1. /\ Says(Event("error")) /\ core = "idle" /\ core' = "refused" /\ sent' = sent
            /\ chatter' = chatter /\ answered' = answered /\ "error" \in MessageTypes \ {"chunk"}
        BY <2>3 DEF CoreRefuses, MessageTypes
      <3> QED
        BY <1>0, <1>a, <3>1, SaysStep DEF Done
    <2>4. CASE CoreSends
      BY <2>0, <2>4, CoreSendsStep
    <2>5. CASE CoreChats
      <3>1. /\ Says(Event("info")) /\ core' = core /\ sent' = sent /\ answered' = answered
            /\ chatter < MaxChatter /\ chatter' = chatter + 1
            /\ "info" \in MessageTypes \ {"chunk"}
        BY <2>5 DEF CoreChats, MessageTypes
      <3>2. chatter' \in 0..MaxChatter
        BY <1>0, <3>1, SocketAssumption
      <3> QED
        BY <1>0, <1>a, <3>1, <3>2, SaysStep DEF Done
    <2>6. CASE CoreEnds
      <3>1. /\ Says(Event("end")) /\ core = "capturing" /\ core' = "over" /\ sent' = sent
            /\ chatter' = chatter /\ answered' = answered /\ "end" \in MessageTypes \ {"chunk"}
        BY <2>6 DEF CoreEnds, MessageTypes
      <3> QED
        BY <1>0, <1>a, <3>1, SaysStep DEF Done
    <2>7. CASE CoreCloses
      <3>1. /\ Says(Event("closed")) /\ core' = "closed" /\ sent' = sent
            /\ chatter' = chatter /\ answered' = answered /\ "closed" \in MessageTypes \ {"chunk"}
        BY <2>7 DEF CoreCloses, MessageTypes
      <3> QED
        BY <1>0, <1>a, <3>1, SaysStep DEF Done
    <2> QED
      BY <1>2, <2>1, <2>2, <2>3, <2>4, <2>5, <2>6, <2>7 DEF CoreNext
  <1>3. CASE AwaitReads
    BY <1>3, AwaitReadsStep
  <1>4. CASE CommandTimeout
    <2>1. /\ phase = "awaiting" /\ phase' = "failed" /\ core' = core
          /\ UNCHANGED <<script, answered, sent, chatter, link, owner, tees, pending, ended, summaryVars>>
      BY <1>4 DEF CommandTimeout, coreVars
    <2> QED
      BY <1>0, <2>1, StaysStep DEF Done
  <1>5. CASE Replays
    BY <1>5, ReplaysStep
  <1>6. CASE ReplayFails
    BY <1>6, ReplayFailsStep
  <1>7. CASE Reads
    BY <1>7, ReadsStep
  <1>8. CASE WriteFails
    BY <1>8, WriteFailsStep
  <1>9. CASE Leaves
    <2>1. /\ phase \in {"window", "drain"} /\ phase' \in {"drain", "over"} /\ core' = core
          /\ UNCHANGED <<script, answered, sent, chatter, link, owner, tees, pending, ended, summaryVars>>
      BY <1>9 DEF Leaves, coreVars
    <2>2. pending = <<>>
      BY <1>0, <2>1 DEF Replayed
    <2> QED
      BY <1>0, <2>1, <2>2, StaysStep DEF Done
  <1>10. CASE Cancelled
    <2>1. /\ phase \in {"awaiting", "ready", "window", "drain"} /\ phase' = "cut" /\ core' = core
          /\ UNCHANGED <<script, answered, sent, chatter, link, owner, tees, pending, ended, summaryVars>>
      BY <1>10 DEF Cancelled, coreVars
    <2> QED
      BY <1>0, <2>1, StaysStep DEF Done
  <1> QED
    BY <1>1, <1>2, <1>3, <1>4, <1>5, <1>6, <1>7, <1>8, <1>9, <1>10 DEF Next, CallNext

\* The invariant holds in every state.
THEOREM SocketInvariant == Spec => []SocketInv
  BY InitInv, NextInv, PTL DEF Spec

\* What was absorbed is the beginning of the stream.
LEMMA AbsorbedIs ==
    ASSUME SocketInv
    PROVE  /\ Len(absorbed) \in 0..Len(Stream)
           /\ absorbed = SubSeq(Stream, 1, Len(absorbed))
  <1> DEFINE n == Len(absorbed)
  <1>1. /\ Stream \in Seq(Cell) /\ sent \in Nat /\ sent <= Len(Stream) /\ Len(Stream) \in Nat
        /\ absorbed \in Seq(Cell) /\ n \in Nat
    BY StreamType DEF SocketInv, Typed
  <1>2. PICK r \in Seq(Cell) : absorbed \o r = Sent
    BY DEF SocketInv, Whole
  <1>3. Sent \in Seq(Cell) /\ Len(Sent) = sent /\ \A i \in 1..sent : Sent[i] = Stream[i]
    BY <1>1, Prefix DEF Sent
  <1>4. /\ Len(absorbed \o r) = n + Len(r) /\ Len(r) \in Nat
        /\ \A i \in 1..(n + Len(r)) : (absorbed \o r)[i] = IF i <= n THEN absorbed[i] ELSE r[i - n]
    BY <1>1, ConcatProperties
  <1> DEFINE m == Len(r)
  <1> HIDE DEF n, m
  <1>5. sent = n + m /\ m \in Nat /\ n <= sent
    <2>1. sent = n + m /\ m \in Nat
      BY <1>2, <1>3, <1>4 DEF m
    <2> QED
      BY <1>1, <2>1
  <1>6. \A i \in 1..n : Sent[i] = absorbed[i]
    <2>1. \A i \in 1..n : i \in 1..(n + m) /\ i <= n
      BY <1>1, <1>5
    <2> QED
      BY <1>2, <1>4, <2>1 DEF m
  <1>7. n \in 0..Len(Stream) /\ n <= Len(Stream) /\ \A i \in 1..n : i \in 1..sent
    BY <1>1, <1>5
  <1> DEFINE p == SubSeq(Stream, 1, n)
  <1>8. p \in Seq(Cell) /\ Len(p) = n /\ \A i \in 1..n : p[i] = Stream[i]
    BY <1>1, <1>7, Prefix
  <1> HIDE DEF p
  <1>9. \A i \in 1..n : p[i] = absorbed[i]
    BY <1>3, <1>6, <1>7, <1>8
  <1>10. absorbed = p
    BY <1>1, <1>8, <1>9, SeqEqual DEF n
  <1> QED
    BY <1>7, <1>10 DEF n, p

\* The summary and the tee are those of what was absorbed.
LEMMA InvSummary == SocketInv => SummaryMatchesFile
  <1> SUFFICES ASSUME SocketInv PROVE SummaryMatchesFile
    OBVIOUS
  <1> DEFINE n == Len(absorbed)
             ps == PacketsWithin(script, n)
             rd == Feed(NewReader, absorbed).reader
             out == Feed(NewReader, absorbed).out
  <1>1. WellFormed(script)
    BY StreamType DEF SocketInv
  <1>2. n \in 0..Len(Cells(script)) /\ absorbed = SubSeq(Cells(script), 1, n)
    BY AbsorbedIs DEF Stream
  <1> HIDE DEF n
  <1>3. out = ps
    <2>1. Feed(NewReader, SubSeq(Cells(script), 1, n)).out = PacketsWithin(script, n)
      BY <1>1, <1>2, FeedIsReference
    <2> QED
      BY <1>2, <2>1, Zenon
  <1>4. [reader |-> reader, table |-> table, log |-> log] = Abs(absorbed)
    BY DEF SocketInv, Summed
  <1>5. Abs(absorbed) = [reader |-> rd, table |-> TableOf(out), log |-> LogOf(out)]
    BY Zenon DEF Abs, Told
  <1> HIDE DEF rd, out, ps
  <1>6. table = TableOf(ps) /\ log = LogOf(ps)
    BY <1>3, <1>4, <1>5
  <1>7. tees => tee = absorbed
    BY DEF SocketInv, Summed
  <1> QED
    BY <1>6, <1>7, Zenon DEF SummaryMatchesFile, ps, n

\* What core sent is absorbed, kept or in the link, in that order.
LEMMA InvNothingLost == SocketInv => NothingLost
  <1> SUFFICES ASSUME SocketInv PROVE NothingLost
    OBVIOUS
  <1>0. Typed /\ EndsLast /\ Replayed /\ Whole
    BY DEF SocketInv
  <1> DEFINE f == Flat(link)
             p == FlattenSeq(pending)
             e == <<>>
  <1>1. absorbed \in Seq(Cell) /\ p \in Seq(Cell) /\ f \in Seq(Cell)
    BY <1>0, StreamType DEF Typed
  <1>2. f = FlattenSeq([i \in DOMAIN link |-> link[i].cells])
    BY Zenon DEF Flat, CellsIn
  <1>3. phase # "failed" => (absorbed \o p) \o f = Sent
    BY <1>0, Zenon DEF Whole
  <1>4. ASSUME phase = "over", ended PROVE absorbed = Sent
    <2>1. \A i \in DOMAIN link : link[i].cells = <<>>
      BY <1>0, <1>4 DEF EndsLast
    <2>2. f = e
      BY <1>0, <2>1, FlatQuiet DEF Typed
    <2>3. p = e
      BY <1>0, <1>4, FlattenEmpty DEF Replayed
    <2>4. absorbed \o e = absorbed
      BY <1>1, ConcatEmptySeq
    <2>5. phase # "failed"
      BY <1>4
    <2> HIDE DEF f, p, e
    <2> QED
      BY <1>3, <2>2, <2>3, <2>4, <2>5, Zenon
  <1> QED
    BY <1>2, <1>3, <1>4, Zenon DEF NothingLost, Sent

\* The type invariant is part of it.
LEMMA InvTypeOK == SocketInv => TypeOK
  <1> SUFFICES ASSUME SocketInv PROVE TypeOK
    OBVIOUS
  <1> DEFINE ps == Feed(NewReader, absorbed).out
             rd == Feed(NewReader, absorbed).reader
  <1>1. ps \in Seq(Timeds)
    BY AbsType DEF SocketInv, Typed
  <1>2. [reader |-> reader, table |-> table, log |-> log] = Abs(absorbed)
    BY DEF SocketInv, Summed
  <1>3. Abs(absorbed) = [reader |-> rd, table |-> TableOf(ps), log |-> LogOf(ps)]
    BY Zenon DEF Abs, Told
  <1> HIDE DEF ps, rd
  <1>4. table = TableOf(ps) /\ log = LogOf(ps)
    BY <1>2, <1>3
  <1>5. table.other \in Nat
    <2> DEFINE others == DOMAIN ps \ ApsIn(ps)
    <2>1. TableOf(ps) = [aps   |-> [b \in BssidsOf(ps) |-> RowOf(ps, b)],
                         other |-> Cardinality(others)]
      BY Zenon DEF TableOf, BssidsOf, ApsIn
    <2>2. IsFiniteSet(others)
      <3>1. DOMAIN ps = 1..Len(ps) /\ Len(ps) \in Nat
        BY <1>1, LenProperties
      <3>2. IsFiniteSet(1..Len(ps))
        BY <3>1, FS_Interval
      <3>3. others \subseteq 1..Len(ps)
        BY <3>1
      <3> QED
        BY <3>2, <3>3, FS_Subset
    <2>3. Cardinality(others) \in Nat
      BY <2>2, FS_CardinalityType
    <2> HIDE DEF others
    <2> QED
      BY <1>4, <2>1, <2>3
  <1>6. MaxFrames >= 0 => Len(log.frames) <= MaxFrames
    <2> DEFINE s == Frames(ps)
               k == Kept(Len(s))
               T == TimedIn(s, k)
    <2>1. Len(s) \in Nat /\ MaxFrames \in Int
      <3>1. s \in Seq(Timeds)
        <4> DEFINE x == [pkt |-> NoPacket, ts |-> 0]
        <4>1. x \in Timeds
          BY DEF Timeds
        <4> HIDE DEF x
        <4> QED
          BY <1>1, <4>1, FramesAppend
      <3> HIDE DEF s
      <3> QED
        BY <3>1, Dot11Assumption
    <2>2. log.frames = [i \in 1..k |-> RecordOf(s, T, i)]
      <3>1. log = LogFrom(s)
        BY <1>4, LogOfFrom
      <3> QED
        BY <3>1 DEF LogFrom
    <2> DEFINE N == Len(s)
    <2> HIDE DEF N
    <2>3. k \in Nat /\ (MaxFrames >= 0 => k <= MaxFrames)
      <3>1. N \in Nat /\ MaxFrames \in Int
        BY <2>1 DEF N
      <3>2. Kept(N) \in Nat /\ (MaxFrames >= 0 => Kept(N) <= MaxFrames)
        BY <3>1 DEF Kept
      <3> QED
        BY <3>2 DEF N
    <2> HIDE DEF k, T, s
    <2>4. Len([i \in 1..k |-> RecordOf(s, T, i)]) = k
      BY <2>3, LenProperties
    <2> QED
      BY <2>2, <2>3, <2>4
  <1>7. \A i \in DOMAIN link :
           link[i].type \in {"chunk", "answer", "error", "info", "end", "closed"}
    <2>1. link \in Seq(Message)
      BY DEF SocketInv, Typed
    <2>2. \A i \in DOMAIN link : link[i] \in Message
      BY <2>1, LenProperties, ElementOfSeq
    <2> QED
      BY <2>2 DEF Message, MessageTypes
  <1>8. {answered, owner, tees, ended} \subseteq BOOLEAN
    BY DEF SocketInv, Typed
  <1>9. /\ script \in Streams
        /\ core \in {"idle", "refused", "capturing", "over", "closed"}
        /\ sent \in 0..Len(Stream) /\ chatter \in 0..MaxChatter
        /\ phase \in {"awaiting", "ready", "window", "drain", "over", "failed", "cut"}
    BY DEF SocketInv, Typed
  <1> QED
    BY <1>5, <1>6, <1>7, <1>8, <1>9, Zenon DEF TypeOK

\* The state stays in its type, and the log within max_frames.
THEOREM SocketTypeOK == Spec => []TypeOK
  BY SocketInvariant, InvTypeOK, PTL

\* SummaryMatchesFile for every stream and every cutting of it: whenever
\* the call ends, complete, cancelled or failed, its table and its log are
\* those of the packets that are whole in the cells absorbed so far, which
\* are the cells in the tee file (consume, _absorb and the replay of
\* _pending_binary).
THEOREM SocketSummaryMatchesFile == Spec => []SummaryMatchesFile
  BY SocketInvariant, InvSummary, PTL

\* NothingLost for every stream and every cutting of it: what core sent is
\* what the reader absorbed, then what _await_code keeps, then what the
\* socket has not read; and a call that read the capture's end has it all.
THEOREM SocketNothingLost == Spec => []NothingLost
  BY SocketInvariant, InvNothingLost, PTL

=============================================================================
