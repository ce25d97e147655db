-------------------------- MODULE ProvingPathProofs --------------------------
(***************************************************************************)
(* Proofs about ProvingPath, for all guests, journals, releases, exits and  *)
(* assumptions: what is accepted was executed, what is honest is accepted,  *)
(* and a finished build agrees with itself.  The argument follows the bytes: *)
(* a digest determines the fields of its claim, the public signals the claim *)
(* digest and the circuits, a seal its receipt; and the contracts compute   *)
(* each of them as the prover does.                                         *)
(***************************************************************************)
EXTENDS ProvingPath, SequenceTheorems, TLAPS

-----------------------------------------------------------------------------
(* Reversing the bytes of a word *)

\* A word of 32 bytes, and where a swap of groups of g bytes takes byte i from.
Word(v) == DOMAIN v = 1..32
At(g, i) == IF ((i - 1) \div g) % 2 = 0 THEN i + g ELSE i - g

\* A swap of neighbouring groups (Util.sol) keeps the 32 places and takes each
\* byte from the place At names.
LEMMA Swapped ==
  ASSUME NEW v, Word(v), NEW g \in {1, 2, 4, 8, 16}
  PROVE  /\ Word(SwapGroups(v, g))
         /\ \A i \in 1..32 : At(g, i) \in 1..32 /\ SwapGroups(v, g)[i] = v[At(g, i)]
<1>1. Word(SwapGroups(v, g))
  BY DEF Word, SwapGroups
<1>2. ASSUME NEW i \in 1..32 PROVE SwapGroups(v, g)[i] = v[At(g, i)]
  BY DEF Word, SwapGroups, At
<1>3. ASSUME NEW i \in 1..32 PROVE At(g, i) \in 1..32
  <2>1. CASE g = 1 BY <2>1 DEF At
  <2>2. CASE g = 2 BY <2>2 DEF At
  <2>3. CASE g = 4 BY <2>3 DEF At
  <2>4. CASE g = 8 BY <2>4 DEF At
  <2>5. CASE g = 16 BY <2>5 DEF At
  <2>. QED BY <2>1, <2>2, <2>3, <2>4, <2>5
<1>. QED BY <1>1, <1>2, <1>3

\* The five swaps of reverseByteOrderUint256, one after the other, take the byte
\* for place i from place 33 - i.
LEMMA AllSwaps ==
  ASSUME NEW i \in 1..32
  PROVE  At(1, At(2, At(4, At(8, At(16, i))))) = 33 - i
BY DEF At

\* reverseByteOrderUint256 reverses the bytes of every word.
THEOREM BytesReversed ==
  ASSUME NEW v, Word(v)
  PROVE  reverseByteOrderUint256(v) = [i \in 1..32 |-> v[33 - i]]
<1> DEFINE a == SwapGroups(v, 1)  b == SwapGroups(a, 2)  c == SwapGroups(b, 4)
           d == SwapGroups(c, 8)  e == SwapGroups(d, 16)
<1>1. Word(a) /\ \A i \in 1..32 : At(1, i) \in 1..32 /\ a[i] = v[At(1, i)]
  BY Swapped
<1>2. Word(b) /\ \A i \in 1..32 : At(2, i) \in 1..32 /\ b[i] = a[At(2, i)]
  BY <1>1, Swapped
<1>3. Word(c) /\ \A i \in 1..32 : At(4, i) \in 1..32 /\ c[i] = b[At(4, i)]
  BY <1>2, Swapped
<1>4. Word(d) /\ \A i \in 1..32 : At(8, i) \in 1..32 /\ d[i] = c[At(8, i)]
  BY <1>3, Swapped
<1>5. Word(e) /\ \A i \in 1..32 : At(16, i) \in 1..32 /\ e[i] = d[At(16, i)]
  BY <1>4, Swapped
<1>6. reverseByteOrderUint256(v) = e
  BY DEF reverseByteOrderUint256
<1>7. ASSUME NEW i \in 1..32 PROVE e[i] = v[33 - i]
  <2> DEFINE j == At(16, i)  k == At(8, j)  l == At(4, k)  m == At(2, l)
  <2>1. j \in 1..32 /\ e[i] = d[j] BY <1>5
  <2>2. k \in 1..32 /\ d[j] = c[k] BY <1>4, <2>1
  <2>3. l \in 1..32 /\ c[k] = b[l] BY <1>3, <2>2
  <2>4. m \in 1..32 /\ b[l] = a[m] BY <1>2, <2>3
  <2>5. a[m] = v[At(1, m)] BY <1>1, <2>4
  <2>6. At(1, m) = 33 - i BY AllSwaps
  <2> HIDE DEF a, b, c, d, e, j, k, l, m
  <2>. QED BY <2>1, <2>2, <2>3, <2>4, <2>5, <2>6
<1>8. e = [i \in DOMAIN d |-> e[i]]
  <2> HIDE DEF d
  <2> QED
    BY DEF SwapGroups
<1>9. DOMAIN d = 1..32
  BY <1>4 DEF Word
<1> HIDE DEF e, d
<1>. QED BY <1>6, <1>7, <1>8, <1>9

-----------------------------------------------------------------------------
(* The layout of what is hashed *)

\* The shifts of the exit codes (uint32(..) << 24) and of the lengths
\* (uint16(..) << 8) give the prover's little-endian bytes, for values of one byte.
LEMMA Packing ==
  ASSUME NEW n \in 0..255
  PROVE  /\ ShiftLeft(Uint(n, 4), 3) = LittleEndian(n, 4)
         /\ ShiftLeft(Uint(n, 2), 1) = LittleEndian(n, 2)
         /\ LittleEndian(n, 4)[1] = Byte(n)
BY DEF ShiftLeft, Uint, LittleEndian, Weight, Byte

\* reverseByteOrderUint32 gives the prover's little-endian bytes of a pc.
LEMMA Reversing ==
  ASSUME NEW n \in Nat
  PROVE  reverseByteOrderUint32(Uint(n, 4)) = LittleEndian(n, 4)
BY DEF reverseByteOrderUint32, SwapGroups, Uint, LittleEndian, Weight

\* A tag in front of one field, as taggedStruct packs them.
LEMMA Pair ==
  ASSUME NEW a, NEW b
  PROVE  <<a>> \o <<b>> = <<a, b>>
<1> DEFINE s == <<a>> \o <<b>>  t == <<a, b>>
<1>1. <<a>> \in Seq({a, b}) /\ <<b>> \in Seq({a, b})
  OBVIOUS
<1>2. s \in Seq({a, b}) /\ t \in Seq({a, b})
  BY <1>1
<1>3. Len(s) = Len(t) /\ Len(s) = 2 /\ s[1] = t[1] /\ s[2] = t[2]
  OBVIOUS
<1> HIDE DEF s, t
<1>4. \A i \in 1..Len(s) : s[i] = t[i]
  BY <1>3
<1>5. Len(s) = Len(t)
  BY <1>3
<1>6. s = t
  BY <1>2, <1>4, <1>5, SeqEqual
<1>. QED BY <1>6 DEF s, t

\* A tag in front of two fields.
LEMMA Triple ==
  ASSUME NEW a, NEW b, NEW c
  PROVE  <<a>> \o <<b, c>> = <<a, b, c>>
<1> DEFINE s == <<a>> \o <<b, c>>  t == <<a, b, c>>
<1>1. <<a>> \in Seq({a, b, c}) /\ <<b, c>> \in Seq({a, b, c})
  OBVIOUS
<1>2. s \in Seq({a, b, c}) /\ t \in Seq({a, b, c})
  BY <1>1
<1>3. Len(s) = Len(t) /\ Len(s) = 3 /\ s[1] = t[1] /\ s[2] = t[2] /\ s[3] = t[3]
  OBVIOUS
<1> HIDE DEF s, t
<1>4. \A i \in 1..Len(s) : s[i] = t[i]
  BY <1>3
<1>5. Len(s) = Len(t)
  BY <1>3
<1>6. s = t
  BY <1>2, <1>4, <1>5, SeqEqual
<1>. QED BY <1>6 DEF s, t

\* A function on 1..n is a sequence of length n.
LEMMA FunctionIsSeq ==
  ASSUME NEW S, NEW n \in Nat, NEW f \in [1..n -> S]
  PROVE  f \in Seq(S) /\ Len(f) = n
OBVIOUS

\* FunctionIsSeq for a uint32.
LEMMA FourIsSeq ==
  ASSUME NEW S, NEW f, f \in [1..4 -> S]
  PROVE  f \in Seq(S) /\ Len(f) = 4
BY FunctionIsSeq, 4 \in Nat, Zenon

\* FunctionIsSeq for a uint16.
LEMMA TwoIsSeq ==
  ASSUME NEW S, NEW f, f \in [1..2 -> S]
  PROVE  f \in Seq(S) /\ Len(f) = 2
BY FunctionIsSeq, 2 \in Nat, Zenon

\* Little-endian integers are sequences of as many bytes as they are wide.
LEMMA LittleEndianSeq ==
  ASSUME NEW S, \A k \in 0..255 : Byte(k) \in S, NEW n \in Nat
  PROVE  /\ LittleEndian(n, 4) \in Seq(S) /\ Len(LittleEndian(n, 4)) = 4
         /\ LittleEndian(n, 2) \in Seq(S) /\ Len(LittleEndian(n, 2)) = 2
<1>1. \A i \in 1..4 : (n \div Weight[i]) % 256 \in 0..255
  BY DEF Weight
<1>2. LittleEndian(n, 4) \in [1..4 -> S] /\ LittleEndian(n, 2) \in [1..2 -> S]
  BY <1>1 DEF LittleEndian
<1>. QED BY <1>2, FourIsSeq, TwoIsSeq

\* ReceiptClaimLib.digest hashes what the prover hashes, and each field has its
\* place in it.
LEMMA ClaimLayout ==
  ASSUME NEW c, c.exitCode.system \in Halted..SystemSplit, c.exitCode.user \in 0..255
  PROVE  /\ ReceiptClaimDigest(c) = Struct("risc0.ReceiptClaim",
              <<c.input, c.preStateDigest, c.postStateDigest, c.output>>,
              LittleEndian(c.exitCode.system, 4) \o LittleEndian(c.exitCode.user, 4))
         /\ ReceiptClaimDigest(c).sha256[2] = c.input
         /\ ReceiptClaimDigest(c).sha256[3] = c.preStateDigest
         /\ ReceiptClaimDigest(c).sha256[4] = c.postStateDigest
         /\ ReceiptClaimDigest(c).sha256[5] = c.output
         /\ ReceiptClaimDigest(c).sha256[6] = Byte(c.exitCode.system)
         /\ ReceiptClaimDigest(c).sha256[10] = Byte(c.exitCode.user)
<1> DEFINE down == <<c.input, c.preStateDigest, c.postStateDigest, c.output>>
           head == <<Tag("risc0.ReceiptClaim"), c.input, c.preStateDigest,
                     c.postStateDigest, c.output>>
           sys == LittleEndian(c.exitCode.system, 4)
           user == LittleEndian(c.exitCode.user, 4)
           len == LittleEndian(4, 2)
           S == {head[i] : i \in 1..5} \cup {Byte(k) : k \in 0..255}
<1>1. /\ c.exitCode.system \in 0..255 /\ c.exitCode.system \in Nat
      /\ c.exitCode.user \in Nat /\ 4 \in 0..255 /\ 4 \in Nat
  BY DEF Halted, SystemSplit
<1>2. /\ ShiftLeft(Uint(c.exitCode.system, 4), 3) = sys
      /\ ShiftLeft(Uint(c.exitCode.user, 4), 3) = user
      /\ ShiftLeft(Uint(4, 2), 1) = len
  BY <1>1, Packing
<1>3. ReceiptClaimDigest(c) = Sha256(head \o sys \o user \o len)
  <2> HIDE DEF sys, user, len
  <2>. QED BY <1>2 DEF ReceiptClaimDigest
<1>4. \A k \in 0..255 : Byte(k) \in S
  OBVIOUS
<1>5. head \in Seq(S) /\ Len(head) = 5
  OBVIOUS
<1>6. sys \in Seq(S) /\ Len(sys) = 4 /\ user \in Seq(S) /\ Len(user) = 4 /\ len \in Seq(S)
  <2> HIDE DEF S
  <2>. QED BY <1>1, <1>4, LittleEndianSeq
<1>7. head = <<Tag("risc0.ReceiptClaim")>> \o down
  OBVIOUS
<1>8. Len(down) = 4
  OBVIOUS
<1>9. sys[1] = Byte(c.exitCode.system) /\ user[1] = Byte(c.exitCode.user)
  BY <1>1, Packing
<1>10. /\ head[2] = c.input /\ head[3] = c.preStateDigest
       /\ head[4] = c.postStateDigest /\ head[5] = c.output
  OBVIOUS
<1>11. ReceiptClaimDigest(c) = Struct("risc0.ReceiptClaim", down, sys \o user)
  <2>1. Struct("risc0.ReceiptClaim", down, sys \o user)
          = Sha256((<<Tag("risc0.ReceiptClaim")>> \o down) \o (sys \o user) \o len)
    BY <1>8 DEF Struct
  <2> HIDE DEF head, down, sys, user, len, S
  <2>2. head \in Seq(S) /\ sys \in Seq(S) /\ user \in Seq(S) /\ len \in Seq(S)
    BY <1>6, <1>5
  <2>3. head \o sys \o user \o len = head \o (sys \o user) \o len
    BY <2>2
  <2>. QED BY <2>1, <2>3, <1>3, <1>7
<1> DEFINE all == head \o sys \o user \o len
<1> HIDE DEF head, down, sys, user, len, S
<1>12. head \in Seq(S) /\ sys \in Seq(S) /\ user \in Seq(S) /\ len \in Seq(S)
  BY <1>6, <1>5
<1>13. \A i \in 1..Len(head) : all[i] = head[i]
  BY <1>12 DEF all
<1>14. \A i \in 1..Len(sys) : all[Len(head) + i] = sys[i]
  <2> DEFINE last == user \o len  rest == sys \o last
  <2>1. last \in Seq(S) /\ rest \in Seq(S)
    BY <1>12
  <2>2. all = head \o rest
    <3>1. all = (head \o sys) \o last
      <4>1. head \o sys \in Seq(S)
        BY <1>12
      <4>. QED BY <1>12, <4>1 DEF all
    <3>2. (head \o sys) \o last = head \o (sys \o last)
      <4> HIDE DEF last
      <4>. QED BY <1>12, <2>1
    <3>. QED BY <3>1, <3>2
  <2>3. \A i \in 1..Len(sys) : rest[i] = sys[i]
    <3> HIDE DEF last
    <3>. QED BY <1>12, <2>1
  <2>4. Len(sys) \in Nat /\ Len(rest) \in Nat /\ Len(sys) <= Len(rest)
    <3> HIDE DEF last
    <3>. QED BY <1>12, <2>1
  <2>5. \A i \in 1..Len(rest) : all[Len(head) + i] = rest[i]
    <3> HIDE DEF rest, all
    <3>. QED BY <1>12, <2>1, <2>2
  <2> HIDE DEF rest, last, all
  <2>. QED BY <2>3, <2>4, <2>5
<1>15. \A i \in 1..Len(user) : all[Len(head) + Len(sys) + i] = user[i]
  BY <1>12 DEF all
<1>16. ReceiptClaimDigest(c).sha256 = all
  BY <1>3 DEF Sha256
<1> HIDE DEF all
<1>17. all[2] = head[2] /\ all[3] = head[3] /\ all[4] = head[4] /\ all[5] = head[5]
  BY <1>13, <1>5
<1>18. all[6] = sys[1] /\ all[10] = user[1]
  BY <1>14, <1>15, <1>6, <1>5
<1>19. ReceiptClaimDigest(c) = Struct("risc0.ReceiptClaim",
              <<c.input, c.preStateDigest, c.postStateDigest, c.output>>,
              LittleEndian(c.exitCode.system, 4) \o LittleEndian(c.exitCode.user, 4))
  BY <1>11 DEF down, sys, user
<1>. QED BY <1>9, <1>10, <1>16, <1>17, <1>18, <1>19, Zenon

\* SystemStateLib.digest hashes what the prover hashes, the root in second place.
LEMMA StateLayout ==
  ASSUME NEW root, NEW pc \in Nat
  PROVE  /\ SystemStateDigest([pc |-> pc, merkleRoot |-> root]) = State(root, pc)
         /\ State(root, pc).sha256[2] = root
<1> DEFINE head == <<Tag("risc0.SystemState"), root>>
           data == LittleEndian(pc, 4)
           len == LittleEndian(1, 2)
           S == {head[1], head[2]} \cup {Byte(k) : k \in 0..255}
<1>1. State(root, pc) = Sha256(head \o data \o len)
  <2>1. <<Tag("risc0.SystemState")>> \o <<root>> = head
    BY Pair
  <2>2. Len(<<root>>) = 1
    OBVIOUS
  <2> HIDE DEF head, data
  <2>. QED BY <2>1, <2>2 DEF State, Struct, data
<1>2. SystemStateDigest([pc |-> pc, merkleRoot |-> root]) = Sha256(head \o data \o len)
  <2>1. ShiftLeft(Uint(1, 2), 1) = len /\ reverseByteOrderUint32(Uint(pc, 4)) = data
    BY Packing, Reversing
  <2> HIDE DEF data, len
  <2>. QED BY <2>1 DEF SystemStateDigest
<1>3. \A k \in 0..255 : Byte(k) \in S
  OBVIOUS
<1>4. head \in Seq(S) /\ Len(head) = 2 /\ head[2] = root
  OBVIOUS
<1>5. data \in Seq(S) /\ len \in Seq(S)
  <2> HIDE DEF S
  <2>. QED BY <1>3, LittleEndianSeq
<1> DEFINE all == head \o data \o len
<1> HIDE DEF head, data, len, S
<1>6. head \in Seq(S)
  BY <1>4
<1>7. \A i \in 1..Len(head) : all[i] = head[i]
  BY <1>5, <1>6 DEF all
<1>8. State(root, pc).sha256 = all
  BY <1>1 DEF Sha256
<1> HIDE DEF all
<1>9. all[2] = root
  BY <1>4, <1>7
<1>. QED BY <1>1, <1>2, <1>8, <1>9

\* The prover's digest of an output.
Out(j, a) == Struct("risc0.Output", <<j, a>>, <<>>)

\* OutputLib.digest hashes what the prover hashes, the journal's digest in second
\* and the assumptions' in third place.
LEMMA OutputLayout ==
  ASSUME NEW j, NEW a
  PROVE  /\ OutputDigest([journalDigest |-> j, assumptionsDigest |-> a]) = Out(j, a)
         /\ Out(j, a).sha256[2] = j /\ Out(j, a).sha256[3] = a
<1> DEFINE head == <<Tag("risc0.Output"), j, a>>
           len == LittleEndian(2, 2)
           S == {head[1], head[2], head[3]} \cup {Byte(k) : k \in 0..255}
<1>3. \A k \in 0..255 : Byte(k) \in S
  OBVIOUS
<1>4. head \in Seq(S) /\ Len(head) = 3 /\ head[2] = j /\ head[3] = a
  OBVIOUS
<1>5. len \in Seq(S)
  <2> HIDE DEF S
  <2>. QED BY <1>3, LittleEndianSeq
<1>1. Out(j, a) = Sha256(head \o len)
  <2>1. <<Tag("risc0.Output")>> \o <<j, a>> = head
    BY Triple
  <2>3. head \o <<>> = head
    <3> HIDE DEF head, S
    <3>. QED BY <1>4, ConcatEmptySeq
  <2>2. Len(<<j, a>>) = 2
    OBVIOUS
  <2> HIDE DEF head, len
  <2>. QED BY <2>1, <2>2, <2>3 DEF Out, Struct, len
<1>2. OutputDigest([journalDigest |-> j, assumptionsDigest |-> a]) = Sha256(head \o len)
  <2>1. ShiftLeft(Uint(2, 2), 1) = len
    BY Packing
  <2> HIDE DEF len
  <2>. QED BY <2>1 DEF OutputDigest
<1> DEFINE all == head \o len
<1> HIDE DEF head, len, S
<1>6. head \in Seq(S)
  BY <1>4
<1>7. \A i \in 1..Len(head) : all[i] = head[i]
  BY <1>5, <1>6 DEF all
<1>8. Out(j, a).sha256 = all
  <2>1. \A items : Sha256(items).sha256 = items
    BY DEF Sha256
  <2>. QED BY <1>1, <2>1 DEF all
<1> HIDE DEF all
<1>9. all[2] = j /\ all[3] = a
  BY <1>4, <1>7
<1>. QED BY <1>1, <1>2, <1>8, <1>9

\* ReceiptClaimLib.digest binds: claims with one digest agree in every field.
THEOREM ClaimBinding ==
  ASSUME NEW c, c.exitCode.system \in Halted..SystemSplit, c.exitCode.user \in 0..255,
         NEW d, d.exitCode.system \in Halted..SystemSplit, d.exitCode.user \in 0..255,
         ReceiptClaimDigest(c) = ReceiptClaimDigest(d)
  PROVE  /\ c.input = d.input
         /\ c.preStateDigest = d.preStateDigest /\ c.postStateDigest = d.postStateDigest
         /\ c.output = d.output
         /\ c.exitCode.system = d.exitCode.system /\ c.exitCode.user = d.exitCode.user
<1>1. Byte(c.exitCode.system) = Byte(d.exitCode.system)
      /\ Byte(c.exitCode.user) = Byte(d.exitCode.user)
  BY ClaimLayout
<1>2. \A m, n : Byte(m) = Byte(n) => m = n
  BY DEF Byte
<1>. QED BY <1>1, <1>2, ClaimLayout

\* splitDigest, which reverses the whole digest before it cuts it, gives the
\* halves the circuit has, each reversed on its own.
THEOREM SplitAgrees ==
  ASSUME NEW word
  PROVE  SplitDigest(Bytes(word)) = Halves(word)
<1> DEFINE v == Bytes(word)  r == reverseByteOrderUint256(v)
<1>1. Word(v)
  BY DEF Word, Bytes
<1>2. r = [i \in 1..32 |-> v[33 - i]]
  BY <1>1, BytesReversed
<1>3. SubSeq(r, 17, 32) = [i \in 1..16 |-> v[17 - i]]
  BY <1>2
<1>4. SubSeq(r, 1, 16) = [i \in 1..16 |-> v[33 - i]]
  BY <1>2
<1>5. Reverse(SubSeq(v, 1, 16)) = [i \in 1..16 |-> v[17 - i]]
  BY DEF Reverse
<1>6. Reverse(SubSeq(v, 17, 32)) = [i \in 1..16 |-> v[33 - i]]
  BY DEF Reverse
<1>. QED BY <1>3, <1>4, <1>5, <1>6 DEF SplitDigest, Halves

-----------------------------------------------------------------------------
(* Claims of receipts *)

\* The exit codes of a receipt fit the types ReceiptClaim gives them.
LEMMA ExitsTyped ==
  ASSUME NEW r \in Receipt
  PROVE  /\ r.exit.system \in Halted..SystemSplit /\ r.exit.user \in 0..255
         /\ ClaimOf(r).exitCode = r.exit
BY ProverAssumption DEF Receipt, ClaimOf

\* ReceiptClaimLib.digest of a receipt's claim is the prover's digest of it.
LEMMA Meets ==
  ASSUME NEW r \in Receipt
  PROVE  ReceiptClaimDigest(ClaimOf(r)) = Digest(r)
<1> DEFINE c == ClaimOf(r)
<1>1. c.exitCode.system \in Halted..SystemSplit /\ c.exitCode.user \in 0..255
  BY ExitsTyped
<1>2. Digest(r) = Struct("risc0.ReceiptClaim",
          <<c.input, c.preStateDigest, c.postStateDigest, c.output>>,
          LittleEndian(c.exitCode.system, 4) \o LittleEndian(c.exitCode.user, 4))
  BY DEF Digest
<1> HIDE DEF c
<1>3. ReceiptClaimDigest(c) = Digest(r)
  BY <1>1, <1>2, ClaimLayout
<1>. QED BY <1>3 DEF c

\* Two guests with one image ID are one guest.
LEMMA ImageIdBinds ==
  ASSUME NEW g, NEW h, ImageId(g) = ImageId(h)
  PROVE  g = h
<1> DEFINE x == [memory |-> g]  y == [memory |-> h]
<1>1. State(x, ENTRY) = State(y, ENTRY)
  BY DEF ImageId
<1>2. ENTRY \in Nat
  BY DEF ENTRY
<1>3. x = y
  <2> HIDE DEF x, y
  <2>1. State(x, ENTRY).sha256[2] = x
    BY <1>2, StateLayout
  <2>2. State(y, ENTRY).sha256[2] = y
    BY <1>2, StateLayout
  <2>. QED BY <1>1, <2>1, <2>2
<1>. QED BY <1>3

\* ReceiptClaimLib.ok describes only runs that halted well, without assumptions,
\* of the guest of that image ID, with that journal.
LEMMA OkBinds ==
  ASSUME NEW r \in Receipt, NEW guest, NEW journal,
         ReceiptClaimDigest(Ok(ImageId(guest), JournalDigest(journal))) = Digest(r)
  PROVE  r.guest = guest /\ r.journal = journal /\ RunOk(r)
<1> DEFINE ok == Ok(ImageId(guest), JournalDigest(journal))  c == ClaimOf(r)
           out == OutputDigest([journalDigest |-> JournalDigest(journal),
                                assumptionsDigest |-> ZERO])
<1>1. /\ c.exitCode.system \in Halted..SystemSplit /\ c.exitCode.user \in 0..255
      /\ c.exitCode = r.exit
  BY ExitsTyped
<1>2. /\ ok.exitCode.system \in Halted..SystemSplit /\ ok.exitCode.user \in 0..255
      /\ ok.exitCode.system = Halted /\ ok.exitCode.user = 0
      /\ ok.preStateDigest = ImageId(guest) /\ ok.output = out
  BY DEF Ok, Halted, SystemSplit
<1>3. ReceiptClaimDigest(c) = ReceiptClaimDigest(ok)
  BY Meets
<1>4. c.preStateDigest = ImageId(r.guest)
  BY DEF ClaimOf
<1>5. c.output = IF r.exit.system = SystemSplit THEN ZERO
                 ELSE Out(JournalDigest(r.journal), r.assumptions)
  BY DEF ClaimOf, Out
<1> HIDE DEF ok, c, out
<1>6. /\ c.preStateDigest = ok.preStateDigest /\ c.output = ok.output
      /\ c.exitCode.system = ok.exitCode.system /\ c.exitCode.user = ok.exitCode.user
  BY <1>1, <1>2, <1>3, ClaimBinding
<1>7. r.guest = guest
  BY <1>2, <1>4, <1>6, ImageIdBinds
<1>8. r.exit.system = Halted /\ r.exit.user = 0
  BY <1>1, <1>2, <1>6
<1>9. r.exit = [system |-> Halted, user |-> 0]
  BY <1>8, ProverAssumption DEF Receipt
<1>10. out = Out(JournalDigest(r.journal), r.assumptions)
  BY <1>2, <1>5, <1>6, <1>8 DEF Halted, SystemSplit
<1>11. JournalDigest(journal) = JournalDigest(r.journal) /\ ZERO = r.assumptions
  <2>1. out.sha256[2] = JournalDigest(journal) /\ out.sha256[3] = ZERO
    <3>1. out = Out(JournalDigest(journal), ZERO)
      BY OutputLayout DEF out
    <3>. QED BY <3>1, OutputLayout
  <2>2. out.sha256[2] = JournalDigest(r.journal) /\ out.sha256[3] = r.assumptions
    <3> DEFINE j == JournalDigest(r.journal)  a == r.assumptions
    <3>1. Out(j, a).sha256[2] = j /\ Out(j, a).sha256[3] = a
      <4> HIDE DEF j, a
      <4>. QED BY OutputLayout
    <3>. QED BY <1>10, <3>1
  <2>. QED BY <2>1, <2>2
<1>12. journal = r.journal
  <2>1. JournalDigest(journal).journal = JournalDigest(r.journal).journal
    BY <1>11
  <2>. QED BY <2>1 DEF JournalDigest
<1>. QED BY <1>7, <1>9, <1>11, <1>12 DEF RunOk

-----------------------------------------------------------------------------
(* Public signals and seals *)

\* The first half of a split digest already determines the digest.
LEMMA HalvesBind ==
  ASSUME NEW v, NEW w, Halves(v)[1] = Halves(w)[1]
  PROVE  v = w
<1>1. \A x : Reverse(SubSeq(Bytes(x), 1, 16))[16] = [word |-> x, index |-> 1]
  BY DEF Reverse, Bytes
<1>2. [word |-> v, index |-> 1].word = [word |-> w, index |-> 1].word
  BY <1>1 DEF Halves
<1>. QED BY <1>2

\* Where the halves stand among the five signals of _verifyIntegrity.
LEMMA FiveSignals ==
  ASSUME NEW a, NEW b, NEW c, NEW d, NEW e
  PROVE  /\ (<<a, b>> \o <<c, d>> \o <<e>>)[1] = a
         /\ (<<a, b>> \o <<c, d>> \o <<e>>)[3] = c
OBVIOUS

\* The five signals for a control root, a claim digest and a control ID.
Signals(v, w, e) == Halves(v) \o Halves(w) \o <<e>>

\* The first and the third signal are the first halves of the root and the claim.
LEMMA SignalsOfHalves ==
  ASSUME NEW v, NEW w, NEW e
  PROVE  /\ Signals(v, w, e)[1] = Halves(v)[1]
         /\ Signals(v, w, e)[3] = Halves(w)[1]
<1> DEFINE a == Reverse(SubSeq(Bytes(v), 1, 16))  b == Reverse(SubSeq(Bytes(v), 17, 32))
           c == Reverse(SubSeq(Bytes(w), 1, 16))  d == Reverse(SubSeq(Bytes(w), 17, 32))
<1>1. Halves(v) = <<a, b>> /\ Halves(w) = <<c, d>>
  BY DEF Halves
<1> HIDE DEF a, b, c, d
<1>2. Halves(v)[1] = a /\ Halves(w)[1] = c
  BY <1>1
<1>. QED BY <1>1, <1>2, FiveSignals DEF Signals

\* The public signals of _verifyIntegrity are those of a receipt's seal only if
\* the verifier's release proved it and it has that claim digest.
LEMMA SignalsBind ==
  ASSUME NEW release, NEW digest, NEW r,
         PublicSignals(ControlID(release), digest) = SignalsOf(r)
  PROVE  release = r.release /\ digest = Digest(r)
<1> DEFINE root == ControlRoot(release)  root2 == ControlRoot(r.release)
           claim2 == Digest(r)
           bn == ControlID(release).bn254  bn2 == Reverse(Bytes(Bn254ControlId(r.release)))
<1>1. PublicSignals(ControlID(release), digest) = Signals(root, digest, bn)
  <2>1. SplitDigest(ControlID(release).root) = Halves(root)
    BY SplitAgrees DEF ControlID
  <2>2. SplitDigest(Bytes(digest)) = Halves(digest)
    BY SplitAgrees
  <2> HIDE DEF root, bn
  <2>. QED BY <2>1, <2>2 DEF PublicSignals, Signals, bn
<1>2. SignalsOf(r) = Signals(root2, claim2, bn2)
  BY DEF SignalsOf, Signals
<1> HIDE DEF root, bn, root2, claim2, bn2
<1>3. Halves(root)[1] = Halves(root2)[1] /\ Halves(digest)[1] = Halves(claim2)[1]
  <2>1. /\ Signals(root, digest, bn)[1] = Halves(root)[1]
        /\ Signals(root, digest, bn)[3] = Halves(digest)[1]
    BY SignalsOfHalves
  <2>2. /\ Signals(root2, claim2, bn2)[1] = Halves(root2)[1]
        /\ Signals(root2, claim2, bn2)[3] = Halves(claim2)[1]
    BY SignalsOfHalves
  <2>. QED BY <1>1, <1>2, <2>1, <2>2
<1>4. root = root2 /\ digest = claim2
  BY <1>3, HalvesBind
<1>5. ControlRoot(release).controlRoot = ControlRoot(r.release).controlRoot
  BY <1>4 DEF root, root2
<1>. QED BY <1>4, <1>5 DEF ControlRoot, claim2

\* seal[4:] of a selector with one thing behind it is that thing.
LEMMA Rest ==
  ASSUME NEW S, NEW s \in Seq(S), NEW x \in S
  PROVE  SubSeq(s \o <<x>>, Len(s) + 1, Len(s \o <<x>>)) = <<x>>
<1>1. Len(s \o <<x>>) = Len(s) + 1 /\ (s \o <<x>>)[Len(s) + 1] = x
  OBVIOUS
<1> DEFINE all == s \o <<x>>  n == Len(s) + 1
<1>2. n \in Nat /\ all[n] = x /\ Len(all) = n
  BY <1>1, LenProperties
<1> HIDE DEF all, n
<1>3. SubSeq(all, n, n) \in Seq(S) /\ Len(SubSeq(all, n, n)) = 1
      /\ SubSeq(all, n, n)[1] = x
  BY <1>2, SubSeqProperties
<1>4. SubSeq(all, n, n) = <<x>>
  <2> DEFINE one == SubSeq(all, n, n)  two == <<x>>
  <2>1. two \in Seq(S) /\ Len(two) = 1 /\ two[1] = x
    OBVIOUS
  <2> HIDE DEF one, two
  <2>2. one \in Seq(S) /\ Len(one) = 1 /\ one[1] = x
    BY <1>3 DEF one
  <2>3. Len(one) = Len(two) /\ \A i \in 1..Len(one) : one[i] = two[i]
    BY <2>1, <2>2
  <2>4. one = two
    BY <2>1, <2>2, <2>3, SeqEqual
  <2>. QED BY <2>4 DEF one, two
<1>. QED BY <1>2, <1>4 DEF all, n

\* What encode makes of a receipt: the release's selector, and the proof.
LEMMA EncodeParts ==
  ASSUME NEW r
  PROVE  /\ SubSeq(Encode(r), 1, 4) = SubSeq(Bytes(ParametersDigest(HostRelease)), 1, 4)
         /\ SubSeq(Encode(r), 5, Len(Encode(r))) = <<[proof |-> r]>>
<1> DEFINE seal == Encode(r)
           word == ParametersDigest(HostRelease)  proof == [proof |-> r]
           head == SubSeq(Bytes(word), 1, 4)
           S == {Bytes(word)[i] : i \in 1..4} \cup {proof}
<1>1. head \in [1..4 -> S]
  <2>1. head = [i \in 1..4 |-> Bytes(word)[i]]
    <3> HIDE DEF word
    <3>. QED BY DEF Bytes
  <2> HIDE DEF head, word, proof
  <2>. QED BY <2>1
<1>2. seal = head \o <<proof>> /\ proof \in S
  BY DEF Encode
<1> HIDE DEF head, proof, S, seal, word
<1>3. head \in Seq(S) /\ Len(head) = 4
  BY <1>1, FourIsSeq
<1>4. SubSeq(head \o <<proof>>, Len(head) + 1, Len(head \o <<proof>>)) = <<proof>>
  BY <1>2, <1>3, Rest
<1>5. Len(head) + 1 = 5
  BY <1>3
<1>6. SubSeq(seal, 1, 4) = head
  BY <1>2, <1>3
<1>. QED BY <1>2, <1>4, <1>5, <1>6 DEF proof, head, seal, word

\* The Groth16 verifier accepts what encode made of a receipt only for the guest
\* and the journal the receipt is about, and only if its run ended well and its
\* release is the verifier's.
LEMMA EncodeBinds ==
  ASSUME NEW release \in Releases, NEW r \in Receipt, NEW guest, NEW journal,
         Verify(Groth16(release), Encode(r), guest, journal)
  PROVE  r.guest = guest /\ r.journal = journal /\ RunOk(r) /\ r.release = release
<1> DEFINE seal == Encode(r)  rest == SubSeq(seal, 5, Len(seal))
           digest == ReceiptClaimDigest(Ok(ImageId(guest), JournalDigest(journal)))
<1>1. verifyProof(rest, PublicSignals(ControlID(release), digest))
  BY DEF Verify, VerifyIntegrity, Groth16
<1>2. rest = <<[proof |-> r]>>
  BY EncodeParts
<1> HIDE DEF rest, seal, digest
<1>3. PublicSignals(ControlID(release), digest) = SignalsOf(r)
  <2>1. PICK i \in DOMAIN rest : PublicSignals(ControlID(release), digest)
                                   = SignalsOf(rest[i].proof)
    BY <1>1 DEF verifyProof
  <2>. QED BY <2>1, <1>2
<1>4. release = r.release /\ digest = Digest(r)
  BY <1>3, SignalsBind
<1>. QED BY <1>4, OkBinds DEF digest

\* So does the mock verifier what the FFI program made of it in dev mode, whatever
\* the release.
LEMMA FakeSealBinds ==
  ASSUME NEW r \in Receipt, NEW guest, NEW journal,
         Verify(Mock, FakeSeal(r), guest, journal)
  PROVE  r.guest = guest /\ r.journal = journal /\ RunOk(r)
<1> DEFINE seal == FakeSeal(r)  rest == SubSeq(seal, 5, Len(seal))
           digest == ReceiptClaimDigest(Ok(ImageId(guest), JournalDigest(journal)))
<1>1. rest = Bytes(digest)
  BY DEF Verify, VerifyIntegrity, Mock
<1>2. rest[1] = Bytes(Digest(r))[1]
  <2> DEFINE bytes == Bytes(Digest(r))  zeros == [i \in 1..4 |-> Byte(0)]
  <2>1. seal = zeros \o bytes
    BY DEF FakeSeal
  <2>. QED BY <2>1 DEF Bytes
<1>4. \A w : Bytes(w)[1].word = w
  BY DEF Bytes
<1> HIDE DEF rest, digest
<1>3. digest = Digest(r)
  BY <1>1, <1>2, <1>4
<1>. QED BY <1>3, OkBinds DEF digest

-----------------------------------------------------------------------------
(* Honest seals *)

\* ReceiptClaimLib.ok gives an honest run's claim the digest the prover gives it.
LEMMA OkMeets ==
  ASSUME NEW r \in Receipt, RunOk(r)
  PROVE  ReceiptClaimDigest(Ok(ImageId(r.guest), JournalDigest(r.journal))) = Digest(r)
<1> DEFINE ok == Ok(ImageId(r.guest), JournalDigest(r.journal))  c == ClaimOf(r)
<1>1. SYSTEM_STATE_ZERO_DIGEST = State(ZERO, 0)
  <2>1. reverseByteOrderUint32(Uint(0, 4)) = LittleEndian(0, 4)
    BY Reversing
  <2>2. LittleEndian(0, 4) = Uint(0, 4)
    BY DEF LittleEndian, Uint, Weight, Byte
  <2>3. SystemStateDigest([pc |-> 0, merkleRoot |-> ZERO]) = State(ZERO, 0)
    BY StateLayout
  <2>. QED BY <2>1, <2>2, <2>3 DEF SystemStateDigest, SYSTEM_STATE_ZERO_DIGEST
<1>2. r.exit.system = Halted /\ r.exit.user = 0 /\ r.assumptions = ZERO
  BY DEF RunOk
<1>3. ok.output = Out(JournalDigest(r.journal), ZERO)
  BY OutputLayout DEF Ok
<1>4. c.output = Out(JournalDigest(r.journal), ZERO)
  BY <1>2 DEF ClaimOf, Out, Halted, SystemSplit
<1>5. /\ c.input = ok.input /\ c.preStateDigest = ok.preStateDigest
      /\ c.postStateDigest = ok.postStateDigest
      /\ c.exitCode.system = ok.exitCode.system /\ c.exitCode.user = ok.exitCode.user
  BY <1>1, <1>2 DEF ClaimOf, Ok
<1>6. c.output = ok.output
  BY <1>3, <1>4
<1>7. \A d : ReceiptClaimDigest(d) =
        Sha256(<<Tag("risc0.ReceiptClaim"), d.input, d.preStateDigest,
                 d.postStateDigest, d.output>>
               \o ShiftLeft(Uint(d.exitCode.system, 4), 3)
               \o ShiftLeft(Uint(d.exitCode.user, 4), 3)
               \o ShiftLeft(Uint(4, 2), 1))
  BY DEF ReceiptClaimDigest
<1> HIDE DEF ok, c
<1>8. ReceiptClaimDigest(ok) = ReceiptClaimDigest(c)
  BY <1>5, <1>6, <1>7
<1>. QED BY <1>8, Meets DEF ok, c

\* taggedListCons and the prover hash a list's head and tail alike.
LEMMA ConsMeets ==
  ASSUME NEW name, NEW head, NEW tail
  PROVE  taggedListCons(Tag(name), head, tail) = Struct(name, <<head, tail>>, <<>>)
<1>1. Len(<<head, tail>>) = 2
  OBVIOUS
<1>2. reverseByteOrderUint16(Uint(2, 2)) = LittleEndian(2, 2)
  BY DEF reverseByteOrderUint16, SwapGroups, Uint, LittleEndian, Weight
<1>. QED BY <1>1, <1>2 DEF taggedListCons, taggedStruct, Struct

\* A list as the prover hashes it.
Folded(name, list) ==
  FoldRight(LAMBDA point, points : Struct(name, <<point, points>>, <<>>), list, ZERO)

\* So taggedList hashes any list as the prover does.
LEMMA ListMeets ==
  ASSUME NEW name, NEW list
  PROVE  taggedList(Tag(name), list) = Folded(name, list)
<1> DEFINE
      sol(f) == [s \in SUBSET DOMAIN list |->
                   IF s = {} THEN ZERO
                   ELSE taggedListCons(Tag(name), list[Min(s)], f[s \ {Min(s)}])]
      ours(f) == [s \in SUBSET DOMAIN list |->
                    IF s = {} THEN ZERO
                    ELSE Struct(name, <<list[Min(s)], f[s \ {Min(s)}]>>, <<>>)]
<1>1. \A f : sol(f) = ours(f)
  BY ConsMeets
<1>2. taggedList(Tag(name), list) = (CHOOSE f : f = sol(f))[DOMAIN list]
  BY Zenon DEF taggedList, FoldRight, MapThenFoldSet
<1>3. Folded(name, list) = (CHOOSE f : f = ours(f))[DOMAIN list]
  BY Zenon DEF Folded, FoldRight, MapThenFoldSet
<1> HIDE DEF sol, ours
<1>4. \A f : f = sol(f) <=> f = ours(f)
  BY <1>1
<1>5. (CHOOSE f : f = sol(f)) = (CHOOSE f : f = ours(f))
  BY <1>4, Zenon
<1>. QED BY <1>2, <1>3, <1>5, Zenon

\* The constants of ControlID.sol are the release's, the second one reversed, and
\* the constructor reverses it back.
LEMMA ControlReversed ==
  ASSUME NEW release
  PROVE  /\ ControlID(release).root = Bytes(ControlRoot(release))
         /\ ControlID(release).bn254 = Reverse(Bytes(Bn254ControlId(release)))
         /\ reverseByteOrderUint256(ControlID(release).bn254)
              = Bytes(Bn254ControlId(release))
<1> DEFINE id == Bn254ControlId(release)  v == Reverse(Bytes(id))
<1>1. /\ ControlID(release).root = Bytes(ControlRoot(release))
      /\ ControlID(release).bn254 = v
  BY DEF ControlID
<1> HIDE DEF id
<1>2. v = [i \in 1..32 |-> [word |-> id, index |-> 33 - i]]
  BY DEF Reverse, Bytes
<1> HIDE DEF v
<1>3. Word(v)
  BY <1>2 DEF Word
<1>4. reverseByteOrderUint256(v) = [i \in 1..32 |-> v[33 - i]]
  BY <1>3, BytesReversed
<1>5. reverseByteOrderUint256(v) = Bytes(id)
  <2>1. \A i \in 1..32 : 33 - i \in 1..32 /\ 33 - (33 - i) = i
    OBVIOUS
  <2>2. \A i \in 1..32 : v[33 - i] = [word |-> id, index |-> i]
    BY <1>2, <2>1
  <2>. QED BY <1>4, <2>2 DEF Bytes
<1>. QED BY <1>1, <1>5 DEF id, v

\* A tag in front of five fields.
LEMMA FiveDown ==
  ASSUME NEW t, NEW a, NEW b, NEW c, NEW d, NEW e
  PROVE  /\ <<t>> \o <<a, b, c, d, e>> = <<t, a, b, c, d, e>>
         /\ Len(<<a, b, c, d, e>>) = 5
<1> DEFINE s == <<t>> \o <<a, b, c, d, e>>  all == <<t, a, b, c, d, e>>
           S == {t, a, b, c, d, e}
<1>1. <<t>> \in Seq(S) /\ <<a, b, c, d, e>> \in Seq(S) /\ all \in Seq(S)
  OBVIOUS
<1>2. s \in Seq(S)
  <2> HIDE DEF S
  <2>. QED BY <1>1
<1>3. Len(s) = 6 /\ Len(all) = 6 /\ Len(<<a, b, c, d, e>>) = 5
  OBVIOUS
<1>4. s[1] = t /\ s[2] = a /\ s[3] = b /\ s[4] = c /\ s[5] = d /\ s[6] = e
  OBVIOUS
<1>5. /\ all[1] = t /\ all[2] = a /\ all[3] = b /\ all[4] = c
      /\ all[5] = d /\ all[6] = e
  OBVIOUS
<1>6. \A i \in 1..6 : i = 1 \/ i = 2 \/ i = 3 \/ i = 4 \/ i = 5 \/ i = 6
  OBVIOUS
<1> HIDE DEF s, all, S
<1>7. \A i \in 1..Len(s) : s[i] = all[i]
  BY <1>3, <1>4, <1>5, <1>6
<1>8. s = all
  BY <1>1, <1>2, <1>3, <1>7, SeqEqual
<1>. QED BY <1>3, <1>8 DEF s, all

\* The constructor of RiscZeroGroth16Verifier computes the selector that encode
\* puts in front of the proofs of its release.
LEMMA SelectorMeets ==
  ASSUME NEW release
  PROVE  Selector(ControlID(release), Key) = SubSeq(Bytes(ParametersDigest(release)), 1, 4)
<1> DEFINE
      name == "risc0_groth16.VerifyingKey"
      points == Folded("risc0_groth16.VerifyingKey.IC", Key.ic)
      down == <<Key.alpha, Key.beta, Key.gamma, Key.delta, points>>
      root == Bytes(ControlRoot(release))
      bn254 == Bytes(Bn254ControlId(release))
      head == <<Tag("risc0.Groth16ReceiptVerifierParameters")>>
<1>1. taggedList(Tag("risc0_groth16.VerifyingKey.IC"), Key.ic) = points
  BY ListMeets
<1> HIDE DEF points
<1>2. VerifierKeyDigest(Key) = Struct(name, down, <<>>)
  <2> DEFINE all == <<Tag(name), Key.alpha, Key.beta, Key.gamma, Key.delta, points>>
             len == LittleEndian(5, 2)
  <2>1. VerifierKeyDigest(Key) = Sha256(all \o len)
    <3>1. ShiftLeft(Uint(5, 2), 1) = len
      BY Packing
    <3> HIDE DEF len
    <3>. QED BY <1>1, <3>1 DEF VerifierKeyDigest
  <2>2. <<Tag(name)>> \o down = all /\ Len(down) = 5
    BY FiveDown
  <2>3. all \in Seq({all[i] : i \in 1..6})
    OBVIOUS
  <2>4. all \o <<>> = all
    <3> HIDE DEF all
    <3>. QED BY <2>3, ConcatEmptySeq
  <2> HIDE DEF all, down
  <2>. QED BY <2>1, <2>2, <2>4 DEF Struct
<1>3. /\ ControlID(release).root = root
      /\ reverseByteOrderUint256(ControlID(release).bn254) = bn254
  BY ControlReversed
<1>4. ShiftLeft(Uint(3, 2), 1) = LittleEndian(3, 2)
  BY Packing
<1>5. ParametersDigest(release)
        = Sha256(head \o root \o bn254 \o <<Struct(name, down, <<>>)>> \o LittleEndian(3, 2))
  BY Zenon DEF ParametersDigest, points, Folded
<1>6. Selector(ControlID(release), Key)
        = SubSeq(Bytes(Sha256(head \o ControlID(release).root
                              \o reverseByteOrderUint256(ControlID(release).bn254)
                              \o <<VerifierKeyDigest(Key)>> \o ShiftLeft(Uint(3, 2), 1))),
                 1, 4)
  BY Zenon DEF Selector
<1> HIDE DEF root, bn254, head, down
<1>. QED BY <1>2, <1>3, <1>4, <1>5, <1>6, Zenon

\* The public signals _verifyIntegrity computes for a receipt's claim are those of
\* its seal.
LEMMA SignalsMeet ==
  ASSUME NEW r
  PROVE  PublicSignals(ControlID(r.release), Digest(r)) = SignalsOf(r)
<1>1. SplitDigest(ControlID(r.release).root) = Halves(ControlRoot(r.release))
  BY SplitAgrees, ControlReversed
<1>2. SplitDigest(Bytes(Digest(r))) = Halves(Digest(r))
  BY SplitAgrees
<1>. QED BY <1>1, <1>2, ControlReversed, Zenon DEF PublicSignals, SignalsOf

\* seal[4:] of four bytes with a word's bytes behind them is those bytes.
LEMMA RestOfWord ==
  ASSUME NEW zero, NEW word
  PROVE  LET seal == [i \in 1..4 |-> zero] \o Bytes(word)
         IN  SubSeq(seal, 1, 4) = [i \in 1..4 |-> zero]
             /\ SubSeq(seal, 5, Len(seal)) = Bytes(word)
BY DEF Bytes

\* The verifier of the host's release accepts the seal of an honest run.
LEMMA EncodeAccepted ==
  ASSUME NEW r \in Receipt, RunOk(r), r.release = HostRelease
  PROVE  Verify(Groth16(HostRelease), Encode(r), r.guest, r.journal)
<1> DEFINE digest == ReceiptClaimDigest(Ok(ImageId(r.guest), JournalDigest(r.journal)))
           seal == Encode(r)
<1>1. digest = Digest(r)
  BY OkMeets
<1> HIDE DEF digest, seal
<1>2. SubSeq(seal, 1, 4) = SelectorOf(Groth16(HostRelease))
  BY EncodeParts, SelectorMeets DEF SelectorOf, Groth16, seal
<1>3. verifyProof(SubSeq(seal, 5, Len(seal)), PublicSignals(ControlID(HostRelease), digest))
  <2>1. PublicSignals(ControlID(HostRelease), digest) = SignalsOf(r)
    BY <1>1, SignalsMeet
  <2>2. SubSeq(seal, 5, Len(seal)) = <<[proof |-> r]>>
    BY EncodeParts DEF seal
  <2> DEFINE rest == <<[proof |-> r]>>
  <2>3. 1 \in DOMAIN rest /\ "proof" \in DOMAIN rest[1] /\ rest[1].proof = r
    OBVIOUS
  <2> HIDE DEF rest
  <2>. QED BY <2>1, <2>2, <2>3 DEF verifyProof, rest
<1>. QED BY <1>2, <1>3 DEF Verify, VerifyIntegrity, Groth16, digest, seal

\* The mock verifier accepts the dev-mode seal of an honest run.
LEMMA FakeSealAccepted ==
  ASSUME NEW r \in Receipt, RunOk(r)
  PROVE  Verify(Mock, FakeSeal(r), r.guest, r.journal)
<1> DEFINE digest == ReceiptClaimDigest(Ok(ImageId(r.guest), JournalDigest(r.journal)))
           seal == FakeSeal(r)
<1>1. digest = Digest(r)
  BY OkMeets
<1>2. /\ SubSeq(seal, 1, 4) = [i \in 1..4 |-> Byte(0)]
      /\ SubSeq(seal, 5, Len(seal)) = Bytes(Digest(r))
  BY RestOfWord DEF FakeSeal
<1> HIDE DEF digest, seal
<1>3. SubSeq(seal, 1, 4) = SelectorOf(Mock)
  BY <1>2 DEF SelectorOf, Mock
<1>. QED BY <1>1, <1>2, <1>3 DEF Verify, VerifyIntegrity, Mock, digest, seal

-----------------------------------------------------------------------------
(* The system *)

\* A receipt is one the prover can give, and the contract's verifier is a Groth16
\* verifier of some release: the mock is deployed by tests only.
Typed == /\ receipt # None => receipt \in Receipt
         /\ contract # None => \E release \in Releases : contract.verifier = Groth16(release)

\* A verification is of a seal that encode or the FFI program made of a receipt.
Judged ==
  verdict # None =>
    LET r == verdict.receipt
        g == verdict.guest
        j == verdict.journal
    IN  /\ r \in Receipt
        /\ \/ \E release \in Releases :
                verdict = Verdict(Groth16(release), Encode(r), g, j, r)
           \/ verdict = Verdict(Mock, FakeSeal(r), g, j, r)

\* What the files hold as the build goes on: each step names the guest compiled last.
Built ==
  /\ build \in {"imageId", "elf", "link", "ok"} => elf \in Guests
  /\ build \in {"elf", "link", "ok"} => imageIdSol = elf
  /\ build \in {"link", "ok"} => elfSol
  /\ build = "ok" => publisher = elf

Inv == Typed /\ Judged /\ Built

\* The fields of a verification.
LEMMA VerdictFields ==
  ASSUME NEW verifier, NEW seal, NEW g, NEW j, NEW r
  PROVE  LET v == Verdict(verifier, seal, g, j, r)
         IN  /\ v.verifier = verifier /\ v.guest = g /\ v.journal = j /\ v.receipt = r
             /\ v.accepted = Verify(verifier, seal, g, j)
BY DEF Verdict

\* No build, copy, deployment or submission, in whatever order, makes the files of a
\* finished build disagree, or has anything verified but the seal of a receipt.
THEOREM Invariance == Spec => []Inv
<1>1. Init => Inv
  BY DEF Init, Inv, Typed, Judged, Built
<1>2. ASSUME Inv, [Next]_vars PROVE Inv'
  <2>1. CASE EmbedMethods \/ SkipBuild \/ WriteImageId \/ WriteElf \/ Link
             \/ BuildFails \/ WriteFails
    <3>1. Typed'
      BY <1>2, <2>1 DEF Inv, Typed, EmbedMethods, SkipBuild, WriteImageId,
        WriteElf, Link, BuildFails, WriteFails, otherVars
    <3>2. verdict' = None
      BY <2>1 DEF EmbedMethods, SkipBuild, WriteImageId, WriteElf, Link, BuildFails,
        WriteFails
    <3>3. Built'
      BY <1>2, <2>1 DEF Inv, Built, EmbedMethods, SkipBuild, WriteImageId,
        WriteElf, Link, BuildFails, WriteFails
    <3>. QED BY <3>1, <3>2, <3>3 DEF Inv, Judged
  <2>2. CASE CopyImageId \/ Deploy
    <3>1. Typed'
      BY <1>2, <2>2 DEF Inv, Typed, CopyImageId, Deploy
    <3>2. verdict' = None /\ UNCHANGED fileVars
      BY <2>2 DEF CopyImageId, Deploy
    <3>3. Built'
      BY <1>2, <3>2 DEF Inv, Built, fileVars
    <3>. QED BY <3>1, <3>2, <3>3 DEF Inv, Judged
  <2>3. CASE Prove
    <3>1. Typed'
      BY <1>2, <2>3 DEF Inv, Typed, Prove
    <3>2. verdict' = None /\ UNCHANGED fileVars
      BY <2>3 DEF Prove
    <3>3. Built'
      BY <1>2, <3>2 DEF Inv, Built, fileVars
    <3>. QED BY <3>1, <3>2, <3>3 DEF Inv, Judged
  <2>4. CASE Submit
    <3>1. Typed' /\ Built'
      BY <1>2, <2>4 DEF Inv, Typed, Built, Submit, fileVars
    <3>2. PICK journal \in Journals :
            verdict' = Verdict(contract.verifier, Encode(receipt), contract.guest,
                               journal, receipt)
      BY <2>4 DEF Submit
    <3>3. PICK release \in Releases : contract.verifier = Groth16(release)
      BY <1>2, <2>4 DEF Inv, Typed, Submit
    <3>4. receipt \in Receipt
      BY <1>2, <2>4 DEF Inv, Typed, Submit
    <3>5. verdict' = Verdict(Groth16(release), Encode(receipt), contract.guest,
                             journal, receipt)
      BY <3>2, <3>3
    <3>6. /\ verdict'.receipt = receipt /\ verdict'.guest = contract.guest
          /\ verdict'.journal = journal
      BY <3>5, VerdictFields
    <3>7. Judged'
      BY <3>4, <3>5, <3>6 DEF Judged, Verdict, Encode
    <3>. QED BY <3>1, <3>7 DEF Inv
  <2>5. CASE ForgeTest
    <3>1. Typed' /\ Built'
      BY <1>2, <2>5 DEF Inv, Typed, Built, ForgeTest, fileVars
    <3>2. PICK dev \in BOOLEAN, r \in Receipt :
            r.release = HostRelease /\ verdict' = TestVerdict(dev, r)
      BY <2>5 DEF ForgeTest
    <3>3. r.release \in Releases
      BY DEF Receipt
    <3>4. verdict' \in {Verdict(Mock, FakeSeal(r), imageIdSol, r.journal, r),
                        Verdict(Groth16(HostRelease), Encode(r), imageIdSol, r.journal, r)}
      BY <3>2 DEF TestVerdict
    <3>5. /\ verdict'.receipt = r /\ verdict'.guest = imageIdSol
          /\ verdict'.journal = r.journal
      BY <3>4, VerdictFields
    <3>6. Judged'
      BY <3>2, <3>3, <3>4, <3>5 DEF Judged
    <3>. QED BY <3>1, <3>6 DEF Inv
  <2>6. CASE UNCHANGED vars
    BY <1>2, <2>6 DEF Inv, Typed, Judged, Built, vars, fileVars, otherVars
  <2>. QED BY <1>2, <2>1, <2>2, <2>3, <2>4, <2>5, <2>6 DEF Next
<1>. QED BY <1>1, <1>2, PTL DEF Spec

\* A journal is accepted only if the guest whose image ID the contract holds was
\* run, ended well, assumed nothing and wrote it (buildMerkleTree, the tests).
THEOREM Accepted == Spec => []AcceptedIsExecuted
<1>1. Inv => AcceptedIsExecuted
  <2> SUFFICES ASSUME Inv, verdict # None, verdict.accepted
               PROVE  /\ verdict.receipt.guest = verdict.guest
                      /\ verdict.receipt.journal = verdict.journal
                      /\ RunOk(verdict.receipt) /\ SameCircuits(verdict)
    BY DEF AcceptedIsExecuted
  <2> DEFINE r == verdict.receipt  g == verdict.guest  j == verdict.journal
  <2>1. r \in Receipt
    BY DEF Inv, Judged
  <2>2. CASE \E release \in Releases :
               verdict = Verdict(Groth16(release), Encode(r), g, j, r)
    <3>1. PICK release \in Releases :
            verdict = Verdict(Groth16(release), Encode(r), g, j, r)
      BY <2>2
    <3>2. Verify(Groth16(release), Encode(r), g, j) /\ verdict.verifier = Groth16(release)
      <4> HIDE DEF r, g, j
      <4>. QED BY <3>1, VerdictFields
    <3>3. r.guest = g /\ r.journal = j /\ RunOk(r) /\ r.release = release
      BY <2>1, <3>2, EncodeBinds
    <3>. QED BY <3>2, <3>3 DEF SameCircuits, Groth16
  <2>3. CASE verdict = Verdict(Mock, FakeSeal(r), g, j, r)
    <3>1. Verify(Mock, FakeSeal(r), g, j) /\ verdict.verifier = Mock
      <4> HIDE DEF r, g, j
      <4>. QED BY <2>3, VerdictFields
    <3>2. r.guest = g /\ r.journal = j /\ RunOk(r)
      BY <2>1, <3>1, FakeSealBinds
    <3>. QED BY <3>1, <3>2 DEF SameCircuits, Mock
  <2>. QED BY <2>2, <2>3 DEF Inv, Judged
<1>. QED BY <1>1, Invariance, PTL

\* And every honest journal is: the contracts' claims, parameters, selectors and
\* signals meet those of the host's release, byte for byte.
THEOREM Honest == Spec => []HonestAccepted
<1>1. Inv => HonestAccepted
  <2> DEFINE r == verdict.receipt  g == verdict.guest  j == verdict.journal
  <2> SUFFICES ASSUME Inv, verdict # None,
                      r.guest = g, r.journal = j, RunOk(r), SameCircuits(verdict),
                      verdict.verifier.kind = "groth16" => r.release = HostRelease
               PROVE  verdict.accepted
    BY DEF HonestAccepted
  <2>1. r \in Receipt
    BY DEF Inv, Judged
  <2>2. CASE \E release \in Releases :
               verdict = Verdict(Groth16(release), Encode(r), g, j, r)
    <3>1. PICK release \in Releases :
            verdict = Verdict(Groth16(release), Encode(r), g, j, r)
      BY <2>2
    <3>2. /\ verdict.verifier = Groth16(release)
          /\ verdict.accepted = Verify(Groth16(release), Encode(r), g, j)
      <4> HIDE DEF r, g, j
      <4>. QED BY <3>1, VerdictFields
    <3>3. r.release = HostRelease /\ release = HostRelease
      BY <3>2 DEF SameCircuits, Groth16
    <3>4. Verify(Groth16(HostRelease), Encode(r), g, j)
      BY <2>1, <3>3, EncodeAccepted
    <3>. QED BY <3>2, <3>3, <3>4
  <2>3. CASE verdict = Verdict(Mock, FakeSeal(r), g, j, r)
    <3>1. verdict.accepted = Verify(Mock, FakeSeal(r), g, j)
      <4> HIDE DEF r, g, j
      <4>. QED BY <2>3, VerdictFields
    <3>2. Verify(Mock, FakeSeal(r), g, j)
      BY <2>1, FakeSealAccepted
    <3>. QED BY <3>1, <3>2
  <2>. QED BY <2>2, <2>3 DEF Inv, Judged
<1>. QED BY <1>1, Invariance, PTL

\* A build that ended well leaves publisher and generated files with one guest, and
\* the tests pass in either mode (methods/build.rs, risc0/build-ethereum).
THEOREM Builds == Spec => []BuildsAgree
<1>1. Inv => BuildsAgree
  <2> SUFFICES ASSUME Inv, build = "ok"
               PROVE  /\ publisher = elf
                      /\ \A dev \in BOOLEAN, r \in Receipt :
                           r.guest = elf /\ RunOk(r) /\ r.release = HostRelease =>
                             imageIdSol # None /\ elfSol /\ TestVerdict(dev, r).accepted
    BY DEF BuildsAgree
  <2>1. publisher = elf /\ imageIdSol = elf /\ elfSol /\ imageIdSol # None
    BY FileAssumption DEF Inv, Built
  <2>2. ASSUME NEW dev \in BOOLEAN, NEW r \in Receipt,
               r.guest = elf, RunOk(r), r.release = HostRelease
        PROVE  TestVerdict(dev, r).accepted
    <3>1. CASE dev
      <4>1. TestVerdict(dev, r) = Verdict(Mock, FakeSeal(r), r.guest, r.journal, r)
        BY <2>1, <2>2, <3>1 DEF TestVerdict
      <4>2. Verify(Mock, FakeSeal(r), r.guest, r.journal)
        BY <2>2, FakeSealAccepted
      <4>. QED BY <4>1, <4>2, VerdictFields
    <3>2. CASE ~dev
      <4>1. TestVerdict(dev, r)
              = Verdict(Groth16(HostRelease), Encode(r), r.guest, r.journal, r)
        BY <2>1, <2>2, <3>2 DEF TestVerdict
      <4>2. Verify(Groth16(HostRelease), Encode(r), r.guest, r.journal)
        BY <2>2, EncodeAccepted
      <4>. QED BY <4>1, <4>2, VerdictFields
    <3>. QED BY <3>1, <3>2
  <2>. QED BY <2>1, <2>2
<1>. QED BY <1>1, Invariance, PTL

\* The contracts' digest of any claim, and of a state, is the prover's.
THEOREM DigestsMeet == Spec => []DigestsAgree
<1>1. Inv => DigestsAgree
  <2> SUFFICES ASSUME Inv, receipt # None
               PROVE  /\ ReceiptClaimDigest(ClaimOf(receipt)) = Digest(receipt)
                      /\ SystemStateDigest([pc |-> ENTRY,
                                            merkleRoot |-> [memory |-> receipt.guest]])
                           = ImageId(receipt.guest)
    BY DEF DigestsAgree
  <2>1. receipt \in Receipt
    BY DEF Inv, Typed
  <2>2. ENTRY \in Nat
    BY DEF ENTRY
  <2>. QED BY <2>1, <2>2, Meets, StateLayout DEF ImageId
<1>. QED BY <1>1, Invariance, PTL
=============================================================================
