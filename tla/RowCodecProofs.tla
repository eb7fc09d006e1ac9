--------------------------- MODULE RowCodecProofs ---------------------------
(***************************************************************************)
(* Proofs about the layout of the rows: what is written is read back, for  *)
(* keys, scripts and names of every content and length the database takes, *)
(* and for every uint32.                                                   *)
(***************************************************************************)
EXTENDS RowCodec, SequenceTheorems, TLAPS

Byte == 0 .. 255
Word == {n \in Nat : n \div 16777216 < 256}

\* The bytes s stand in b behind offset o.
Holds(b, o, s) ==
    /\ o + Len(s) <= Len(b)
    /\ \A i \in 1 .. Len(s) : b[o + i] = s[i]

-----------------------------------------------------------------------------
(* Four bytes.                                                             *)

\* A number is put together again from its four parts.
LEMMA WordSum ==
    ASSUME NEW n \in Nat
    PROVE  (n % 256) + 256 * ((n \div 256) % 256) + 65536 * ((n \div 65536) % 256)
                + 16777216 * (n \div 16777216) = n
BY SMT

\* PutUint32 writes four parts.
LEMMA WordType ==
    ASSUME NEW n \in Nat
    PROVE  uint32ToBytes(n) \in Seq(Nat) /\ Len(uint32ToBytes(n)) = 4
<1>1. n % 256 \in Nat /\ (n \div 256) % 256 \in Nat
  BY SMT
<1>2. (n \div 65536) % 256 \in Nat /\ n \div 16777216 \in Nat
  BY SMT
<1> QED BY <1>1, <1>2, SMT DEF uint32ToBytes

\* They are bytes as long as the number fits.
LEMMA WordBytes ==
    ASSUME NEW n \in Word
    PROVE  uint32ToBytes(n) \in Seq(Byte)
<1>1. n % 256 \in Byte /\ (n \div 256) % 256 \in Byte
  BY SMT DEF Word, Byte
<1>2. (n \div 65536) % 256 \in Byte /\ n \div 16777216 \in Byte
  BY SMT DEF Word, Byte
<1> QED BY <1>1, <1>2, SMT DEF uint32ToBytes

\* Uint32 reads what PutUint32 wrote, wherever it stands.
LEMMA WordRead ==
    ASSUME NEW b, NEW o \in Nat, NEW n \in Nat, Holds(b, o, uint32ToBytes(n))
    PROVE  Uint32(b, o) = n
<1> DEFINE u == uint32ToBytes(n)
<1>1. b[o + 1] = u[1] /\ b[o + 2] = u[2] /\ b[o + 3] = u[3] /\ b[o + 4] = u[4]
  <2>1. Len(u) = 4 /\ \A i \in 1 .. Len(u) : b[o + i] = u[i]
    BY WordType DEF Holds
  <2> HIDE DEF u
  <2>2. \A i \in 1 .. 4 : b[o + i] = u[i]
    BY <2>1
  <2> QED BY <2>2
<1>2. /\ u[1] = n % 256 /\ u[2] = (n \div 256) % 256
      /\ u[3] = (n \div 65536) % 256 /\ u[4] = n \div 16777216
  BY SMT DEF uint32ToBytes
<1> HIDE DEF u
<1> QED BY <1>1, <1>2, WordSum, SMT DEF Uint32

-----------------------------------------------------------------------------
(* Places in a row.                                                        *)

\* What is appended stands behind what was there, which stays where it was.
LEMMA HoldsConcat ==
    ASSUME NEW a \in Seq(Nat), NEW c \in Seq(Nat)
    PROVE  /\ a \o c \in Seq(Nat) /\ Len(a \o c) = Len(a) + Len(c)
           /\ Holds(a \o c, 0, a) /\ Holds(a \o c, Len(a), c)
<1>1. /\ a \o c \in Seq(Nat) /\ Len(a \o c) = Len(a) + Len(c)
      /\ \A i \in 1 .. Len(a) + Len(c) :
            (a \o c)[i] = IF i <= Len(a) THEN a[i] ELSE c[i - Len(a)]
  BY ConcatProperties
<1>2. Len(a) \in Nat /\ Len(c) \in Nat
  BY LenProperties
<1> QED BY <1>1, <1>2 DEF Holds

\* The same for a part of what was there.
LEMMA HoldsStay ==
    ASSUME NEW a \in Seq(Nat), NEW c \in Seq(Nat), NEW o \in Nat,
           NEW s \in Seq(Nat), Holds(a, o, s)
    PROVE  Holds(a \o c, o, s)
<1>1. /\ Len(a \o c) = Len(a) + Len(c)
      /\ \A i \in 1 .. Len(a) + Len(c) :
            (a \o c)[i] = IF i <= Len(a) THEN a[i] ELSE c[i - Len(a)]
  BY ConcatProperties
<1>2. Len(a) \in Nat /\ Len(c) \in Nat /\ Len(s) \in Nat
  BY LenProperties
<1>3. ASSUME NEW i \in 1 .. Len(s) PROVE (a \o c)[o + i] = s[i]
  <2>1. o + Len(s) <= Len(a) /\ a[o + i] = s[i]
    BY DEF Holds
  <2>2. i \in Nat /\ 1 <= i /\ i <= Len(s)
    BY <1>2
  <2>3. o + i \in Nat /\ 1 <= o + i /\ o + i <= Len(a)
    BY <1>2, <2>1, <2>2
  <2>4. o + i \in 1 .. Len(a) + Len(c)
    BY <1>2, <2>3
  <2>5. (a \o c)[o + i] = a[o + i]
    BY <1>1, <2>3, <2>4
  <2> QED BY <2>1, <2>5
<1> QED BY <1>1, <1>2, <1>3 DEF Holds

\* The parts of a part stand in the row as well.
LEMMA HoldsParts ==
    ASSUME NEW b, NEW o \in Nat, NEW a \in Seq(Nat), NEW c \in Seq(Nat),
           Len(b) \in Nat, Holds(b, o, a \o c)
    PROVE  Holds(b, o, a) /\ Holds(b, o + Len(a), c)
<1>1. /\ Len(a \o c) = Len(a) + Len(c)
      /\ \A i \in 1 .. Len(a) + Len(c) :
            (a \o c)[i] = IF i <= Len(a) THEN a[i] ELSE c[i - Len(a)]
  BY ConcatProperties
<1>2. Len(a) \in Nat /\ Len(c) \in Nat
  BY LenProperties
<1>3. ASSUME NEW i \in 1 .. Len(a) PROVE b[o + i] = a[i]
  <2>1. i \in 1 .. Len(a) + Len(c) /\ i <= Len(a)
    BY <1>2
  <2>2. b[o + i] = (a \o c)[i]
    BY <2>1, <1>1 DEF Holds
  <2> QED BY <2>1, <2>2, <1>1
<1>4. ASSUME NEW i \in 1 .. Len(c) PROVE b[(o + Len(a)) + i] = c[i]
  <2>1. Len(a) + i \in 1 .. Len(a) + Len(c) /\ ~(Len(a) + i <= Len(a))
        /\ (Len(a) + i) - Len(a) = i /\ (o + Len(a)) + i = o + (Len(a) + i)
    BY <1>2
  <2>2. b[o + (Len(a) + i)] = (a \o c)[Len(a) + i]
    BY <2>1, <1>1 DEF Holds
  <2> QED BY <2>1, <2>2, <1>1
<1> QED BY <1>1, <1>2, <1>3, <1>4 DEF Holds

\* A length and the bytes.
LEMMA BlobType ==
    ASSUME NEW s \in Seq(Nat)
    PROVE  /\ Len(s) \in Nat
           /\ stringToBytes(s) \in Seq(Nat) /\ Len(stringToBytes(s)) = 4 + Len(s)
<1>1. Len(s) \in Nat
  BY LenProperties
<1>2. uint32ToBytes(Len(s)) \in Seq(Nat) /\ Len(uint32ToBytes(Len(s))) = 4
  BY <1>1, WordType
<1> QED BY <1>1, <1>2, HoldsConcat DEF stringToBytes

\* They are read back, and the reader goes on behind them.
LEMMA BlobRead ==
    ASSUME NEW b, Len(b) \in Nat, NEW o \in Nat, NEW s \in Seq(Nat),
           Holds(b, o, stringToBytes(s))
    PROVE  BlobAt(b, o) = s /\ Behind(b, o) = o + 4 + Len(s)
<1>0. Len(s) \in Nat
  BY LenProperties
<1>1. Holds(b, o, uint32ToBytes(Len(s))) /\ Holds(b, o + 4, s)
  BY <1>0, HoldsParts, WordType DEF stringToBytes
<1>2. Uint32(b, o) = Len(s)
  BY <1>0, <1>1, WordRead
<1>3. ASSUME NEW i \in 1 .. Len(s) PROVE b[(o + 4) + i] = s[i]
  BY <1>1 DEF Holds
<1>4. \A i \in (o + 5) .. (o + 4 + Len(s)) : b[i] \in Nat
  <2> TAKE i \in (o + 5) .. (o + 4 + Len(s))
  <2>1. i - (o + 4) \in 1 .. Len(s) /\ (o + 4) + (i - (o + 4)) = i
    BY <1>0
  <2>2. s[i - (o + 4)] \in Nat
    BY <2>1, ElementOfSeq
  <2> QED BY <2>1, <2>2, <1>3
<1> DEFINE t == SubSeq(b, o + 5, o + 4 + Len(s))
<1>5. /\ t \in Seq(Nat)
      /\ Len(t) = IF o + 5 <= o + 4 + Len(s) THEN (o + 4 + Len(s)) - (o + 5) + 1 ELSE 0
      /\ \A i \in 1 .. (o + 4 + Len(s)) - (o + 5) + 1 : t[i] = b[(o + 5) + i - 1]
  <2>1. o + 5 \in Int /\ o + 4 + Len(s) \in Int
    BY <1>0
  <2> QED BY <2>1, <1>4, SubSeqProperties
<1> HIDE DEF t
<1>6. Len(t) = Len(s)
  BY <1>0, <1>5
<1>7. ASSUME NEW i \in 1 .. Len(t) PROVE t[i] = s[i]
  <2>1. i \in 1 .. (o + 4 + Len(s)) - (o + 5) + 1 /\ (o + 5) + i - 1 = (o + 4) + i
    BY <1>0, <1>6
  <2> QED BY <2>1, <1>3, <1>5, <1>6
<1>8. t = s
  BY <1>5, <1>6, <1>7, SeqEqual
<1> QED BY <1>2, <1>8 DEF t, BlobAt, Behind

\* Three parts in a row.
LEMMA HoldsThree ==
    ASSUME NEW a \in Seq(Nat), NEW b \in Seq(Nat), NEW c \in Seq(Nat)
    PROVE  LET w == a \o b \o c IN
           /\ w \in Seq(Nat) /\ Len(w) = Len(a) + Len(b) + Len(c)
           /\ Holds(w, 0, a) /\ Holds(w, Len(a), b) /\ Holds(w, Len(a) + Len(b), c)
<1>0. PICK w : w = a \o b \o c
  OBVIOUS
<1>1. PICK ab \in Seq(Nat) : ab = a \o b
  BY HoldsConcat
<1>2. Len(ab) = Len(a) + Len(b) /\ Holds(ab, 0, a) /\ Holds(ab, Len(a), b)
  BY <1>1, HoldsConcat
<1>3. w = ab \o c
  BY <1>0, <1>1
<1>4. w \in Seq(Nat) /\ Len(w) = Len(ab) + Len(c) /\ Holds(w, Len(ab), c)
  BY <1>3, HoldsConcat
<1>5. Len(a) \in Nat
  BY LenProperties
<1>6. Holds(w, 0, a) /\ Holds(w, Len(a), b)
  BY <1>2, <1>3, <1>5, HoldsStay
<1> QED BY <1>0, <1>2, <1>4, <1>6

\* Five parts in a row.
LEMMA HoldsFive ==
    ASSUME NEW a \in Seq(Nat), NEW b \in Seq(Nat), NEW c \in Seq(Nat),
           NEW d \in Seq(Nat), NEW e \in Seq(Nat)
    PROVE  LET w == a \o b \o c \o d \o e IN
           /\ w \in Seq(Nat) /\ Len(w) = Len(a) + Len(b) + Len(c) + Len(d) + Len(e)
           /\ Holds(w, 0, a) /\ Holds(w, Len(a), b) /\ Holds(w, Len(a) + Len(b), c)
           /\ Holds(w, Len(a) + Len(b) + Len(c), d)
           /\ Holds(w, Len(a) + Len(b) + Len(c) + Len(d), e)
<1>0. PICK w : w = a \o b \o c \o d \o e
  OBVIOUS
<1>1. PICK x : x = a \o b \o c
  OBVIOUS
<1>2. /\ x \in Seq(Nat) /\ Len(x) = Len(a) + Len(b) + Len(c)
      /\ Holds(x, 0, a) /\ Holds(x, Len(a), b) /\ Holds(x, Len(a) + Len(b), c)
  BY <1>1, HoldsThree
<1>3. PICK xd \in Seq(Nat) : xd = x \o d
  BY <1>2, HoldsConcat
<1>4. w = xd \o e
  BY <1>0, <1>1, <1>3
<1>5. Len(a) \in Nat /\ Len(b) \in Nat /\ Len(c) \in Nat /\ Len(a) + Len(b) \in Nat
  BY LenProperties
<1>6. /\ Len(xd) = Len(x) + Len(d) /\ Holds(xd, Len(x), d)
  BY <1>2, <1>3, HoldsConcat
<1>7. Holds(xd, 0, a) /\ Holds(xd, Len(a), b) /\ Holds(xd, Len(a) + Len(b), c)
  <2>1. ASSUME NEW o \in Nat, NEW s \in Seq(Nat), Holds(x, o, s)
        PROVE  Holds(xd, o, s)
    BY <2>1, <1>2, <1>3, HoldsStay
  <2> QED BY <1>2, <1>5, <2>1
<1>8. w \in Seq(Nat) /\ Len(w) = Len(xd) + Len(e) /\ Holds(w, Len(xd), e)
  BY <1>4, HoldsConcat
<1>9. Len(x) \in Nat
  BY <1>2, LenProperties
<1>10. Holds(w, 0, a) /\ Holds(w, Len(a), b) /\ Holds(w, Len(a) + Len(b), c)
  <2>1. ASSUME NEW o \in Nat, NEW s \in Seq(Nat), Holds(xd, o, s)
        PROVE  Holds(w, o, s)
    BY <2>1, <1>4, HoldsStay
  <2> QED BY <1>5, <1>7, <2>1
<1>11. Holds(w, Len(x), d)
  BY <1>4, <1>6, <1>9, HoldsStay
<1> QED BY <1>0, <1>2, <1>6, <1>8, <1>10, <1>11

-----------------------------------------------------------------------------
(* The values of the constants.                                            *)

\* Keys, scripts and names are sequences of bytes.
LEMMA BlobsType ==
    ASSUME NEW s \in Blobs
    PROVE  s \in Seq(Byte) /\ s \in Seq(Nat) /\ Len(s) \in Nat
<1>1. s \in Seq(Byte)
  BY RowCodecAssumption, SMT DEF Byte
<1>2. Byte \subseteq Nat
  BY DEF Byte
<1>3. s \in Seq(Nat)
  BY <1>1, <1>2, SeqMonotonic
<1> QED BY <1>1, <1>3, LenProperties

\* Numbers fit into four bytes.
LEMMA NumbersType ==
    ASSUME NEW n \in Numbers
    PROVE  n \in Word /\ n \in Nat
BY RowCodecAssumption, SMT DEF Word

-----------------------------------------------------------------------------
(* Rows that are read back.                                                *)

\* A default account: keys, counters and name.
LEMMA DefaultRead ==
    ASSUME NEW v \in DefaultRows
    PROVE  /\ serializeDefaultAccountRow(v) \in Seq(Nat)
           /\ Len(serializeDefaultAccountRow(v)) =
                 20 + Len(v.pub) + Len(v.priv) + Len(v.name)
           /\ deserializeDefaultAccountRow(serializeDefaultAccountRow(v)) = v
<1>1. PICK pub \in Blobs, priv \in Blobs, external \in Numbers, internal \in Numbers,
           name \in Blobs :
        v = [kind |-> "default", pub |-> pub, priv |-> priv, external |-> external,
             internal |-> internal, name |-> name]
  BY DEF DefaultRows
<1>2. PICK raw : raw = serializeDefaultAccountRow(v)
  OBVIOUS
<1>3. raw = stringToBytes(pub) \o stringToBytes(priv) \o uint32ToBytes(external)
              \o uint32ToBytes(internal) \o stringToBytes(name)
  BY <1>1, <1>2 DEF serializeDefaultAccountRow
<1>4. /\ pub \in Seq(Nat) /\ priv \in Seq(Nat) /\ name \in Seq(Nat)
      /\ Len(pub) \in Nat /\ Len(priv) \in Nat /\ Len(name) \in Nat
      /\ external \in Nat /\ internal \in Nat
  BY BlobsType, NumbersType
<1>5. /\ stringToBytes(pub) \in Seq(Nat) /\ Len(stringToBytes(pub)) = 4 + Len(pub)
      /\ stringToBytes(priv) \in Seq(Nat) /\ Len(stringToBytes(priv)) = 4 + Len(priv)
      /\ stringToBytes(name) \in Seq(Nat) /\ Len(stringToBytes(name)) = 4 + Len(name)
      /\ uint32ToBytes(external) \in Seq(Nat) /\ Len(uint32ToBytes(external)) = 4
      /\ uint32ToBytes(internal) \in Seq(Nat) /\ Len(uint32ToBytes(internal)) = 4
  BY <1>4, BlobType, WordType
<1> DEFINE at2 == 4 + Len(pub)
           at3 == at2 + 4 + Len(priv)
<1>6. /\ raw \in Seq(Nat) /\ Len(raw) = at3 + 12 + Len(name)
      /\ Holds(raw, 0, stringToBytes(pub)) /\ Holds(raw, at2, stringToBytes(priv))
      /\ Holds(raw, at3, uint32ToBytes(external))
      /\ Holds(raw, at3 + 4, uint32ToBytes(internal))
      /\ Holds(raw, at3 + 8, stringToBytes(name))
  <2>0. PICK a \in Seq(Nat), b \in Seq(Nat), c \in Seq(Nat), d \in Seq(Nat), e \in Seq(Nat) :
           /\ a = stringToBytes(pub) /\ b = stringToBytes(priv)
           /\ c = uint32ToBytes(external) /\ d = uint32ToBytes(internal)
           /\ e = stringToBytes(name)
    BY <1>5
  <2>1. /\ raw \in Seq(Nat)
        /\ Len(raw) = (4 + Len(pub)) + (4 + Len(priv)) + 4 + 4 + (4 + Len(name))
        /\ Holds(raw, 0, stringToBytes(pub)) /\ Holds(raw, 4 + Len(pub), stringToBytes(priv))
        /\ Holds(raw, (4 + Len(pub)) + (4 + Len(priv)), uint32ToBytes(external))
        /\ Holds(raw, (4 + Len(pub)) + (4 + Len(priv)) + 4, uint32ToBytes(internal))
        /\ Holds(raw, (4 + Len(pub)) + (4 + Len(priv)) + 4 + 4, stringToBytes(name))
    <3>1. raw = a \o b \o c \o d \o e
      BY <1>3, <2>0
    <3>2. /\ raw \in Seq(Nat) /\ Len(raw) = Len(a) + Len(b) + Len(c) + Len(d) + Len(e)
          /\ Holds(raw, 0, a) /\ Holds(raw, Len(a), b) /\ Holds(raw, Len(a) + Len(b), c)
          /\ Holds(raw, Len(a) + Len(b) + Len(c), d)
          /\ Holds(raw, Len(a) + Len(b) + Len(c) + Len(d), e)
      BY <3>1, HoldsFive
    <3> QED BY <1>5, <2>0, <3>2
  <2>2. (4 + Len(pub)) + (4 + Len(priv)) = at3 /\ at3 + 4 + 4 = at3 + 8
    BY <1>4
  <2> QED BY <2>1, <2>2, <1>4
<1>7. at2 \in Nat /\ at3 \in Nat /\ at3 + 4 \in Nat /\ at3 + 8 \in Nat /\ Len(raw) \in Nat
  <2>1. at2 \in Nat /\ at3 \in Nat
    BY <1>4
  <2>2. Len(raw) \in Nat
    BY <1>6, LenProperties
  <2> HIDE DEF at2, at3
  <2> QED BY <2>1, <2>2
<1> HIDE DEF at2, at3
<1>8. /\ BlobAt(raw, 0) = pub /\ Behind(raw, 0) = at2
      /\ BlobAt(raw, at2) = priv /\ Behind(raw, at2) = at3
      /\ BlobAt(raw, at3 + 8) = name
  <2>1. BlobAt(raw, 0) = pub /\ Behind(raw, 0) = 0 + 4 + Len(pub)
    BY <1>4, <1>6, <1>7, BlobRead
  <2>2. BlobAt(raw, at2) = priv /\ Behind(raw, at2) = at2 + 4 + Len(priv)
    BY <1>4, <1>6, <1>7, BlobRead
  <2>3. BlobAt(raw, at3 + 8) = name
    BY <1>4, <1>6, <1>7, BlobRead
  <2>4. 0 + 4 + Len(pub) = at2 /\ at2 + 4 + Len(priv) = at3
    BY <1>4 DEF at2, at3
  <2> QED BY <2>1, <2>2, <2>3, <2>4
<1>9. Uint32(raw, at3) = external /\ Uint32(raw, at3 + 4) = internal
  BY <1>4, <1>6, <1>7, WordRead
<1>10. ~(Len(raw) < 20)
  BY <1>4, <1>6 DEF at2, at3
<1>11. deserializeDefaultAccountRow(raw) =
         [kind |-> "default", pub |-> pub, priv |-> priv, external |-> external,
          internal |-> internal, name |-> name]
  BY <1>8, <1>9, <1>10 DEF deserializeDefaultAccountRow
<1>12. Len(raw) = 20 + Len(pub) + Len(priv) + Len(name)
  BY <1>4, <1>6 DEF at2, at3
<1> QED BY <1>1, <1>2, <1>6, <1>11, <1>12

\* An account row around its data: the type and the data are read back.
LEMMA AccountRead ==
    ASSUME NEW raw \in Seq(Nat), NEW acctType \in Nat, NEW b,
           b = serializeAccountRow(acctType, raw)
    PROVE  /\ b \in Seq(Nat) /\ Len(b) = 5 + Len(raw)
           /\ b[1] = acctType /\ BlobAt(b, 1) = raw
<1>1. <<acctType>> \in Seq(Nat) /\ Len(<<acctType>>) = 1 /\ <<acctType>>[1] = acctType
  OBVIOUS
<1>2. /\ Len(raw) \in Nat
      /\ stringToBytes(raw) \in Seq(Nat) /\ Len(stringToBytes(raw)) = 4 + Len(raw)
  BY BlobType
<1>3. PICK one \in Seq(Nat) : one = <<acctType>>
  BY <1>1
<1>4. b = one \o stringToBytes(raw)
  BY <1>3 DEF serializeAccountRow
<1>5. /\ b \in Seq(Nat) /\ Len(b) = 1 + (4 + Len(raw))
      /\ Holds(b, 0, one) /\ Holds(b, 1, stringToBytes(raw))
  BY <1>1, <1>2, <1>3, <1>4, HoldsConcat
<1>6. Len(b) \in Nat /\ Len(b) = 5 + Len(raw)
  BY <1>2, <1>5
<1>7. b[0 + 1] = one[1]
  BY <1>1, <1>3, <1>5 DEF Holds
<1>8. BlobAt(b, 1) = raw
  BY <1>5, <1>6, BlobRead
<1> QED BY <1>1, <1>3, <1>5, <1>6, <1>7, <1>8

\* So fetchAccountInfo gives what putDefaultAccountInfo wrote.
LEMMA DefaultFetched ==
    ASSUME NEW v \in DefaultRows, NEW b,
           b = serializeAccountRow(accountDefault, serializeDefaultAccountRow(v))
    PROVE  fetchAccountInfo(b) = v
<1>1. PICK raw \in Seq(Nat) : raw = serializeDefaultAccountRow(v)
  BY DefaultRead
<1>2. accountDefault \in Nat
  BY DEF accountDefault
<1>3. Len(b) = 5 + Len(raw) /\ b[1] = accountDefault /\ BlobAt(b, 1) = raw
  BY <1>1, <1>2, AccountRead
<1>4. ~(Len(b) < 5)
  BY <1>3, LenProperties
<1>5. fetchAccountInfo(b) = deserializeDefaultAccountRow(raw)
  BY <1>3, <1>4 DEF fetchAccountInfo
<1> QED BY <1>1, <1>5, DefaultRead

\* A scope and its schema.
LEMMA ScopeRead ==
    ASSUME NEW v \in Scopes
    PROVE  LET b == scopeToBytes(v) \o scopeSchemaToBytes(v.schema) IN
           b \in Seq(Nat) /\ fetchScope(b) = v
<1>0. PICK b : b = scopeToBytes(v) \o scopeSchemaToBytes(v.schema)
  OBVIOUS
<1>1. PICK purpose \in Numbers, coin \in Numbers, internal \in 0 .. 7, external \in 0 .. 7 :
        v = [kind |-> "scope", purpose |-> purpose, coin |-> coin,
             schema |-> [internal |-> internal, external |-> external]]
  BY DEF Scopes, Schemas, AddressTypes
<1>2. purpose \in Nat /\ coin \in Nat
  BY NumbersType
<1>3. PICK p \in Seq(Nat), c \in Seq(Nat) : p = uint32ToBytes(purpose) /\ c = uint32ToBytes(coin)
  BY <1>2, WordType
<1>4. Len(p) = 4 /\ Len(c) = 4
  BY <1>2, <1>3, WordType
<1>5. PICK s \in Seq(Nat) : s = <<internal, external>>
  <2>1. internal \in Nat /\ external \in Nat
    OBVIOUS
  <2>2. <<internal, external>> \in Seq(Nat)
    BY <2>1
  <2> QED BY <2>2
<1>6. Len(s) = 2 /\ s[1] = internal /\ s[2] = external
  BY <1>5
<1>7. b = p \o c \o s
  BY <1>0, <1>1, <1>3, <1>5 DEF scopeToBytes, scopeSchemaToBytes
<1>8. /\ b \in Seq(Nat) /\ Len(b) = Len(p) + Len(c) + Len(s)
      /\ Holds(b, 0, p) /\ Holds(b, Len(p), c) /\ Holds(b, Len(p) + Len(c), s)
  BY <1>7, HoldsThree
<1>9. Holds(b, 0, p) /\ Holds(b, 4, c) /\ Holds(b, 8, s) /\ Len(b) = 10
  BY <1>4, <1>6, <1>8
<1>10. Uint32(b, 0) = purpose /\ Uint32(b, 4) = coin
  BY <1>2, <1>3, <1>9, WordRead
<1>11. b[9] = internal /\ b[10] = external
  <2>1. \A i \in 1 .. 2 : b[8 + i] = s[i]
    BY <1>6, <1>9 DEF Holds
  <2>2. b \in [1 .. 10 -> Nat] /\ s \in [1 .. 2 -> Nat]
    BY <1>6, <1>8, <1>9, LenProperties
  <2>3. b[9] = s[1] /\ b[10] = s[2]
    BY <2>1, <2>2
  <2> QED BY <2>3, <1>6
<1>12. SubSeq(b, 9, 10)[1] = internal /\ SubSeq(b, 9, 10)[2] = external
  <2>1. \A i \in 9 .. 10 : b[i] \in Nat
    <3>1. b \in [1 .. 10 -> Nat]
      BY <1>8, <1>9, LenProperties
    <3> TAKE i \in 9 .. 10
    <3>2. i \in 1 .. 10
      OBVIOUS
    <3> QED BY <3>1, <3>2
  <2>2. \A i \in 1 .. 10 - 9 + 1 : SubSeq(b, 9, 10)[i] = b[9 + i - 1]
    <3>1. PICK m \in Int, n \in Int : m = 9 /\ n = 10
      OBVIOUS
    <3>2. \A i \in m .. n : b[i] \in Nat
      BY <2>1, <3>1
    <3>3. \A i \in 1 .. n - m + 1 : SubSeq(b, m, n)[i] = b[m + i - 1]
      BY <3>2, SubSeqProperties
    <3> QED BY <3>1, <3>3
  <2>3. SubSeq(b, 9, 10)[1] = b[9 + 1 - 1] /\ SubSeq(b, 9, 10)[2] = b[9 + 2 - 1]
    BY <2>2
  <2> QED BY <2>3, <1>11
<1>13. fetchScope(b) =
        [kind |-> "scope", purpose |-> purpose, coin |-> coin,
         schema |-> [internal |-> internal, external |-> external]]
  BY <1>10, <1>12 DEF fetchScope, scopeSchemaFromBytes
<1> QED BY <1>0, <1>1, <1>8, <1>13

-----------------------------------------------------------------------------
(* Rows that are not.                                                      *)

\* The data of a script address.
LEMMA ScriptLen ==
    ASSUME NEW v \in Scripts
    PROVE  /\ serializeScriptAddress(v) \in Seq(Nat)
           /\ Len(serializeScriptAddress(v)) = 8 + Len(v.hash) + Len(v.script)
           /\ v.hash \in Blobs /\ v.script \in Blobs
<1>1. v.hash \in Blobs /\ v.script \in Blobs
  BY DEF Scripts
<1>2. /\ v.hash \in Seq(Nat) /\ v.script \in Seq(Nat)
      /\ Len(v.hash) \in Nat /\ Len(v.script) \in Nat
  BY <1>1, BlobsType
<1>3. PICK a \in Seq(Nat), c \in Seq(Nat) :
         a = stringToBytes(v.hash) /\ c = stringToBytes(v.script)
  BY <1>2, BlobType
<1>4. Len(a) = 4 + Len(v.hash) /\ Len(c) = 4 + Len(v.script)
  BY <1>2, <1>3, BlobType
<1>5. a \o c \in Seq(Nat) /\ Len(a \o c) = Len(a) + Len(c)
  BY HoldsConcat
<1>6. serializeScriptAddress(v) = a \o c
  BY <1>3 DEF serializeScriptAddress
<1>7. Len(a \o c) = 8 + Len(v.hash) + Len(v.script)
  <2>1. PICK h \in Nat, k \in Nat : h = Len(v.hash) /\ k = Len(v.script)
    BY <1>2
  <2>2. Len(a) = 4 + h /\ Len(c) = 4 + k
    BY <1>4, <2>1
  <2>3. Len(a \o c) = 8 + h + k
    BY <1>5, <2>2
  <2> QED BY <2>1, <2>3
<1> QED BY <1>1, <1>5, <1>6, <1>7

\* An address row is 18 bytes longer than its data.
LEMMA AddressLen ==
    ASSUME NEW raw \in Seq(Nat), NEW addrType \in Nat, NEW account \in Nat, NEW status \in Nat
    PROVE  /\ serializeAddressRow(addrType, account, status, raw) \in Seq(Nat)
           /\ Len(serializeAddressRow(addrType, account, status, raw)) = 18 + Len(raw)
<1>1. PICK a \in Seq(Nat), c \in Seq(Nat), d \in Seq(Nat) :
         a = <<addrType>> /\ c = addTime /\ d = <<status>>
  <2>1. <<addrType>> \in Seq(Nat) /\ <<status>> \in Seq(Nat)
    OBVIOUS
  <2>2. addTime \in Seq(Nat)
    BY DEF addTime
  <2> QED BY <2>1, <2>2
<1>2. Len(a) = 1 /\ Len(d) = 1
  BY <1>1
<1>3. Len(c) = 8
  BY <1>1 DEF addTime
<1>4. Len(raw) \in Nat
  BY LenProperties
<1>5. PICK b \in Seq(Nat), e \in Seq(Nat) : b = uint32ToBytes(account) /\ e = stringToBytes(raw)
  BY WordType, BlobType
<1>6. Len(b) = 4 /\ Len(e) = 4 + Len(raw)
  BY <1>5, WordType, BlobType
<1>7. PICK w : w = a \o b \o c \o d \o e
  OBVIOUS
<1>8. w \in Seq(Nat) /\ Len(w) = Len(a) + Len(b) + Len(c) + Len(d) + Len(e)
  BY <1>7, HoldsFive
<1>9. Len(w) = 18 + Len(raw)
  BY <1>2, <1>3, <1>4, <1>6, <1>8
<1>10. serializeAddressRow(addrType, account, status, raw) = w
  BY <1>1, <1>5, <1>7 DEF serializeAddressRow
<1> QED BY <1>8, <1>9, <1>10

\* So the row of a script address is refused.
LEMMA ScriptRefused ==
    ASSUME NEW v \in Scripts, NEW account \in Numbers, NEW status \in 0 .. 2, NEW b,
           b = serializeAddressRow(adtScript, account, status, serializeScriptAddress(v))
    PROVE  fetchAddress(b) = Failed("ErrDatabase")
<1>1. PICK raw \in Seq(Nat) : raw = serializeScriptAddress(v)
  BY ScriptLen
<1>2. Len(raw) = 8 + Len(v.hash) + Len(v.script)
  BY <1>1, ScriptLen
<1>3. Len(v.hash) \in Nat /\ Len(v.script) \in Nat
  BY ScriptLen, BlobsType
<1>4. adtScript \in Nat /\ account \in Nat /\ status \in Nat
  BY NumbersType DEF adtScript
<1>5. Len(b) = 18 + Len(raw)
  BY <1>1, <1>4, AddressLen
<1>6. Len(b) # 18
  <2>1. PICK h \in Nat, k \in Nat : h = Len(v.hash) /\ k = Len(v.script)
    BY <1>3
  <2>2. Len(b) = 18 + (8 + h + k)
    BY <1>2, <1>5, <2>1
  <2> QED BY <2>2
<1>7. deserializeAddressRow(b) = Failed("ErrDatabase")
  BY <1>6 DEF deserializeAddressRow
<1>8. deserializeAddressRow(b).kind # "address"
  BY <1>7 DEF Failed
<1> QED BY <1>7, <1>8 DEF fetchAddress

\* An address type is a byte.
LEMMA SchemaType ==
    ASSUME NEW schema \in AccountSchemas
    PROVE  /\ schema.internal \in Nat /\ schema.external \in Nat
           /\ schema.internal \in Byte /\ schema.external \in Byte
<1>1. schema \in Schemas
  BY RowCodecAssumption, SMT
<1>2. schema.internal \in 0 .. 7 /\ schema.external \in 0 .. 7
  BY <1>1 DEF Schemas, AddressTypes
<1> QED BY <1>2 DEF Byte

\* A watch-only row, from its first byte to the flag.
LEMMA WatchOnlyRead ==
    ASSUME NEW v \in WatchOnlyRows
    PROVE  LET raw == serializeWatchOnlyAccountRow(v)
               f == deserializeWatchOnlyAccountRow(raw)
           IN  /\ raw \in Seq(Nat)
               /\ Len(raw) >= 20 + Len(v.pub) + Len(v.name)
               /\ f.kind = "watchOnly" =>
                     /\ f.pub = v.pub
                     /\ f.external = v.fingerprint /\ f.internal = v.external
<1>1. /\ v.pub \in Blobs /\ v.name \in Blobs
      /\ v.fingerprint \in Numbers /\ v.external \in Numbers /\ v.internal \in Numbers
  BY DEF WatchOnlyRows
<1>2. /\ v.pub \in Seq(Nat) /\ v.name \in Seq(Nat) /\ Len(v.pub) \in Nat /\ Len(v.name) \in Nat
      /\ v.fingerprint \in Nat /\ v.external \in Nat /\ v.internal \in Nat
  BY <1>1, BlobsType, NumbersType
<1>3. PICK a \in Seq(Nat), b \in Seq(Nat), c \in Seq(Nat), d \in Seq(Nat), e \in Seq(Nat) :
         /\ a = stringToBytes(v.pub) /\ b = uint32ToBytes(v.fingerprint)
         /\ c = uint32ToBytes(v.external) /\ d = uint32ToBytes(v.internal)
         /\ e = stringToBytes(v.name)
  BY <1>2, BlobType, WordType
<1>4. /\ Len(a) = 4 + Len(v.pub) /\ Len(b) = 4 /\ Len(c) = 4 /\ Len(d) = 4
      /\ Len(e) = 4 + Len(v.name)
  BY <1>2, <1>3, BlobType, WordType
<1>5. PICK z \in Seq(Nat) : z = IF v.schema = NoSchema THEN <<ByteOf(FALSE)>>
                                ELSE <<ByteOf(TRUE)>> \o scopeSchemaToBytes(v.schema)
  <2>1. CASE v.schema = NoSchema
    <3>1. <<ByteOf(FALSE)>> \in Seq(Nat)
      BY DEF ByteOf
    <3> QED BY <2>1, <3>1
  <2>2. CASE v.schema # NoSchema
    <3>1. <<ByteOf(TRUE)>> \in Seq(Nat)
      BY DEF ByteOf
    <3>2. v.schema.internal \in Nat /\ v.schema.external \in Nat
      BY <2>2, SchemaType DEF WatchOnlyRows
    <3>3. scopeSchemaToBytes(v.schema) \in Seq(Nat)
      BY <3>2 DEF scopeSchemaToBytes
    <3>4. <<ByteOf(TRUE)>> \o scopeSchemaToBytes(v.schema) \in Seq(Nat)
      BY <3>1, <3>3, HoldsConcat
    <3> QED BY <2>2, <3>4
  <2> QED BY <2>1, <2>2
<1>6. PICK w : w = a \o b \o c \o d \o e
  OBVIOUS
<1>7. /\ w \in Seq(Nat) /\ Len(w) = Len(a) + Len(b) + Len(c) + Len(d) + Len(e)
      /\ Holds(w, 0, a) /\ Holds(w, Len(a), b) /\ Holds(w, Len(a) + Len(b), c)
  BY <1>6, HoldsFive
<1>8. PICK raw \in Seq(Nat) : raw = w \o z
  BY <1>7, HoldsConcat
<1>9. Len(raw) = Len(w) + Len(z) /\ Len(z) \in Nat
  BY <1>7, <1>8, HoldsConcat, LenProperties
<1>10. Len(raw) \in Nat /\ Len(raw) >= 20 + Len(v.pub) + Len(v.name)
  <2>1. PICK h \in Nat, k \in Nat, m \in Nat :
           h = Len(v.pub) /\ k = Len(v.name) /\ m = Len(z)
    BY <1>2, <1>9
  <2>2. Len(raw) = (4 + h) + 4 + 4 + 4 + (4 + k) + m
    BY <1>4, <1>7, <1>9, <2>1
  <2>3. Len(raw) \in Nat /\ Len(raw) >= 20 + h + k
    BY <2>2
  <2> QED BY <2>1, <2>3
<1>11. PICK index \in Nat : index = 4 + Len(v.pub)
  BY <1>2
<1>12. Holds(raw, 0, a) /\ Holds(raw, index, b) /\ Holds(raw, index + 4, c)
  <2>1. Holds(w, index, b) /\ Holds(w, index + 4, c)
    BY <1>4, <1>7, <1>11
  <2>2. index + 4 \in Nat
    OBVIOUS
  <2>3. ASSUME NEW o \in Nat, NEW s \in Seq(Nat), Holds(w, o, s)
        PROVE  Holds(raw, o, s)
    BY <2>3, <1>7, <1>8, HoldsStay
  <2> QED BY <1>7, <2>1, <2>2, <2>3
<1>13. BlobAt(raw, 0) = v.pub /\ Behind(raw, 0) = index
  <2>1. BlobAt(raw, 0) = v.pub /\ Behind(raw, 0) = 0 + 4 + Len(v.pub)
    BY <1>2, <1>3, <1>10, <1>12, BlobRead
  <2>2. 0 + 4 + Len(v.pub) = index
    BY <1>2, <1>11
  <2> QED BY <2>1, <2>2
<1>14. Uint32(raw, index) = v.fingerprint /\ Uint32(raw, index + 4) = v.external
  <2>1. Uint32(raw, index) = v.fingerprint
    BY <1>2, <1>3, <1>12, WordRead
  <2>2. PICK o \in Nat : o = index + 4
    OBVIOUS
  <2>3. Uint32(raw, o) = v.external
    BY <1>2, <1>3, <1>12, <2>2, WordRead
  <2> QED BY <2>1, <2>2, <2>3
<1>15. raw = serializeWatchOnlyAccountRow(v)
  BY <1>3, <1>5, <1>6, <1>8 DEF serializeWatchOnlyAccountRow
<1>16. ASSUME deserializeWatchOnlyAccountRow(raw).kind = "watchOnly"
       PROVE  /\ deserializeWatchOnlyAccountRow(raw).pub = v.pub
              /\ deserializeWatchOnlyAccountRow(raw).external = v.fingerprint
              /\ deserializeWatchOnlyAccountRow(raw).internal = v.external
  BY <1>13, <1>14, <1>16 DEF deserializeWatchOnlyAccountRow, Failed
<1> QED BY <1>10, <1>15, <1>16

\* So fetchAccountInfo fails or gives a shifted row.
LEMMA WatchOnlyFetched ==
    ASSUME NEW v \in WatchOnlyRows, NEW b,
           b = serializeAccountRow(accountWatchOnly, serializeWatchOnlyAccountRow(v)),
           fetchAccountInfo(b).kind = "watchOnly"
    PROVE  /\ fetchAccountInfo(b).pub = v.pub
           /\ fetchAccountInfo(b).external = v.fingerprint
           /\ fetchAccountInfo(b).internal = v.external
<1>1. PICK raw \in Seq(Nat) : raw = serializeWatchOnlyAccountRow(v)
  BY WatchOnlyRead
<1>2. accountWatchOnly \in Nat /\ accountWatchOnly # accountDefault
  BY DEF accountWatchOnly, accountDefault
<1>3. Len(b) = 5 + Len(raw) /\ b[1] = accountWatchOnly /\ BlobAt(b, 1) = raw
  BY <1>1, <1>2, AccountRead
<1>4. ~(Len(b) < 5)
  BY <1>3, LenProperties
<1>5. fetchAccountInfo(b) = deserializeWatchOnlyAccountRow(raw)
  BY <1>2, <1>3, <1>4 DEF fetchAccountInfo
<1> QED BY <1>1, <1>5, WatchOnlyRead

-----------------------------------------------------------------------------
(* Bytes.                                                                  *)

\* What is not longer than a row has a length of four bytes.
LEMMA Fits ==
    ASSUME NEW n \in Nat, NEW m \in Nat, n <= m, m <= MaxValueSize
    PROVE  n \in Word
BY SMT DEF Word, MaxValueSize

\* Bytes behind bytes are bytes.
LEMMA ConcatBytes ==
    ASSUME NEW a \in Seq(Byte), NEW c \in Seq(Byte)
    PROVE  a \o c \in Seq(Byte)
BY ConcatProperties

\* A blob that fits, with its length.
LEMMA BlobBytes ==
    ASSUME NEW s \in Seq(Byte), Len(s) \in Word
    PROVE  stringToBytes(s) \in Seq(Byte)
<1>1. uint32ToBytes(Len(s)) \in Seq(Byte)
  BY WordBytes
<1> QED BY <1>1, ConcatBytes DEF stringToBytes

\* A row that fits is bytes if its data is: account rows.
LEMMA AccountBytes ==
    ASSUME NEW raw \in Seq(Byte), Len(raw) \in Word, NEW acctType \in {0, 1}
    PROVE  serializeAccountRow(acctType, raw) \in Seq(Byte)
<1>1. <<acctType>> \in Seq(Byte)
  BY DEF Byte
<1>2. stringToBytes(raw) \in Seq(Byte)
  BY BlobBytes
<1> QED BY <1>1, <1>2, ConcatBytes DEF serializeAccountRow

\* Default accounts.
LEMMA DefaultBytes ==
    ASSUME NEW v \in DefaultRows, NEW b, Len(b) <= MaxValueSize,
           b = serializeAccountRow(accountDefault, serializeDefaultAccountRow(v))
    PROVE  b \in Seq(Byte)
<1>1. /\ v.pub \in Blobs /\ v.priv \in Blobs /\ v.name \in Blobs
      /\ v.external \in Numbers /\ v.internal \in Numbers
  BY DEF DefaultRows
<1>2. PICK raw \in Seq(Nat) : raw = serializeDefaultAccountRow(v)
  BY DefaultRead
<1>3. PICK h \in Nat, k \in Nat, m \in Nat : h = Len(v.pub) /\ k = Len(v.priv) /\ m = Len(v.name)
  BY <1>1, BlobsType
<1>4. Len(raw) = 20 + h + k + m
  BY <1>2, <1>3, DefaultRead
<1>5. Len(b) = 5 + Len(raw)
  <2>1. accountDefault \in Nat
    BY DEF accountDefault
  <2> QED BY <1>2, <2>1, AccountRead
<1>6. PICK n \in Nat : n = Len(b)
  BY <1>4, <1>5
<1>7. PICK l \in Nat : l = Len(raw)
  BY <1>4
<1>8. h <= n /\ k <= n /\ m <= n /\ l <= n
  BY <1>4, <1>5, <1>6, <1>7
<1>9. h \in Word /\ k \in Word /\ m \in Word /\ l \in Word
  BY <1>6, <1>8, Fits
<1>10. /\ stringToBytes(v.pub) \in Seq(Byte) /\ stringToBytes(v.priv) \in Seq(Byte)
       /\ stringToBytes(v.name) \in Seq(Byte)
  BY <1>1, <1>3, <1>9, BlobsType, BlobBytes
<1>11. uint32ToBytes(v.external) \in Seq(Byte) /\ uint32ToBytes(v.internal) \in Seq(Byte)
  BY <1>1, NumbersType, WordBytes
<1>12. raw \in Seq(Byte)
  <2>1. PICK c \in Seq(Byte) : c = stringToBytes(v.pub) \o stringToBytes(v.priv)
    BY <1>10, ConcatBytes
  <2>2. PICK d \in Seq(Byte) : d = c \o uint32ToBytes(v.external)
    BY <1>11, ConcatBytes
  <2>3. PICK e \in Seq(Byte) : e = d \o uint32ToBytes(v.internal)
    BY <1>11, ConcatBytes
  <2>4. e \o stringToBytes(v.name) \in Seq(Byte)
    BY <1>10, ConcatBytes
  <2> QED BY <1>2, <2>1, <2>2, <2>3, <2>4 DEF serializeDefaultAccountRow
<1>13. accountDefault \in {0, 1}
  BY DEF accountDefault
<1> QED BY <1>2, <1>7, <1>9, <1>12, <1>13, AccountBytes

\* Watch-only accounts.
LEMMA WatchOnlyBytes ==
    ASSUME NEW v \in WatchOnlyRows, NEW b, Len(b) <= MaxValueSize,
           b = serializeAccountRow(accountWatchOnly, serializeWatchOnlyAccountRow(v))
    PROVE  b \in Seq(Byte)
<1>1. /\ v.pub \in Blobs /\ v.name \in Blobs
      /\ v.fingerprint \in Numbers /\ v.external \in Numbers /\ v.internal \in Numbers
      /\ v.schema \in AccountSchemas \cup {NoSchema}
  BY DEF WatchOnlyRows
<1>2. PICK raw \in Seq(Nat) : raw = serializeWatchOnlyAccountRow(v)
  BY WatchOnlyRead
<1>3. PICK h \in Nat, k \in Nat, l \in Nat : h = Len(v.pub) /\ k = Len(v.name) /\ l = Len(raw)
  BY <1>1, BlobsType, LenProperties
<1>4. l >= 20 + h + k
  BY <1>2, <1>3, WatchOnlyRead
<1>5. Len(b) = 5 + l
  <2>1. accountWatchOnly \in Nat
    BY DEF accountWatchOnly
  <2> QED BY <1>2, <1>3, <2>1, AccountRead
<1>6. PICK n \in Nat : n = Len(b)
  BY <1>5
<1>7. h <= n /\ k <= n /\ l <= n
  BY <1>4, <1>5, <1>6
<1>8. h \in Word /\ k \in Word /\ l \in Word
  BY <1>6, <1>7, Fits
<1>9. stringToBytes(v.pub) \in Seq(Byte) /\ stringToBytes(v.name) \in Seq(Byte)
  BY <1>1, <1>3, <1>8, BlobsType, BlobBytes
<1>10. /\ uint32ToBytes(v.fingerprint) \in Seq(Byte)
       /\ uint32ToBytes(v.external) \in Seq(Byte) /\ uint32ToBytes(v.internal) \in Seq(Byte)
  BY <1>1, NumbersType, WordBytes
<1>11. PICK z \in Seq(Byte) : z = IF v.schema = NoSchema THEN <<ByteOf(FALSE)>>
                                  ELSE <<ByteOf(TRUE)>> \o scopeSchemaToBytes(v.schema)
  <2>1. <<ByteOf(FALSE)>> \in Seq(Byte) /\ <<ByteOf(TRUE)>> \in Seq(Byte)
    BY DEF ByteOf, Byte
  <2>2. CASE v.schema = NoSchema
    BY <2>1, <2>2
  <2>3. CASE v.schema # NoSchema
    <3>1. v.schema.internal \in Byte /\ v.schema.external \in Byte
      BY <1>1, <2>3, SchemaType
    <3>2. scopeSchemaToBytes(v.schema) \in Seq(Byte)
      BY <3>1 DEF scopeSchemaToBytes
    <3>3. <<ByteOf(TRUE)>> \o scopeSchemaToBytes(v.schema) \in Seq(Byte)
      BY <2>1, <3>2, ConcatBytes
    <3> QED BY <2>3, <3>3
  <2> QED BY <2>2, <2>3
<1>12. raw \in Seq(Byte)
  <2>1. PICK c \in Seq(Byte) : c = stringToBytes(v.pub) \o uint32ToBytes(v.fingerprint)
    BY <1>9, <1>10, ConcatBytes
  <2>2. PICK d \in Seq(Byte) : d = c \o uint32ToBytes(v.external)
    BY <1>10, ConcatBytes
  <2>3. PICK e \in Seq(Byte) : e = d \o uint32ToBytes(v.internal)
    BY <1>10, ConcatBytes
  <2>4. PICK f \in Seq(Byte) : f = e \o stringToBytes(v.name)
    BY <1>9, ConcatBytes
  <2>5. f \o z \in Seq(Byte)
    BY ConcatBytes
  <2> QED BY <1>2, <1>11, <2>1, <2>2, <2>3, <2>4, <2>5 DEF serializeWatchOnlyAccountRow
<1>13. accountWatchOnly \in {0, 1}
  BY DEF accountWatchOnly
<1> QED BY <1>2, <1>3, <1>8, <1>12, <1>13, AccountBytes

\* Two blobs that fit together.
LEMMA TwoBlobsBytes ==
    ASSUME NEW s \in Blobs, NEW t \in Blobs, NEW n \in Nat, n <= MaxValueSize,
           Len(s) <= n, Len(t) <= n
    PROVE  stringToBytes(s) \in Seq(Byte) /\ stringToBytes(t) \in Seq(Byte)
<1>1. s \in Seq(Byte) /\ t \in Seq(Byte) /\ Len(s) \in Nat /\ Len(t) \in Nat
  BY BlobsType
<1>2. Len(s) \in Word /\ Len(t) \in Word
  BY <1>1, Fits
<1> QED BY <1>1, <1>2, BlobBytes

\* Script addresses, the whole row.
LEMMA ScriptBytes ==
    ASSUME NEW v \in Scripts, NEW account \in Numbers, NEW status \in 0 .. 2, NEW b,
           Len(b) <= MaxValueSize,
           b = serializeAddressRow(adtScript, account, status, serializeScriptAddress(v))
    PROVE  b \in Seq(Byte)
<1>1. v.hash \in Blobs /\ v.script \in Blobs
  BY DEF Scripts
<1>2. PICK h \in Nat, k \in Nat : h = Len(v.hash) /\ k = Len(v.script)
  BY <1>1, BlobsType
<1>3. PICK raw \in Seq(Nat) : raw = serializeScriptAddress(v)
  BY ScriptLen
<1>4. Len(raw) = 8 + h + k
  BY <1>2, <1>3, ScriptLen
<1>5. adtScript \in Nat /\ account \in Nat /\ status \in Nat
  BY NumbersType DEF adtScript
<1>6. Len(b) = 18 + Len(raw)
  BY <1>3, <1>5, AddressLen
<1>7. PICK n \in Nat, l \in Nat : n = Len(b) /\ l = Len(raw)
  BY <1>4, <1>6
<1>8. h <= n /\ k <= n /\ l <= n
  BY <1>4, <1>6, <1>7
<1>9. stringToBytes(v.hash) \in Seq(Byte) /\ stringToBytes(v.script) \in Seq(Byte)
  BY <1>1, <1>2, <1>7, <1>8, TwoBlobsBytes
<1>10. raw \in Seq(Byte) /\ Len(raw) \in Word
  BY <1>3, <1>7, <1>8, <1>9, ConcatBytes, Fits DEF serializeScriptAddress
<1>11. stringToBytes(raw) \in Seq(Byte)
  BY <1>10, BlobBytes
<1>12. uint32ToBytes(account) \in Seq(Byte)
  BY NumbersType, WordBytes
<1>13. <<adtScript>> \in Seq(Byte) /\ addTime \in Seq(Byte) /\ <<status>> \in Seq(Byte)
  BY DEF adtScript, addTime, Byte
<1>14. PICK c \in Seq(Byte) : c = <<adtScript>> \o uint32ToBytes(account)
  BY <1>12, <1>13, ConcatBytes
<1>15. PICK d \in Seq(Byte) : d = c \o addTime
  BY <1>13, ConcatBytes
<1>16. PICK e \in Seq(Byte) : e = d \o <<status>>
  BY <1>13, ConcatBytes
<1>17. e \o stringToBytes(raw) \in Seq(Byte)
  BY <1>11, ConcatBytes
<1> QED BY <1>3, <1>14, <1>15, <1>16, <1>17 DEF serializeAddressRow

\* Scopes.
LEMMA ScopeBytes ==
    ASSUME NEW v \in Scopes
    PROVE  scopeToBytes(v) \o scopeSchemaToBytes(v.schema) \in Seq(Byte)
<1>1. /\ v.purpose \in Numbers /\ v.coin \in Numbers
      /\ v.schema.internal \in Byte /\ v.schema.external \in Byte
  BY DEF Scopes, Schemas, AddressTypes, Byte
<1>2. uint32ToBytes(v.purpose) \in Seq(Byte) /\ uint32ToBytes(v.coin) \in Seq(Byte)
  BY <1>1, NumbersType, WordBytes
<1>3. PICK a \in Seq(Byte) : a = uint32ToBytes(v.purpose) \o uint32ToBytes(v.coin)
  BY <1>2, ConcatBytes
<1>4. PICK c \in Seq(Byte) : c = <<v.schema.internal, v.schema.external>>
  <2>1. <<v.schema.internal, v.schema.external>> \in Seq(Byte)
    BY <1>1
  <2> QED BY <2>1
<1>5. a \o c \in Seq(Byte)
  BY ConcatBytes
<1> QED BY <1>3, <1>4, <1>5 DEF scopeToBytes, scopeSchemaToBytes

-----------------------------------------------------------------------------
(* The bucket.                                                             *)

\* What is read, of whatever lies in the bucket.
ReadsInv ==
    RowsRoundTrip /\ AddressRowsRefused /\ WatchOnlyShifted

RowCodecInv == Written /\ RowsAreBytes /\ ReadsInv

\* A put writes one value, and what was fetched before is forgotten.
LEMMA PutStep ==
    ASSUME NEW v, NEW b, Put(v, b)
    PROVE  ReadsInv'
<1>1. fetched' = Nothing /\ fetched'.kind = "none"
  BY DEF Put, Nothing, Failed
<1> QED BY <1>1 DEF ReadsInv, RowsRoundTrip, Reads, AddressRowsRefused,
                    WatchOnlyShifted

\* Every put leaves the value and its bytes in the bucket.
LEMMA PutInv ==
    (putScope \/ putDefaultAccountInfo \/ putWatchOnlyAccountInfo
       \/ putScriptAddress) => RowCodecInv'
<1>1. ASSUME NEW v \in Scopes, Put(v, scopeToBytes(v) \o scopeSchemaToBytes(v.schema))
      PROVE  RowCodecInv'
  <2>1. ReadsInv'
    BY <1>1, PutStep
  <2>2. value' = v /\ value'.kind = "scope"
        /\ bytes' = scopeToBytes(v) \o scopeSchemaToBytes(v.schema)
    BY <1>1 DEF Put, Scopes
  <2>3. RowsAreBytes'
    BY <2>2, ScopeBytes DEF RowsAreBytes, Byte
  <2>4. Written'
    BY <2>2 DEF Written
  <2> QED BY <2>1, <2>3, <2>4 DEF RowCodecInv
<1>2. ASSUME NEW v \in DefaultRows,
             Put(v, serializeAccountRow(accountDefault, serializeDefaultAccountRow(v)))
      PROVE  RowCodecInv'
  <2>1. ReadsInv'
    BY <1>2, PutStep
  <2>2. /\ value' = v /\ value'.kind = "default" /\ Len(bytes') <= MaxValueSize
        /\ bytes' = serializeAccountRow(accountDefault, serializeDefaultAccountRow(v))
    BY <1>2 DEF Put, DefaultRows
  <2>3. RowsAreBytes'
    BY <2>2, DefaultBytes DEF RowsAreBytes, Byte
  <2>4. Written'
    BY <2>2 DEF Written
  <2> QED BY <2>1, <2>3, <2>4 DEF RowCodecInv
<1>3. ASSUME NEW v \in WatchOnlyRows,
             Put(v, serializeAccountRow(accountWatchOnly, serializeWatchOnlyAccountRow(v)))
      PROVE  RowCodecInv'
  <2>1. ReadsInv'
    BY <1>3, PutStep
  <2>2. /\ value' = v /\ value'.kind = "watchOnly" /\ Len(bytes') <= MaxValueSize
        /\ bytes' = serializeAccountRow(accountWatchOnly, serializeWatchOnlyAccountRow(v))
    BY <1>3 DEF Put, WatchOnlyRows
  <2>3. RowsAreBytes'
    BY <2>2, WatchOnlyBytes DEF RowsAreBytes, Byte
  <2>4. Written'
    BY <2>2 DEF Written
  <2> QED BY <2>1, <2>3, <2>4 DEF RowCodecInv
<1>4. ASSUME NEW v \in Scripts, NEW account \in Numbers, NEW status \in 0 .. 2,
             Put(v, serializeAddressRow(adtScript, account, status, serializeScriptAddress(v)))
      PROVE  RowCodecInv'
  <2>1. ReadsInv'
    BY <1>4, PutStep
  <2>2. /\ value' = v /\ value'.kind = "script" /\ Len(bytes') <= MaxValueSize
        /\ bytes' = serializeAddressRow(adtScript, account, status, serializeScriptAddress(v))
    BY <1>4 DEF Put, Scripts
  <2>3. RowsAreBytes'
    BY <2>2, ScriptBytes DEF RowsAreBytes, Byte
  <2>4. Written'
    BY <2>2 DEF Written
  <2> QED BY <2>1, <2>3, <2>4 DEF RowCodecInv
<1> QED
  BY <1>1, <1>2, <1>3, <1>4
     DEF putScope, putDefaultAccountInfo, putWatchOnlyAccountInfo, putScriptAddress

\* A fetch changes only what was read.
LEMMA FetchKeeps ==
    ASSUME NEW kind, NEW f, Fetch(kind, f), Written, RowsAreBytes
    PROVE  Written' /\ RowsAreBytes' /\ value' = value /\ value.kind = kind /\ fetched' = f
BY DEF Fetch, Written, RowsAreBytes

\* Every fetch reads what was written, fails, or reads a shifted row.
LEMMA FetchInv ==
    ASSUME RowCodecInv,
           \/ Fetch("scope", fetchScope(bytes))
           \/ Fetch("default", fetchAccountInfo(bytes))
           \/ Fetch("watchOnly", fetchAccountInfo(bytes))
           \/ Fetch("script", fetchAddress(bytes))
    PROVE  RowCodecInv'
<1> USE DEF RowCodecInv
<1>1. ASSUME NEW kind \in {"scope", "default"}, NEW f,
             Fetch(kind, f), f = value
      PROVE  RowCodecInv'
  <2>1. Written' /\ RowsAreBytes' /\ value' = value /\ value.kind = kind /\ fetched' = value
    BY <1>1, FetchKeeps
  <2>2. value'.kind # "script" /\ fetched'.kind # "watchOnly"
    BY <2>1
  <2> QED BY <2>1, <2>2 DEF ReadsInv, RowsRoundTrip, Reads,
                            AddressRowsRefused, WatchOnlyShifted
<1>2. CASE Fetch("scope", fetchScope(bytes))
  <2>1. fetchScope(bytes) = value
    BY <1>2, ScopeRead DEF Fetch, Written
  <2> QED BY <1>1, <1>2, <2>1
<1>3. CASE Fetch("default", fetchAccountInfo(bytes))
  <2>1. fetchAccountInfo(bytes) = value
    BY <1>3, DefaultFetched DEF Fetch, Written
  <2> QED BY <1>1, <1>3, <2>1
<1>4. CASE Fetch("watchOnly", fetchAccountInfo(bytes))
  <2>1. /\ Written' /\ RowsAreBytes' /\ value' = value /\ value.kind = "watchOnly"
        /\ fetched' = fetchAccountInfo(bytes)
    BY <1>4, FetchKeeps
  <2>2. /\ value \in WatchOnlyRows
        /\ bytes = serializeAccountRow(accountWatchOnly, serializeWatchOnlyAccountRow(value))
    BY <2>1 DEF Written
  <2>3. WatchOnlyShifted'
    BY <2>1, <2>2, WatchOnlyFetched DEF WatchOnlyShifted
  <2> QED BY <2>1, <2>3 DEF ReadsInv, RowsRoundTrip, Reads, AddressRowsRefused
<1>5. CASE Fetch("script", fetchAddress(bytes))
  <2>1. /\ Written' /\ RowsAreBytes' /\ value' = value /\ value.kind = "script"
        /\ fetched' = fetchAddress(bytes)
    BY <1>5, FetchKeeps
  <2>2. fetched' = Failed("ErrDatabase")
    BY <2>1, ScriptRefused DEF Written
  <2>3. fetched'.kind # "watchOnly"
    BY <2>2 DEF Failed
  <2> QED BY <2>1, <2>2, <2>3 DEF ReadsInv, RowsRoundTrip, Reads,
                                  AddressRowsRefused, WatchOnlyShifted
<1> QED BY <1>2, <1>3, <1>4, <1>5

\* The bucket holds the bytes of the value put last, and reading them gives
\* what the parts of the invariant say.
THEOREM RowCodecInvariant == Spec => []RowCodecInv
<1>1. Init => RowCodecInv
  <2> SUFFICES ASSUME Init PROVE RowCodecInv
    OBVIOUS
  <2>1. value.kind = "none" /\ fetched = Nothing /\ fetched.kind = "none" /\ bytes = <<>>
    BY DEF Init, Nothing, Failed
  <2>2. Written
    BY <2>1 DEF Written
  <2>3. ReadsInv
    BY <2>1 DEF ReadsInv, RowsRoundTrip, Reads, AddressRowsRefused,
                WatchOnlyShifted
  <2> QED BY <2>1, <2>2, <2>3 DEF RowCodecInv, RowsAreBytes
<1>2. RowCodecInv /\ [Next]_vars => RowCodecInv'
  <2> SUFFICES ASSUME RowCodecInv, [Next]_vars PROVE RowCodecInv'
    OBVIOUS
  <2>1. CASE putScope \/ putDefaultAccountInfo \/ putWatchOnlyAccountInfo
               \/ putScriptAddress
    BY <2>1, PutInv
  <2>2. CASE \/ Fetch("scope", fetchScope(bytes))
             \/ Fetch("default", fetchAccountInfo(bytes))
             \/ Fetch("watchOnly", fetchAccountInfo(bytes))
             \/ Fetch("script", fetchAddress(bytes))
    BY <2>2, FetchInv
  <2>3. CASE UNCHANGED vars
    BY <2>3 DEF vars, RowCodecInv, Written, RowsAreBytes, ReadsInv, RowsRoundTrip,
                Reads, AddressRowsRefused, WatchOnlyShifted
  <2> QED BY <2>1, <2>2, <2>3 DEF Next
<1> QED BY <1>1, <1>2, PTL DEF Spec

\* Accounts and scopes are read back as they were written, whatever the lengths
\* of keys and names and the numbers in between (account_info.go:216, 308).
THEOREM RowsAreReadBack == Spec => []RowsRoundTrip
<1>1. RowCodecInv => RowsRoundTrip
  BY DEF RowCodecInv, ReadsInv
<1> QED BY <1>1, RowCodecInvariant, PTL

\* No length or number outgrows the four bytes it is written in, so that the
\* rows of the model are those of the code (db.go:1143, 1149).
THEOREM RowsStayBytes == Spec => []RowsAreBytes
<1>1. RowCodecInv => RowsAreBytes
  BY DEF RowCodecInv
<1> QED BY <1>1, RowCodecInvariant, PTL

\* An address that was put is never fetched: deserializeAddressRow refuses every
\* row with data (db.go:870).
THEOREM AddressesAreRefused == Spec => []AddressRowsRefused
<1>1. RowCodecInv => AddressRowsRefused
  BY DEF RowCodecInv, ReadsInv
<1> QED BY <1>1, RowCodecInvariant, PTL

\* A watch-only account comes back with its numbers shifted by one field
\* (account_info.go:342).
THEOREM WatchOnlyRowsShift == Spec => []WatchOnlyShifted
<1>1. RowCodecInv => WatchOnlyShifted
  BY DEF RowCodecInv, ReadsInv
<1> QED BY <1>1, RowCodecInvariant, PTL
=============================================================================
