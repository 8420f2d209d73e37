-------------------------- MODULE LabelStackProofs --------------------------
(***************************************************************************)
(* A header read is the header written, for every label, traffic class and *)
(* TTL: no field of the 32-bit word disturbs another.  From that, the bytes *)
(* of a packet are at every moment the labels put on it and the IP packet. *)
(***************************************************************************)
EXTENDS LabelStack, SequenceTheorems, TLAPS

\* ParseLabel undoes EncodeLabel, in every field, for every value the callers
\* can pass; a label beyond LabelMax is read as LabelMax.
THEOREM ParseEncode ==
  ASSUME NEW label \in Nat, NEW tc \in 0..7, NEW bottom \in BOOLEAN, NEW ttl \in 0..255
  PROVE  ParseLabel(EncodeLabel(label, tc, bottom, ttl))
            = [label |-> Clamp(label), tc |-> tc, bottom |-> bottom, ttl |-> ttl]
<1>1. PICK c : c = Clamp(label)
  BY Zenon
<1>2. c \in Nat /\ c <= 1048575
  BY <1>1, SMT DEF Clamp, LabelMax
<1>3. PICK s : s = IF bottom THEN 1 ELSE 0
  BY Zenon
<1>4. s \in {0, 1} /\ (s = 1 <=> bottom)
  BY <1>3, SMT
<1>5. PICK v : v = 16 * c + 2 * tc + s
  BY Zenon
<1>6. v \in Nat /\ v <= 16777215
  BY <1>2, <1>4, <1>5, SMT
<1>7. v \div 16 = c /\ (v \div 2) % 8 = tc /\ v % 2 = s
  BY <1>2, <1>4, <1>5, SMT
\* The three bytes of the word, put together again.
<1>8. 65536 * (v \div 65536) + 256 * ((v \div 256) % 256) + (v % 256) = v
  BY <1>6, SMT
<1>9. EncodeLabel(label, tc, bottom, ttl)
        = <<v \div 65536, (v \div 256) % 256, v % 256, ttl>>
  BY <1>1, <1>3, <1>5, SMT DEF EncodeLabel
<1>10. QED
  BY <1>1, <1>4, <1>7, <1>8, <1>9, SMT DEF ParseLabel

-----------------------------------------------------------------------------
\* The labels that fit the 20 bits of a header.
Encodable == {label \in Nat : label <= LabelMax}

\* The bytes of a packet that carries these labels: their headers, byte by byte,
\* and the IP packet.
Carries(bytes, labels, ip) ==
    /\ bytes \in Seq(Byte) /\ labels \in Seq(Encodable)
    /\ Len(bytes) = 4 * Len(labels) + Len(ip)
    /\ \A n \in 1..Len(labels) : \A i \in 1..4 :
          bytes[4 * n - 4 + i] = Header(labels[n])[i]
    /\ \A k \in 1..Len(ip) : bytes[4 * Len(labels) + k] = ip[k]

IInv == /\ inner \in Payloads /\ todo \in Seq(Labels)
        /\ stack \in Seq(Encodable) /\ Len(stack) <= MaxDepth
        /\ Len(todo) <= Len(stack)
        /\ \A n \in 1..Len(todo) : stack[n] = Clamp(todo[n])
        /\ Carries(data, OnPacket, inner)

LEMMA ClampRange ==
  ASSUME NEW label \in Nat
  PROVE  Clamp(label) \in Encodable /\ Clamp(Clamp(label)) = Clamp(label)
BY SMT DEF Clamp, Encodable, LabelMax

\* A header is four bytes; its first nibble is that of the label.
LEMMA HeaderBytes ==
  ASSUME NEW label \in Nat
  PROVE  /\ Header(label) \in Seq(Byte) /\ Len(Header(label)) = 4
         /\ Header(label)[1] \div 16 = Clamp(label) \div 65536
         /\ Header(Clamp(label)) = Header(label)
<1>1. PICK c : c = Clamp(label)
  BY Zenon
<1>2. c \in Nat /\ c <= 1048575 /\ Clamp(c) = c
  BY <1>1, SMT DEF Clamp, LabelMax
<1>3. PICK v : v = 16 * c + 2 * 0 + 1
  BY Zenon
<1>4. v \in Nat /\ v <= 16777215
  BY <1>2, <1>3, SMT
<1>5. Header(label) = <<v \div 65536, (v \div 256) % 256, v % 256, 64>>
  BY <1>1, <1>3, SMT DEF Header, EncodeLabel
<1>6. Header(c) = Header(label)
  BY <1>1, <1>2, SMT DEF Header, EncodeLabel
<1>7. /\ v \div 65536 \in Byte /\ (v \div 256) % 256 \in Byte
      /\ v % 256 \in Byte /\ 64 \in Byte
  BY <1>4, SMT DEF Byte
<1>8. (v \div 65536) \div 16 = c \div 65536
  <2>1. (v \div 65536) \div 16 = v \div 1048576
    BY <1>4, SMT
  <2>2. v \div 1048576 = c \div 65536
    BY <1>2, <1>3, SMT
  <2>3. QED
    BY <2>1, <2>2, SMT
<1>9. QED
  BY <1>1, <1>5, <1>6, <1>7, <1>8, SMT

LEMMA PushCarries ==
  ASSUME NEW bytes, NEW labels, NEW ip, NEW label \in Nat, ip \in Seq(Byte),
         Carries(bytes, labels, ip)
  PROVE  Carries(PushLabel(bytes, label), <<Clamp(label)>> \o labels, ip)
<1> DEFINE new == PushLabel(bytes, label)
           ls == <<Clamp(label)>> \o labels
<1>1. PICK h : h = Header(label) /\ h = Header(Clamp(label))
  BY HeaderBytes
<1>2. h \in Seq(Byte) /\ Len(h) = 4
  BY <1>1, HeaderBytes
<1>3. bytes \in Seq(Byte) /\ labels \in Seq(Encodable) /\ Clamp(label) \in Encodable
  BY ClampRange DEF Carries
<1>4. /\ new \in Seq(Byte) /\ Len(new) = 4 + Len(bytes)
      /\ \A j \in 1..4 : new[j] = h[j]
      /\ \A j \in 1..Len(bytes) : new[4 + j] = bytes[j]
  <2>1. new = h \o bytes
    BY <1>1 DEF PushLabel
  <2> HIDE DEF new
  <2>2. /\ new \in Seq(Byte) /\ Len(new) = 4 + Len(bytes)
        /\ \A j \in 1..(4 + Len(bytes)) :
              new[j] = IF j <= 4 THEN h[j] ELSE bytes[j - 4]
    <3>1. /\ new \in Seq(Byte) /\ Len(new) = Len(h) + Len(bytes)
          /\ \A j \in 1..(Len(h) + Len(bytes)) :
                new[j] = IF j <= Len(h) THEN h[j] ELSE bytes[j - Len(h)]
      BY <1>2, <1>3, <2>1, ConcatProperties
    <3>2. QED
      BY <1>2, <3>1
  <2>3. Len(bytes) \in Nat
    BY <1>3
  <2>4. \A j \in 1..4 : j \in 1..(4 + Len(bytes)) /\ j <= 4
    BY <2>3
  <2>5. ASSUME NEW j \in 1..Len(bytes) PROVE new[4 + j] = bytes[j]
    <3>1. 4 + j \in 1..(4 + Len(bytes)) /\ ~(4 + j <= 4) /\ 4 + j - 4 = j
      BY <2>3
    <3>2. QED
      BY <2>2, <3>1
  <2>6. QED
    BY <2>2, <2>4, <2>5
<1>5. ls \in Seq(Encodable) /\ Len(ls) = 1 + Len(labels)
  BY <1>3
<1>6. ASSUME NEW n \in 1..Len(ls), NEW i \in 1..4
      PROVE  new[4 * n - 4 + i] = Header(ls[n])[i]
  <2>1. CASE n = 1
    <3>1. ls[n] = Clamp(label) /\ 4 * n - 4 + i = i
      BY <1>3, <2>1
    <3>2. new[i] = h[i]
      BY <1>4
    <3>3. QED
      BY <1>1, <3>1, <3>2
  <2>2. CASE n # 1
    <3>1. n - 1 \in 1..Len(labels) /\ ls[n] = labels[n - 1]
      BY <1>3, <1>5, <2>2
    <3>2. bytes[4 * (n - 1) - 4 + i] = Header(labels[n - 1])[i]
      BY <3>1 DEF Carries
    <3>3. /\ 4 * n - 4 + i = 4 + (4 * (n - 1) - 4 + i)
          /\ 4 * (n - 1) - 4 + i \in 1..Len(bytes)
      BY <3>1 DEF Carries
    <3>4. new[4 + (4 * (n - 1) - 4 + i)] = bytes[4 * (n - 1) - 4 + i]
      BY <1>4, <3>3, Zenon
    <3>5. QED
      BY <3>1, <3>2, <3>3, <3>4
  <2>3. QED
    BY <2>1, <2>2
<1>7. ASSUME NEW k \in 1..Len(ip)
      PROVE  new[4 * Len(ls) + k] = ip[k]
  <2>1. /\ bytes[4 * Len(labels) + k] = ip[k] /\ Len(labels) \in Nat
        /\ 4 * Len(labels) + k \in 1..Len(bytes)
    BY <1>3 DEF Carries
  <2>2. new[4 + (4 * Len(labels) + k)] = bytes[4 * Len(labels) + k]
    BY <1>4, <2>1, Zenon
  <2>3. 4 * Len(ls) + k = 4 + (4 * Len(labels) + k)
    BY <1>5, <2>1
  <2>4. QED
    BY <2>1, <2>2, <2>3
<1>8. Len(new) = 4 * Len(ls) + Len(ip)
  BY <1>3, <1>4, <1>5 DEF Carries
<1> HIDE DEF new, ls
<1>9. Carries(new, ls, ip)
  BY <1>4, <1>5, <1>6, <1>7, <1>8 DEF Carries
<1>10. QED
  BY <1>9 DEF new, ls

LEMMA PopCarries ==
  ASSUME NEW bytes, NEW labels, NEW ip, ip \in Seq(Byte), labels # <<>>,
         Carries(bytes, labels, ip)
  PROVE  Carries(Rest(bytes), Tail(labels), ip)
<1> DEFINE new == Rest(bytes)
           ls == Tail(labels)
<1>1. /\ bytes \in Seq(Byte) /\ labels \in Seq(Encodable) /\ Len(labels) \in Nat \ {0}
      /\ Len(bytes) = 4 * Len(labels) + Len(ip) /\ Len(ip) \in Nat
  BY DEF Carries
<1>2. /\ new \in Seq(Byte) /\ Len(new) = Len(bytes) - 4
      /\ \A j \in 1..Len(new) : new[j] = bytes[4 + j]
  <2>1. new = SubSeq(bytes, 5, Len(bytes))
    BY DEF Rest, LabelEntrySize
  <2> HIDE DEF new
  <2>2. 4 <= Len(bytes) /\ Len(bytes) \in Nat
    BY <1>1
  <2>3. \A j \in 5..Len(bytes) : bytes[j] \in Byte
    BY <1>1
  <2>4. /\ new \in Seq(Byte)
        /\ Len(new) = IF 5 <= Len(bytes) THEN Len(bytes) - 5 + 1 ELSE 0
        /\ \A j \in 1..(Len(bytes) - 5 + 1) : new[j] = bytes[5 + j - 1]
    BY <2>1, <2>2, <2>3, SubSeqProperties
  <2>5. Len(new) = Len(bytes) - 4 /\ Len(bytes) - 5 + 1 = Len(new)
    <3>1. Len(new) = IF 5 <= Len(bytes) THEN Len(bytes) - 5 + 1 ELSE 0
      BY <2>4, Zenon
    <3>2. CASE 5 <= Len(bytes)
      BY <2>2, <3>1, <3>2
    <3>3. CASE Len(bytes) = 4
      BY <3>1, <3>3
    <3>4. QED
      BY <1>1, <2>2, <3>2, <3>3
  <2>6. ASSUME NEW j \in 1..Len(new) PROVE new[j] = bytes[4 + j]
    <3>1. 5 + j - 1 = 4 + j
      OBVIOUS
    <3>2. QED
      BY <2>4, <2>5, <3>1
  <2>7. QED
    BY <2>4, <2>5, <2>6
<1>3. /\ ls \in Seq(Encodable) /\ Len(ls) = Len(labels) - 1
      /\ \A n \in 1..Len(ls) : ls[n] = labels[n + 1]
  BY <1>1
<1> HIDE DEF new, ls
<1>4. ASSUME NEW n \in 1..Len(ls), NEW i \in 1..4
      PROVE  new[4 * n - 4 + i] = Header(ls[n])[i]
  <2>1. n + 1 \in 1..Len(labels) /\ 4 * n - 4 + i \in 1..Len(new)
    BY <1>1, <1>2, <1>3
  <2>2. bytes[4 * (n + 1) - 4 + i] = Header(labels[n + 1])[i]
    BY <2>1 DEF Carries
  <2>3. 4 * (n + 1) - 4 + i = 4 + (4 * n - 4 + i)
    BY <1>3
  <2>4. QED
    BY <1>2, <1>3, <2>1, <2>2, <2>3
<1>5. ASSUME NEW k \in 1..Len(ip)
      PROVE  new[4 * Len(ls) + k] = ip[k]
  <2>1. bytes[4 * Len(labels) + k] = ip[k]
    BY DEF Carries
  <2>2. /\ 4 * Len(ls) + k \in 1..Len(new)
        /\ 4 + (4 * Len(ls) + k) = 4 * Len(labels) + k
    BY <1>1, <1>2, <1>3
  <2>3. QED
    BY <1>2, <2>1, <2>2
<1>6. Len(new) = 4 * Len(ls) + Len(ip)
  BY <1>1, <1>2, <1>3
<1>7. Carries(new, ls, ip)
  BY <1>2, <1>3, <1>4, <1>5, <1>6 DEF Carries
<1>8. QED
  BY <1>7 DEF new, ls


\* What the next router reads from the bytes.
LEMMA CarriesRead ==
  ASSUME NEW bytes, NEW labels, NEW ip, ip \in Seq(Byte), Carries(bytes, labels, ip)
  PROVE  /\ \A n \in 1..Len(labels) :
               ParseLabel(SubSeq(bytes, 4 * n - 3, 4 * n)).label = labels[n]
         /\ SubSeq(bytes, 4 * Len(labels) + 1, Len(bytes)) = ip
<1>1. /\ bytes \in Seq(Byte) /\ labels \in Seq(Encodable) /\ Len(labels) \in Nat
      /\ Len(bytes) = 4 * Len(labels) + Len(ip) /\ Len(ip) \in Nat
  BY DEF Carries
<1>2. ASSUME NEW n \in 1..Len(labels)
      PROVE  ParseLabel(SubSeq(bytes, 4 * n - 3, 4 * n)).label = labels[n]
  <2>1. PICK h : h = SubSeq(bytes, 4 * n - 3, 4 * n)
    BY Zenon
  <2>2. \A i \in 1..4 : h[i] = bytes[4 * n - 4 + i]
    <3>1. \A j \in (4 * n - 3)..(4 * n) : bytes[j] \in Byte
      BY <1>1
    <3>2. \A i \in 1..(4 * n - (4 * n - 3) + 1) : h[i] = bytes[(4 * n - 3) + i - 1]
      BY <2>1, <3>1, SubSeqProperties
    <3>3. ASSUME NEW i \in 1..4 PROVE h[i] = bytes[4 * n - 4 + i]
      <4>1. i \in 1..(4 * n - (4 * n - 3) + 1) /\ (4 * n - 3) + i - 1 = 4 * n - 4 + i
        BY <1>1
      <4>2. QED
        BY <3>2, <4>1
    <3>4. QED
      BY <3>3
  <2>3. PICK c : c = labels[n]
    BY Zenon
  <2>4. c \in Nat /\ Clamp(c) = c
    BY <1>1, <2>3, SMT DEF Encodable, Clamp, LabelMax
  <2>5. \A i \in 1..4 : h[i] = Header(c)[i]
    BY <2>2, <2>3 DEF Carries
  <2>6. /\ h[1] = Header(c)[1] /\ h[2] = Header(c)[2]
        /\ h[3] = Header(c)[3] /\ h[4] = Header(c)[4]
    BY <2>5
  <2>7. ParseLabel(h) = ParseLabel(Header(c))
    BY <2>6, SMT DEF ParseLabel
  <2>8. ParseLabel(Header(c)).label = Clamp(c)
    <3>1. 0 \in 0..7 /\ TRUE \in BOOLEAN /\ 64 \in 0..255
      OBVIOUS
    <3>2. ParseLabel(EncodeLabel(c, 0, TRUE, 64))
            = [label |-> Clamp(c), tc |-> 0, bottom |-> TRUE, ttl |-> 64]
      BY <2>4, <3>1, ParseEncode, Zenon
    <3>3. ParseLabel(Header(c)) = [label |-> Clamp(c), tc |-> 0, bottom |-> TRUE, ttl |-> 64]
      BY <3>2, Zenon DEF Header
    <3>4. QED
      BY <3>3
  <2>9. QED
    BY <2>1, <2>3, <2>4, <2>7, <2>8
<1>3. SubSeq(bytes, 4 * Len(labels) + 1, Len(bytes)) = ip
  <2>1. PICK rest : rest = SubSeq(bytes, 4 * Len(labels) + 1, Len(bytes))
    BY Zenon
  <2>2. PICK m : m = 4 * Len(labels) + 1
    BY Zenon
  <2>3. m \in Int /\ m >= 1 /\ Len(bytes) \in Int /\ Len(bytes) - m + 1 = Len(ip)
    BY <1>1, <2>2
  <2>4. \A j \in m..Len(bytes) : bytes[j] \in Byte
    BY <1>1, <2>3
  <2>5. /\ rest \in Seq(Byte)
        /\ Len(rest) = IF m <= Len(bytes) THEN Len(bytes) - m + 1 ELSE 0
        /\ \A i \in 1..(Len(bytes) - m + 1) : rest[i] = bytes[m + i - 1]
    BY <2>1, <2>2, <2>3, <2>4, SubSeqProperties
  <2>6. Len(rest) = Len(ip)
    <3>1. Len(rest) = IF m <= Len(bytes) THEN Len(bytes) - m + 1 ELSE 0
      BY <2>5, Zenon
    <3>2. QED
      BY <1>1, <2>3, <3>1
  <2>7. ASSUME NEW i \in 1..Len(ip) PROVE rest[i] = ip[i]
    <3>1. m + i - 1 = 4 * Len(labels) + i /\ i \in 1..(Len(bytes) - m + 1)
      BY <1>1, <2>2, <2>3
    <3>2. QED
      BY <2>5, <3>1 DEF Carries
  <2>8. QED
    BY <2>1, <2>5, <2>6, <2>7, SeqEqual
<1>4. QED
  BY <1>2, <1>3

\* What detectPacketType makes of the bytes.
LEMMA CarriesDetect ==
  ASSUME NEW bytes, NEW labels, NEW ip \in Payloads, Carries(bytes, labels, ip)
  PROVE  DetectPacketType(bytes) = "mpls"
            <=> labels # <<>> /\ labels[1] \div 65536 \notin {4, 6}
<1>1. /\ bytes \in Seq(Byte) /\ labels \in Seq(Encodable) /\ Len(labels) \in Nat
      /\ Len(bytes) = 4 * Len(labels) + Len(ip) /\ Len(ip) \in Nat
      /\ ip \in Seq(Byte) /\ ip # <<>> /\ ip[1] \div 16 \in {4, 6}
  BY PayloadsAssumption DEF Carries
<1>2. CASE labels = <<>>
  <2>1. 1 \in 1..Len(ip) /\ 4 * Len(labels) + 1 = 1
    BY <1>1, <1>2
  <2>2. bytes[1] = ip[1]
    BY <2>1 DEF Carries
  <2>3. QED
    BY <1>1, <1>2, <2>2 DEF DetectPacketType
<1>3. CASE labels # <<>>
  <2>1. PICK c : c = labels[1]
    BY Zenon
  <2>2. c \in Encodable /\ 1 \in 1..Len(labels)
    BY <1>1, <1>3, <2>1
  <2>3. c \in Nat /\ Clamp(c) = c
    BY <2>2, SMT DEF Encodable, Clamp, LabelMax
  <2>4. bytes[1] = Header(c)[1]
    <3>1. 4 * 1 - 4 + 1 = 1 /\ 1 \in 1..4
      OBVIOUS
    <3>2. bytes[4 * 1 - 4 + 1] = Header(labels[1])[1]
      BY <2>2, <3>1, Zenon DEF Carries
    <3>3. QED
      BY <2>1, <3>1, <3>2
  <2>5. bytes[1] \div 16 = c \div 65536
    BY <2>3, <2>4, HeaderBytes
  <2>6. Len(bytes) >= 4 /\ bytes # <<>>
    BY <1>1, <2>2
  <2>7. QED
    BY <1>3, <2>1, <2>5, <2>6 DEF DetectPacketType, HasLabel, LabelEntrySize
<1>4. QED
  BY <1>2, <1>3

-----------------------------------------------------------------------------
(* The labels on the packet, before, in and after the loop of PushLabels.  *)

LEMMA SuffixOfConcat ==
  ASSUME NEW S, NEW s \in Seq(S), NEW t \in Seq(S)
  PROVE  SubSeq(s \o t, Len(s) + 1, Len(s \o t)) = t
<1>1. PICK st : st = s \o t
  BY Zenon
<1>2. PICK m : m = Len(s) + 1
  BY Zenon
<1>3. /\ st \in Seq(S) /\ Len(st) = Len(s) + Len(t)
      /\ \A i \in 1..(Len(s) + Len(t)) : st[i] = IF i <= Len(s) THEN s[i] ELSE t[i - Len(s)]
  BY <1>1, ConcatProperties
<1>4. Len(s) \in Nat /\ Len(t) \in Nat /\ m \in Int /\ Len(st) \in Int
  BY <1>2, <1>3
<1>5. PICK r : r = SubSeq(st, m, Len(st))
  BY Zenon
<1>6. \A i \in m..Len(st) : st[i] \in S
  BY <1>2, <1>3, <1>4
<1>7. /\ r \in Seq(S)
      /\ Len(r) = IF m <= Len(st) THEN Len(st) - m + 1 ELSE 0
      /\ \A i \in 1..(Len(st) - m + 1) : r[i] = st[m + i - 1]
  BY <1>4, <1>5, <1>6, SubSeqProperties
<1>8. Len(r) = Len(t)
  <2>1. Len(r) = IF m <= Len(st) THEN Len(st) - m + 1 ELSE 0
    BY <1>7, Zenon
  <2>2. QED
    BY <1>2, <1>3, <1>4, <2>1
<1>9. ASSUME NEW i \in 1..Len(t) PROVE r[i] = t[i]
  <2>1. /\ i \in 1..(Len(st) - m + 1) /\ m + i - 1 = Len(s) + i
        /\ Len(s) + i \in 1..(Len(s) + Len(t)) /\ ~(Len(s) + i <= Len(s))
        /\ Len(s) + i - Len(s) = i
    BY <1>2, <1>3, <1>4
  <2>2. QED
    BY <1>3, <1>7, <2>1
<1>10. r = t
  BY <1>7, <1>8, <1>9, SeqEqual
<1>11. QED
  BY <1>1, <1>2, <1>5, <1>10

\* Entering the loop: the labels are to do, what was on the packet still is.
LEMMA Enter ==
  ASSUME NEW labels \in Seq(Labels), NEW rest \in Seq(Encodable),
         todo' = labels, stack' = Clamped(labels) \o rest
  PROVE  /\ todo' \in Seq(Labels) /\ stack' \in Seq(Encodable)
         /\ Len(stack') = Len(labels) + Len(rest) /\ Len(todo') <= Len(stack')
         /\ \A n \in 1..Len(todo') : stack'[n] = Clamp(todo'[n])
         /\ OnPacket' = rest
<1>1. PICK c : c = Clamped(labels)
  BY Zenon
<1>2. /\ c \in Seq(Encodable) /\ Len(c) = Len(labels)
      /\ \A n \in 1..Len(labels) : c[n] = Clamp(labels[n])
  <2>1. ASSUME NEW n \in 1..Len(labels) PROVE Clamp(labels[n]) \in Encodable
    <3>1. labels[n] \in Labels
      OBVIOUS
    <3>2. QED
      BY <3>1, LabelsAssumption, ClampRange
  <2>2. c = [n \in 1..Len(labels) |-> Clamp(labels[n])] /\ Len(labels) \in Nat
    BY <1>1 DEF Clamped
  <2>3. QED
    BY <2>1, <2>2
<1>3. /\ stack' \in Seq(Encodable) /\ Len(stack') = Len(c) + Len(rest)
      /\ \A n \in 1..(Len(c) + Len(rest)) :
            stack'[n] = IF n <= Len(c) THEN c[n] ELSE rest[n - Len(c)]
  <2>1. stack' = c \o rest
    BY <1>1
  <2>2. QED
    BY <1>2, <2>1, ConcatProperties
<1>4. Len(labels) \in Nat /\ Len(rest) \in Nat
  OBVIOUS
<1>5. \A n \in 1..Len(labels) : stack'[n] = Clamp(labels[n])
  <2>1. ASSUME NEW n \in 1..Len(labels) PROVE n \in 1..(Len(c) + Len(rest)) /\ n <= Len(c)
    BY <1>2, <1>4
  <2>2. QED
    BY <1>2, <1>3, <2>1
<1>6. OnPacket' = rest
  <2>1. OnPacket' = SubSeq(c \o rest, Len(c) + 1, Len(c \o rest))
    BY <1>1, <1>2 DEF OnPacket
  <2>2. QED
    BY <1>2, <2>1, SuffixOfConcat
<1>7. QED
  BY <1>2, <1>3, <1>4, <1>5, <1>6

\* Outside the loop all the labels are on the packet.
LEMMA Outside ==
  ASSUME NEW S, NEW s \in Seq(S)
  PROVE  SubSeq(s, Len(<<>>) + 1, Len(s)) = s
<1>1. Len(<<>>) + 1 = 1
  OBVIOUS
<1>2. QED
  BY <1>1, SubSeqFull, Zenon

\* One round of the loop: the last label to do becomes the top one.
LEMMA Round ==
  ASSUME todo \in Seq(Labels), stack \in Seq(Encodable), Len(todo) <= Len(stack),
         todo # <<>>, todo' = SubSeq(todo, 1, Len(todo) - 1), stack' = stack
  PROVE  /\ todo' \in Seq(Labels) /\ Len(todo') = Len(todo) - 1
         /\ \A n \in 1..Len(todo') : todo'[n] = todo[n]
         /\ OnPacket' = <<stack[Len(todo)]>> \o OnPacket
<1>1. Len(todo) \in 1..Len(stack) /\ Len(stack) \in Len(todo)..Len(stack)
  OBVIOUS
<1>2. PICK m : m = Len(todo) - 1
  BY Zenon
<1>3. m \in Nat /\ m + 1 = Len(todo)
  BY <1>1, <1>2
<1>4. \A i \in 1..m : todo[i] \in Labels
  BY <1>3
<1>5. /\ todo' \in Seq(Labels) /\ Len(todo') = IF 1 <= m THEN m - 1 + 1 ELSE 0
      /\ \A i \in 1..(m - 1 + 1) : todo'[i] = todo[1 + i - 1]
  BY <1>2, <1>3, <1>4, SubSeqProperties
<1>6. Len(todo') = m
  <2>1. Len(todo') = IF 1 <= m THEN m - 1 + 1 ELSE 0
    BY <1>5, Zenon
  <2>2. QED
    BY <1>3, <2>1
<1>7. ASSUME NEW n \in 1..Len(todo') PROVE todo'[n] = todo[n]
  <2>1. n \in 1..(m - 1 + 1) /\ 1 + n - 1 = n
    BY <1>3, <1>6
  <2>2. QED
    BY <1>5, <2>1
<1>8. OnPacket' = <<stack[Len(todo)]>> \o OnPacket
  <2>1. OnPacket' = SubSeq(stack, Len(todo), Len(stack))
    BY <1>3, <1>6 DEF OnPacket
  <2>2. QED
    BY <1>1, <2>1, SubSeqRecursiveFirst DEF OnPacket
<1>9. QED
  BY <1>2, <1>5, <1>6, <1>7, <1>8

-----------------------------------------------------------------------------
LEMMA InitIInv == Init => IInv
<1> SUFFICES ASSUME Init PROVE IInv
  OBVIOUS
<1>1. /\ inner \in Payloads /\ inner \in Seq(Byte)
      /\ data = inner /\ todo = <<>> /\ stack = <<>>
  BY PayloadsAssumption DEF Init
<1>2. stack \in Seq(Encodable) /\ OnPacket = <<>>
  BY <1>1, Outside DEF OnPacket
<1>3. Carries(inner, <<>>, inner)
  BY <1>1 DEF Carries
<1>4. QED
  BY <1>1, <1>2, <1>3, MaxDepthAssumption DEF IInv

LEMMA NextIInv == IInv /\ [Next]_vars => IInv'
<1> SUFFICES ASSUME IInv, [Next]_vars PROVE IInv'
  OBVIOUS
<1>1. /\ inner \in Payloads /\ inner \in Seq(Byte) /\ todo \in Seq(Labels)
      /\ stack \in Seq(Encodable) /\ Len(stack) <= MaxDepth /\ Len(todo) <= Len(stack)
      /\ \A n \in 1..Len(todo) : stack[n] = Clamp(todo[n])
      /\ Carries(data, OnPacket, inner)
  BY PayloadsAssumption DEF IInv
<1>2. ASSUME todo = <<>> PROVE OnPacket = stack
  BY <1>1, <1>2, Outside DEF OnPacket
<1>3. CASE PushLabels
  <2>1. /\ todo # <<>> /\ todo' = SubSeq(todo, 1, Len(todo) - 1)
        /\ stack' = stack /\ inner' = inner
        /\ data' = PushLabel(data, todo[Len(todo)])
    BY <1>3 DEF PushLabels
  <2>2. /\ todo' \in Seq(Labels) /\ Len(todo') = Len(todo) - 1
        /\ \A n \in 1..Len(todo') : todo'[n] = todo[n]
        /\ OnPacket' = <<stack[Len(todo)]>> \o OnPacket
    BY <1>1, <2>1, Round
  <2>3. /\ Len(todo) \in 1..Len(todo) /\ todo[Len(todo)] \in Nat
        /\ stack[Len(todo)] = Clamp(todo[Len(todo)])
    <3>1. Len(todo) \in 1..Len(todo)
      BY <1>1, <2>1
    <3>2. todo[Len(todo)] \in Labels
      BY <1>1, <3>1
    <3>3. QED
      BY <1>1, <3>1, <3>2, LabelsAssumption
  <2>4. Carries(data', OnPacket', inner')
    BY <1>1, <2>1, <2>2, <2>3, PushCarries
  <2>5. \A n \in 1..Len(todo') : stack'[n] = Clamp(todo'[n])
    BY <1>1, <2>1, <2>2
  <2>6. QED
    BY <1>1, <2>1, <2>2, <2>4, <2>5 DEF IInv
<1>4. CASE Pop
  <2>1. /\ todo = <<>> /\ stack # <<>> /\ data' = Rest(data) /\ stack' = Tail(stack)
        /\ todo' = todo /\ inner' = inner
    BY <1>4 DEF Pop
  <2>2. stack' \in Seq(Encodable) /\ Len(stack') = Len(stack) - 1
    BY <1>1, <2>1
  <2>3. OnPacket' = stack'
    BY <2>1, <2>2, Outside DEF OnPacket
  <2>4. Carries(data', OnPacket', inner')
    BY <1>1, <1>2, <2>1, <2>3, PopCarries
  <2>5. QED
    BY <1>1, <2>1, <2>2, <2>4, MaxDepthAssumption DEF IInv
<1>5. ASSUME NEW l \in Labels, Swap(l) PROVE IInv'
  <2>1. /\ todo = <<>> /\ stack # <<>> /\ data' = SwapLabel(data, l)
        /\ stack' = <<Clamp(l)>> \o Tail(stack) /\ todo' = todo /\ inner' = inner
    BY <1>5 DEF Swap
  <2>2. l \in Nat /\ Clamp(l) \in Encodable
    BY LabelsAssumption, ClampRange
  <2>3. stack' \in Seq(Encodable) /\ Len(stack') = Len(stack)
    BY <1>1, <2>1, <2>2
  <2>4. OnPacket' = stack'
    BY <2>1, <2>3, Outside DEF OnPacket
  <2>5. Carries(Rest(data), Tail(stack), inner)
    BY <1>1, <1>2, <2>1, PopCarries
  <2>6. data' = PushLabel(Rest(data), l)
    BY <2>1 DEF SwapLabel, PushLabel
  <2>7. Carries(data', OnPacket', inner')
    BY <1>1, <2>1, <2>2, <2>4, <2>5, <2>6, PushCarries
  <2>8. QED
    BY <1>1, <2>1, <2>3, <2>7 DEF IInv
<1>6. ASSUME NEW ls \in LabelLists, Push(ls) \/ Replace(ls) PROVE IInv'
  <2>1. ls \in Seq(Labels)
    BY MaxDepthAssumption DEF LabelLists
  <2>2. CASE Push(ls)
    <3>1. /\ todo = <<>> /\ Len(stack) + Len(ls) <= MaxDepth /\ data' = data
          /\ todo' = ls /\ stack' = Clamped(ls) \o stack /\ inner' = inner
      BY <2>2 DEF Push
    <3>2. /\ todo' \in Seq(Labels) /\ stack' \in Seq(Encodable)
          /\ Len(stack') = Len(ls) + Len(stack) /\ Len(todo') <= Len(stack')
          /\ \A n \in 1..Len(todo') : stack'[n] = Clamp(todo'[n])
          /\ OnPacket' = stack
      BY <1>1, <2>1, <3>1, Enter
    <3>3. Carries(data', OnPacket', inner')
      BY <1>1, <1>2, <3>1, <3>2
    <3>4. Len(stack') <= MaxDepth
      BY <1>1, <2>1, <3>1, <3>2
    <3>5. QED
      BY <1>1, <3>1, <3>2, <3>3, <3>4 DEF IInv
  <2>3. CASE Replace(ls)
    <3>1. /\ todo = <<>> /\ stack # <<>> /\ Len(stack) + Len(ls) <= MaxDepth + 1
          /\ data' = Rest(data) /\ todo' = ls
          /\ stack' = Clamped(ls) \o Tail(stack) /\ inner' = inner
      BY <2>3 DEF Replace
    <3>2. Tail(stack) \in Seq(Encodable) /\ Len(Tail(stack)) = Len(stack) - 1
      BY <1>1, <3>1
    <3>3. /\ todo' \in Seq(Labels) /\ stack' \in Seq(Encodable)
          /\ Len(stack') = Len(ls) + Len(Tail(stack)) /\ Len(todo') <= Len(stack')
          /\ \A n \in 1..Len(todo') : stack'[n] = Clamp(todo'[n])
          /\ OnPacket' = Tail(stack)
      BY <2>1, <3>1, <3>2, Enter
    <3>4. Carries(data', OnPacket', inner')
      BY <1>1, <1>2, <3>1, <3>3, PopCarries
    <3>5. Len(stack') <= MaxDepth
      BY <1>1, <2>1, <3>1, <3>2, <3>3, MaxDepthAssumption
    <3>6. QED
      BY <1>1, <3>1, <3>3, <3>4, <3>5 DEF IInv
  <2>4. QED
    BY <1>6, <2>2, <2>3
<1>7. CASE UNCHANGED vars
  BY <1>1, <1>7 DEF vars, IInv, OnPacket
<1>8. QED
  BY <1>3, <1>4, <1>5, <1>6, <1>7 DEF Next

LEMMA Invariance == Spec => []IInv
BY InitIInv, NextIInv, PTL DEF Spec

\* The packet is bytes, whatever labels, beyond 20 bits or not, are put on it.
THEOREM TypeCorrect == Spec => []TypeOK
<1>1. IInv => TypeOK
  BY DEF IInv, Carries, TypeOK
<1>2. QED
  BY <1>1, Invariance, PTL

\* The next router reads the labels that were put on, top label first, and the
\* IP packet below them is intact, after any sequence of pushes, swaps and pops.
THEOREM LabelsOnWire == Spec => []StackOnWire
<1>1. IInv => StackOnWire
  <2> SUFFICES ASSUME IInv PROVE StackOnWire
    OBVIOUS
  <2>1. Carries(data, OnPacket, inner) /\ inner \in Seq(Byte)
    BY PayloadsAssumption DEF IInv
  <2>2. /\ \A n \in 1..Len(OnPacket) :
              ParseLabel(SubSeq(data, 4 * n - 3, 4 * n)).label = OnPacket[n]
        /\ SubSeq(data, 4 * Len(OnPacket) + 1, Len(data)) = inner
    BY <2>1, CarriesRead
  <2>3. DOMAIN OnPacket = 1..Len(OnPacket)
    BY <2>1 DEF Carries
  <2>4. QED
    BY <2>2, <2>3 DEF StackOnWire, HeaderAt
<1>2. QED
  BY <1>1, Invariance, PTL

\* detectPacketType errs exactly on a top label that begins with nibble 4 or 6.
THEOREM DetectsExactly == Spec => []DetectExact
<1>1. IInv => DetectExact
  BY CarriesDetect DEF IInv, DetectExact
<1>2. QED
  BY <1>1, Invariance, PTL
=============================================================================
