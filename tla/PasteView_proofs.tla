-------------------------- MODULE PasteView_proofs --------------------------
(***************************************************************************)
(* Theorems about PasteView and Envelope, for any pastes, languages,       *)
(* passwords, lengths and bounds: the right password opens a paste, and    *)
(* what is shown depends on no order of scripts, clicks and decryptions.   *)
(***************************************************************************)
EXTENDS PasteView, SequenceTheorems, WellFoundedInduction, TLAPS

-----------------------------------------------------------------------------
(* The envelope.                                                           *)

(* A set of numbers that is not empty has a least element: what stands for *)
(* induction below.                                                        *)
LEMMA LeastElement ==
    ASSUME NEW T \in SUBSET Nat, T # {}
    PROVE  \E n \in T : \A m \in T : n <= m
<1> DEFINE R == OpToRel(<, Nat)
<1>1. IsWellFoundedOn(R, Nat)
  BY NatLessThanWellFounded
<1>2. \A m, n \in Nat : <<m, n>> \in R <=> m < n
  BY DEF OpToRel
<1> HIDE DEF R
<1>3. PICK n \in T : \A m \in T : ~(<<m, n>> \in R)
  BY <1>1, WFMin
<1>4. ASSUME NEW m \in T PROVE n <= m
  <2>1. m \in Nat /\ n \in Nat
    OBVIOUS
  <2>2. ~(<<m, n>> \in R)
    BY <1>3
  <2>3. ~(m < n)
    BY <1>2, <2>1, <2>2
  <2> QED
    BY <2>1, <2>3
<1> QED
  BY <1>4

LEMMA DivIs ==
    ASSUME NEW a \in Nat, NEW b \in Nat \ {0}
    PROVE  /\ a \div b \in Nat
           /\ b * (a \div b) <= a /\ a < b * (a \div b) + b
OBVIOUS

LEMMA Monotone ==
    ASSUME NEW m \in Nat, NEW n \in Nat, m <= n, NEW b \in Nat
    PROVE  m * b <= n * b
OBVIOUS

(* uint8ToBase64 encodes the bytes it is given: no chunk is left out, taken *)
(* twice or out of order, whatever the length.  By least element: a first   *)
(* turn after which the copy is not the front of the bytes cannot be.       *)
LEMMA Base64Identity ==
    ASSUME NEW S, NEW bytes \in Seq(S)
    PROVE  uint8ToBase64(bytes) = bytes
<1> DEFINE len == Len(bytes)
           turns == (Len(bytes) + Chunk - 1) \div Chunk
           upTo(n) == IF n * Chunk < Len(bytes) THEN n * Chunk ELSE Len(bytes)
           step(f, n) == IF n = 0 THEN << >>
                         ELSE f[n - 1] \o SubSeq(bytes, (n - 1) * Chunk + 1, upTo(n))
           copied == CHOOSE f : f = [n \in 0 .. turns |-> step(f, n)]
           front == [n \in 0 .. turns |-> SubSeq(bytes, 1, upTo(n))]
<1>1. uint8ToBase64(bytes) = copied[turns]
  BY DEF uint8ToBase64
<1>2. len \in Nat /\ Chunk \in Nat /\ Chunk > 0
  BY Lengths, LenProperties
<1>3. /\ turns \in Nat
      /\ Chunk * turns <= len + Chunk - 1 /\ len + Chunk - 1 < Chunk * turns + Chunk
  <2>1. len + Chunk - 1 \in Nat /\ Chunk \in Nat \ {0}
    BY <1>2
  <2> QED
    BY <2>1, DivIs
<1> HIDE DEF turns
<1>4. turns * Chunk = Chunk * turns
  BY <1>2, <1>3
<1>5. upTo(turns) = len
  BY <1>2, <1>3, <1>4
<1>6. ASSUME NEW n \in 1 .. turns
      PROVE  /\ (n - 1) * Chunk \in Nat /\ (n - 1) * Chunk < len
             /\ upTo(n) \in (n - 1) * Chunk .. len
             /\ upTo(n - 1) = (n - 1) * Chunk
  <2>1. n \in Nat /\ n - 1 \in Nat /\ turns - 1 \in Nat /\ n - 1 <= turns - 1
    BY <1>3
  <2>2. (n - 1) * Chunk <= (turns - 1) * Chunk /\ (n - 1) * Chunk <= n * Chunk
    BY <1>2, <2>1, Monotone
  <2>3. (turns - 1) * Chunk = turns * Chunk - Chunk
    BY <1>2, <1>3
  <2>4. (n - 1) * Chunk \in Nat /\ n * Chunk \in Nat /\ turns * Chunk \in Nat
    BY <1>2, <1>3, <2>1
  <2> QED
    BY <1>2, <1>3, <1>4, <2>2, <2>3, <2>4
<1>7. ASSUME NEW n \in 0 .. turns PROVE front[n] = step(front, n)
  <2>1. CASE n = 0
    <3>1. upTo(0) = 0
      BY <1>2
    <3>2. SubSeq(bytes, 1, 0) = << >>
      BY SubSeqEmpty
    <3> QED
      BY <1>7, <2>1, <3>1, <3>2
  <2>2. CASE n # 0
    <3> DEFINE k == (n - 1) * Chunk
    <3>1. n \in 1 .. turns /\ n - 1 \in 0 .. turns
      BY <1>3, <2>2
    <3>2. k \in Nat /\ k < len /\ upTo(n) \in k .. len /\ upTo(n - 1) = k
      BY <1>6, <3>1
    <3> HIDE DEF k, upTo
    <3>3. SubSeq(bytes, 1, k) \o SubSeq(bytes, k + 1, upTo(n)) = SubSeq(bytes, 1, upTo(n))
      <4>1. 1 \in 1 .. len + 1 /\ k \in 1 - 1 .. len /\ upTo(n) \in k .. len
        BY <1>2, <3>2
      <4> QED
        BY <4>1, ConcatAdjacentSubSeq
    <3>4. front[n - 1] = SubSeq(bytes, 1, k) /\ front[n] = SubSeq(bytes, 1, upTo(n))
      BY <3>1, <3>2
    <3> QED
      BY <2>2, <3>3, <3>4 DEF k
  <2> QED
    BY <2>1, <2>2
<1>8. front = [n \in 0 .. turns |-> step(front, n)]
  BY <1>7
<1> HIDE DEF front
<1>9. copied = [n \in 0 .. turns |-> step(copied, n)]
  <2> HIDE DEF step
  <2>1. \E f : f = [n \in 0 .. turns |-> step(f, n)]
    BY <1>8
  <2> QED
    BY <2>1
<1> HIDE DEF copied
<1>10. \A n \in 0 .. turns : copied[n] = front[n]
  <2> DEFINE T == {n \in 0 .. turns : copied[n] # front[n]}
  <2> SUFFICES ASSUME T # {} PROVE FALSE
    OBVIOUS
  <2>1. T \in SUBSET Nat
    BY <1>3
  <2>2. PICK n \in T : \A m \in T : n <= m
    BY <2>1, LeastElement
  <2>3. n \in 0 .. turns /\ copied[n] # front[n]
    OBVIOUS
  <2>4. copied[n] = step(copied, n) /\ front[n] = step(front, n)
    BY <1>7, <1>9, <2>3
  <2>5. n # 0
    BY <2>3, <2>4
  <2>6. n - 1 \in 0 .. turns /\ ~(n <= n - 1)
    BY <1>3, <2>3, <2>5
  <2>7. copied[n - 1] = front[n - 1]
    BY <2>2, <2>6
  <2> QED
    BY <2>3, <2>4, <2>5, <2>7
<1>11. front[turns] = SubSeq(bytes, 1, len)
  BY <1>3, <1>5 DEF front
<1> QED
  BY <1>1, <1>3, <1>10, <1>11, SubSeqFull

LEMMA Pieces ==
    ASSUME NEW S, NEW a \in Seq(S), NEW b \in Seq(S), NEW c \in Seq(S), Len(c) # 0,
           NEW whole, whole = (a \o b) \o c
    PROVE  /\ whole \in Seq(S)
           /\ SubSeq(whole, 1, Len(a)) = a
           /\ SubSeq(whole, Len(a) + 1, Len(a) + Len(b)) = b
           /\ SubSeq(whole, Len(a) + Len(b) + 1, Len(whole)) = c
<1> DEFINE m == Len(a)
           n == Len(b)
<1>0. m \in Nat /\ n \in Nat /\ Len(a) = m /\ Len(b) = n
  BY LenProperties
<1> DEFINE raw == (a \o b) \o c
           l == Len(c)
<1>1. /\ a \o b \in Seq(S) /\ Len(a \o b) = m + n
      /\ \A i \in 1 .. m + n : (a \o b)[i] = IF i <= m THEN a[i] ELSE b[i - m]
  BY ConcatProperties
<1> HIDE DEF m, n
<1>2. l \in Nat
  BY LenProperties
<1>3. /\ raw \in Seq(S) /\ Len(raw) = m + n + l
      /\ \A i \in 1 .. m + n + l :
            raw[i] = IF i <= m + n THEN (a \o b)[i] ELSE c[i - (m + n)]
  <2> DEFINE front == a \o b
  <2>1. front \in Seq(S) /\ Len(front) = m + n
    BY <1>1
  <2> HIDE DEF front
  <2>2. /\ front \o c \in Seq(S) /\ Len(front \o c) = Len(front) + Len(c)
        /\ \A i \in 1 .. Len(front) + Len(c) :
              (front \o c)[i] = IF i <= Len(front) THEN front[i] ELSE c[i - Len(front)]
    BY <2>1, ConcatProperties
  <2>3. /\ front \o c \in Seq(S) /\ Len(front \o c) = m + n + l
        /\ \A i \in 1 .. m + n + l :
              (front \o c)[i] = IF i <= m + n THEN front[i] ELSE c[i - (m + n)]
    BY <2>1, <2>2
  <2> QED
    BY <2>3 DEF front
<1> HIDE DEF raw, l
<1>4. \A i \in 1 .. m + n + l : raw[i] \in S
  BY <1>3, ElementOfSeq
<1>5. ASSUME NEW i \in Int, NEW j \in Int, 1 <= i, j <= m + n + l, NEW s \in Seq(S),
             Len(s) = IF i <= j THEN j - i + 1 ELSE 0,
             \A k \in 1 .. j - i + 1 : raw[i + k - 1] = s[k]
      PROVE  SubSeq(raw, i, j) = s
  <2>1. \A k \in i .. j : raw[k] \in S
    BY <1>0, <1>2, <1>4, <1>5
  <2>2. /\ SubSeq(raw, i, j) \in Seq(S)
        /\ Len(SubSeq(raw, i, j)) = IF i <= j THEN j - i + 1 ELSE 0
        /\ \A k \in 1 .. j - i + 1 : SubSeq(raw, i, j)[k] = raw[i + k - 1]
    BY <2>1, SubSeqProperties
  <2> DEFINE t == SubSeq(raw, i, j)
  <2>3. t \in Seq(S) /\ Len(t) = Len(s) /\ \A k \in 1 .. j - i + 1 : t[k] = s[k]
    BY <1>5, <2>2
  <2> HIDE DEF t
  <2>4. \A k \in 1 .. Len(t) : t[k] = s[k]
    BY <1>5, <2>3
  <2>5. t = s
    BY <2>3, <2>4, SeqEqual
  <2> QED
    BY <2>5 DEF t
<1>6. SubSeq(raw, 1, m) = a
  <2>1. \A k \in 1 .. m - 1 + 1 : raw[1 + k - 1] = a[k]
    BY <1>0, <1>1, <1>2, <1>3
  <2>2. m - 1 + 1 = m /\ m <= m + n + l /\ Len(a) = IF 1 <= m THEN m - 1 + 1 ELSE 0
    BY <1>0, <1>2
  <2>3. m \in Int /\ 1 \in Int /\ 1 <= 1
    BY <1>0
  <2> QED
    BY <1>5, <2>1, <2>2, <2>3
<1>7. SubSeq(raw, m + 1, m + n) = b
  <2> DEFINE i == m + 1
             j == m + n
  <2>1. ASSUME NEW k \in 1 .. n PROVE raw[i + k - 1] = b[k]
    <3> DEFINE h == m + k
    <3>1. /\ h \in 1 .. m + n + l /\ h \in 1 .. m + n /\ h <= m + n /\ ~(h <= m)
          /\ h - m = k /\ i + k - 1 = h
      BY <1>0, <1>2
    <3> HIDE DEF h, i
    <3>2. raw[h] = (a \o b)[h]
      BY <1>3, <3>1
    <3>3. (a \o b)[h] = b[h - m]
      BY <1>1, <3>1
    <3> QED
      BY <3>1, <3>2, <3>3
  <2>2. i \in Int /\ j \in Int /\ 1 <= i /\ j <= m + n + l /\ j - i + 1 = n
    BY <1>0, <1>2
  <2>3. Len(b) = IF i <= j THEN j - i + 1 ELSE 0
    BY <1>0, <2>2
  <2>4. \A k \in 1 .. j - i + 1 : raw[i + k - 1] = b[k]
    BY <2>1, <2>2
  <2> HIDE DEF i, j
  <2>5. SubSeq(raw, i, j) = b
    BY <1>5, <2>2, <2>3, <2>4
  <2> QED
    BY <2>5 DEF i, j
<1>8. SubSeq(raw, m + n + 1, Len(raw)) = c
  <2> DEFINE i == m + n + 1
             j == m + n + l
  <2>1. i \in Int /\ j \in Int /\ 1 <= i /\ j <= m + n + l /\ j - i + 1 = l
    BY <1>0, <1>2
  <2>2. ASSUME NEW k \in 1 .. l PROVE raw[i + k - 1] = c[k]
    <3> DEFINE h == m + n + k
    <3>1. /\ h \in 1 .. m + n + l /\ ~(h <= m + n)
          /\ h - (m + n) = k /\ i + k - 1 = h
      BY <1>0, <1>2
    <3> HIDE DEF h, i
    <3>2. raw[h] = c[h - (m + n)]
      BY <1>3, <3>1
    <3> QED
      BY <3>1, <3>2
  <2>3. Len(c) = IF i <= j THEN j - i + 1 ELSE 0
    BY <1>0, <1>2, <2>1 DEF l
  <2>4. \A k \in 1 .. j - i + 1 : raw[i + k - 1] = c[k]
    BY <2>1, <2>2
  <2> HIDE DEF i, j
  <2>5. SubSeq(raw, i, j) = c
    BY <1>5, <2>1, <2>3, <2>4
  <2> QED
    BY <1>3, <2>5 DEF i, j
<1> QED
  BY <1>3, <1>6, <1>7, <1>8 DEF raw, m, n

(* What AES-GCM yields for a text.                                         *)
LEMMA GcmBytes ==
    ASSUME NEW key, NEW iv, NEW text, Len(text) \in Nat
    PROVE  LET bytes == GcmEncrypt(key, iv, text)
           IN  /\ \E S : bytes \in Seq(S)
               /\ Len(bytes) = Len(text) + 1 /\ bytes # << >>
               /\ bytes[Len(text) + 1] = <<key, iv, text>>
<1> DEFINE len == Len(text)
           tag == <<key, iv, text>>
           S == {<<key, iv, text[i]>> : i \in 1 .. len} \cup {tag}
           cells == [i \in 1 .. len |-> <<key, iv, text[i]>>]
           bytes == cells \o <<tag>>
<1>1. cells \in Seq(S) /\ Len(cells) = len
  <2>1. cells \in [1 .. len -> S]
    OBVIOUS
  <2> HIDE DEF cells, S
  <2>2. cells \in Seq(S)
    BY <2>1, SeqDef
  <2>3. len \in Nat
    OBVIOUS
  <2> HIDE DEF len
  <2>4. Len(cells) = len
    BY <2>1, <2>2, <2>3, LenProperties
  <2> QED
    BY <2>2, <2>4
<1>2. <<tag>> \in Seq(S) /\ Len(<<tag>>) = 1 /\ <<tag>>[1] = tag
  <2>1. tag \in S
    OBVIOUS
  <2> HIDE DEF tag, S
  <2> QED
    BY <2>1
<1>3. GcmEncrypt(key, iv, text) = bytes
  BY DEF GcmEncrypt
<1> HIDE DEF cells, tag, S
<1>4. /\ bytes \in Seq(S) /\ Len(bytes) = len + 1
      /\ bytes[len + 1] = tag
  <2>1. /\ bytes \in Seq(S) /\ Len(bytes) = Len(cells) + Len(<<tag>>)
        /\ \A i \in 1 .. Len(cells) + Len(<<tag>>) :
              bytes[i] = IF i <= Len(cells) THEN cells[i] ELSE <<tag>>[i - Len(cells)]
    BY <1>1, <1>2, ConcatProperties
  <2> QED
    BY <1>1, <1>2, <2>1
<1>5. bytes # << >>
  BY <1>4
<1> QED
  BY <1>3, <1>4, <1>5 DEF tag

(* Decryption with the key of the encryption, and with another one.        *)
LEMMA GcmDecrypts ==
    ASSUME NEW key, NEW other, NEW iv, NEW text, Len(text) \in Nat
    PROVE  GcmDecrypt(other, iv, GcmEncrypt(key, iv, text)) =
               IF other = key THEN text ELSE Null
<1> DEFINE bytes == GcmEncrypt(key, iv, text)
           retry == GcmEncrypt(other, iv, text)
           last == Len(text) + 1
<1>1. /\ Len(bytes) = last /\ bytes # << >> /\ bytes[last] = <<key, iv, text>>
      /\ retry[last] = <<other, iv, text>>
  BY GcmBytes
<1> HIDE DEF bytes, retry, last
<1>2. GcmDecrypt(other, iv, bytes) = IF bytes = retry THEN text ELSE Null
  BY <1>1 DEF GcmDecrypt, retry
<1>3. bytes = retry <=> other = key
  <2>1. ASSUME bytes = retry PROVE other = key
    BY <1>1, <2>1
  <2>2. ASSUME other = key PROVE bytes = retry
    BY <2>2 DEF bytes, retry
  <2> QED
    BY <2>1, <2>2
<1> QED
  BY <1>2, <1>3 DEF bytes

(* Built, encoded, cut up again, decrypted: what aesEncrypt made of a text *)
(* is that text with the same password, and with any other nothing.        *)
LEMMA EnvelopeOpens ==
    ASSUME NEW text, Len(text) \in Nat, NEW password, NEW other
    PROVE  aesDecrypt(aesEncrypt(text, password), other) =
               IF other = password THEN text ELSE Null
<1> DEFINE key == deriveKey(password, Salt)
           bytes == GcmEncrypt(key, Iv, text)
           raw == Salt \o Iv \o bytes
<1>1. SaltLen \in Nat /\ IvLen \in Nat
  BY Lengths
<1>2. /\ Salt \in [1 .. SaltLen -> {Salt[i] : i \in 1 .. SaltLen}]
      /\ Iv \in [1 .. IvLen -> {Iv[i] : i \in 1 .. IvLen}]
  BY DEF Salt, Iv
<1>3. PICK S : bytes \in Seq(S)
  BY GcmBytes
<1>4. Len(bytes) \in Nat /\ Len(bytes) # 0
  BY GcmBytes
<1> DEFINE A == {Salt[i] : i \in 1 .. SaltLen} \cup {Iv[i] : i \in 1 .. IvLen} \cup S
<1>5. Salt \in [1 .. SaltLen -> A] /\ Iv \in [1 .. IvLen -> A]
  BY <1>2
<1>6. bytes \in Seq(A)
  <2> HIDE DEF bytes
  <2>1. S \subseteq A
    OBVIOUS
  <2> HIDE DEF A
  <2> QED
    BY <1>3, <2>1, SeqMonotonic
<1> HIDE DEF A, bytes
<1>7. Salt \in Seq(A) /\ Iv \in Seq(A)
  BY <1>1, <1>5, SeqDef
<1>8. Len(Salt) = SaltLen /\ Len(Iv) = IvLen
  BY <1>1, <1>5, <1>7, LenProperties
<1>9. /\ raw \in Seq(A)
      /\ SubSeq(raw, 1, SaltLen) = Salt
      /\ SubSeq(raw, SaltLen + 1, SaltLen + IvLen) = Iv
      /\ SubSeq(raw, SaltLen + IvLen + 1, Len(raw)) = bytes
  <2>1. PICK B, salt, iv, cells :
           /\ B = A /\ salt = Salt /\ iv = Iv /\ cells = bytes
           /\ salt \in Seq(B) /\ iv \in Seq(B) /\ cells \in Seq(B)
           /\ Len(salt) = SaltLen /\ Len(iv) = IvLen /\ Len(cells) # 0
    BY <1>4, <1>6, <1>7, <1>8
  <2>2. PICK whole : whole = (salt \o iv) \o cells
    OBVIOUS
  <2>3. salt \in Seq(B) /\ iv \in Seq(B) /\ cells \in Seq(B) /\ Len(cells) # 0
    BY <2>1
  <2>4. /\ whole \in Seq(B)
        /\ SubSeq(whole, 1, Len(salt)) = salt
        /\ SubSeq(whole, Len(salt) + 1, Len(salt) + Len(iv)) = iv
        /\ SubSeq(whole, Len(salt) + Len(iv) + 1, Len(whole)) = cells
    BY <2>2, <2>3, Pieces
  <2>5. whole = raw
    BY <2>1, <2>2
  <2> HIDE DEF raw
  <2> QED
    BY <2>1, <2>4, <2>5
<1> DEFINE sealed == aesEncrypt(text, password)
<1>10. sealed.prefix = "v2:" /\ sealed.base64 = raw
  <2>1. sealed = [prefix |-> "v2:", base64 |-> uint8ToBase64(raw)]
    BY DEF aesEncrypt, Encoded, bytes
  <2> HIDE DEF raw, sealed
  <2>2. uint8ToBase64(raw) = raw
    BY <1>9, Base64Identity
  <2> QED
    BY <2>1, <2>2
<1> HIDE DEF raw, sealed, key
<1>11. aesDecrypt(sealed, other) = GcmDecrypt(deriveKey(other, Salt), Iv, bytes)
  BY <1>9, <1>10 DEF aesDecrypt, IvOf
<1>12. deriveKey(other, Salt) = key <=> other = password
  BY DEF deriveKey, key
<1> QED
  BY <1>11, <1>12, GcmDecrypts DEF sealed, bytes

-----------------------------------------------------------------------------
(* Operators.                                                              *)

IsBlock(b) == b = [text |-> b.text, lang |-> b.lang, shown |-> b.shown]

(* What the assignments to the block change.                               *)
LEMMA HighlightedIs ==
    ASSUME NEW b, IsBlock(b)
    PROVE  Highlighted(b) = [text |-> b.text, lang |-> b.lang, shown |-> b.lang]
BY DEF IsBlock, Highlighted

LEMMA Relabelled ==
    ASSUME NEW b, IsBlock(b), NEW x
    PROVE  [b EXCEPT !.lang = x] = [text |-> b.text, lang |-> x, shown |-> b.shown]
BY DEF IsBlock

LEMMA Rewritten ==
    ASSUME NEW b, IsBlock(b), NEW x, NEW y
    PROVE  [b EXCEPT !.text = x, !.shown = y] = [text |-> x, lang |-> b.lang, shown |-> y]
<1>1. PICK t, l, h : b = [text |-> t, lang |-> l, shown |-> h]
  BY DEF IsBlock
<1>2. b \in [text : {t}, lang : {l}, shown : {h}]
  BY <1>1
<1> DEFINE c == [b EXCEPT !.text = x, !.shown = y]
<1>3. c \in [text : {x}, lang : {l}, shown : {y}]
  BY <1>2
<1> HIDE DEF c
<1>4. c = [text |-> c.text, lang |-> c.lang, shown |-> c.shown] /\ c.text = x /\ c.lang = l /\ c.shown = y
  BY <1>3
<1>5. b.lang = l
  BY <1>1
<1> QED
  BY <1>4, <1>5 DEF c

(* ClearIsNotSealed: a text never equals an encrypted paste.               *)
LEMMA ClearIsNotSealed ==
    ASSUME NEW t, NEW u, NEW k PROVE Clear(t) # aesEncrypt(u, k)
<1>1. Clear(t).prefix = "" /\ aesEncrypt(u, k).prefix = "v2:"
  BY DEF Clear, aesEncrypt, Encoded
<1> QED
  BY <1>1

-----------------------------------------------------------------------------
(* Highlighting.  Nothing is decrypted on the page of a clear paste.       *)

LockedInv ==
    /\ attempt = [s \in Attempts |-> attempt[s]]
    /\ paste.key = NoPass => ~modal /\ \A s \in Attempts : attempt[s] = None
ShownInv == IsBlock(block) /\ HighlightedForClass

LEMMA LockedInit == Init => LockedInv
BY DEF Init, LockedInv

LEMMA LockedStep == LockedInv /\ [Next]_vars => LockedInv'
<1> SUFFICES ASSUME LockedInv, [Next]_vars PROVE LockedInv'
  OBVIOUS
<1> USE DEF LockedInv, core, code, crypt, links, copying
<1>1. CASE UNCHANGED <<paste, attempt, modal>>
  BY <1>1
<1>2. CASE \E s \in Attempts : Decrypt(s)
  BY <1>2 DEF Decrypt
<1>3. CASE \E s \in Attempts : DecryptFails(s) \/ DecryptSucceeds(s)
  BY <1>3 DEF DecryptFails, DecryptSucceeds
<1>4. CASE ToggleModal
  BY <1>4 DEF ToggleModal
<1> QED
  BY <1>1, <1>2, <1>3, <1>4 DEF Next, vars, PrismLoads, MermaidLoads, Select, FollowLink,
     HashChange, Copy, CopyTimer

LEMMA ShownInit == Init => ShownInv
BY DEF Init, ShownInv, IsBlock, HighlightedForClass

LEMMA ShownStep == LockedInv /\ ShownInv /\ [Next]_vars => ShownInv'
<1> SUFFICES ASSUME LockedInv, ShownInv, [Next]_vars PROVE ShownInv'
  OBVIOUS
<1> USE DEF core, code, crypt, links, copying
<1>1. CASE UNCHANGED <<paste, block, prism>> /\ (diagram.drawn => diagram'.drawn)
  BY <1>1 DEF ShownInv, HighlightedForClass, Attached, Body
<1>2. CASE UNCHANGED <<paste, block, diagram, prism>>
  BY <1>1, <1>2
<1>3. CASE PrismLoads
  <2>1. CASE prism' = "ready" /\ Attached
    <3>1. block' = Highlighted(block) /\ IsBlock(block)
      BY <1>3, <2>1 DEF PrismLoads, ShownInv
    <3>2. IsBlock(block') /\ block'.shown = block'.lang
      BY <3>1, HighlightedIs DEF IsBlock
    <3> QED
      BY <3>2 DEF ShownInv, HighlightedForClass, IsBlock
  <2>2. CASE prism' # "ready" \/ ~Attached
    BY <1>3, <2>2 DEF PrismLoads, ShownInv, HighlightedForClass, Attached
  <2> QED
    BY <2>1, <2>2
<1>4. CASE MermaidLoads
  BY <1>1, <1>4 DEF MermaidLoads, _renderMermaid, Attached
<1>5. ASSUME NEW lang \in Languages, Select(lang) PROVE ShownInv'
  <2>1. CASE UNCHANGED block
    BY <1>1, <1>5, <2>1 DEF Select, _renderMermaid, Attached
  <2>2. CASE prism = "ready" /\ block' = Highlighted([block EXCEPT !.lang = lang])
    <3> DEFINE b == [block EXCEPT !.lang = lang]
    <3>1. IsBlock(b)
      BY Relabelled DEF ShownInv, IsBlock
    <3> HIDE DEF b
    <3>2. IsBlock(block') /\ block'.shown = block'.lang
      BY <2>2, <3>1, HighlightedIs DEF b, IsBlock
    <3> QED
      BY <3>2 DEF ShownInv, HighlightedForClass, IsBlock
  <2>3. CASE prism # "ready" /\ block' = [block EXCEPT !.lang = lang]
    BY <1>5, <2>3, Relabelled DEF Select, ShownInv, HighlightedForClass, IsBlock
  <2> QED
    BY <1>5, <2>1, <2>2, <2>3 DEF Select
<1>6. ASSUME NEW s \in Attempts, DecryptSucceeds(s) PROVE ShownInv'
  <2>1. paste.key # NoPass
    BY <1>6 DEF DecryptSucceeds, LockedInv
  <2>2. IsBlock(block)' /\ block'.text = Clear(Result(attempt[s]))
    BY <1>6, Rewritten DEF DecryptSucceeds, ShownInv, IsBlock
  <2>3. block'.text # Body'
    BY <1>6, <2>1, <2>2, ClearIsNotSealed DEF Body, DecryptSucceeds
  <2> QED
    BY <2>2, <2>3 DEF ShownInv, HighlightedForClass
<1>7. CASE \E s \in Attempts : Decrypt(s) \/ DecryptFails(s)
  BY <1>2, <1>7 DEF Decrypt, DecryptFails
<1> QED
  BY <1>2, <1>3, <1>4, <1>5, <1>6, <1>7 DEF Next, vars, ToggleModal, FollowLink, HashChange,
     Copy, CopyTimer

(* ServedHighlighted: whenever Prism arrives, and whatever is selected     *)
(* before, the paste as served is highlighted for its class.               *)
THEOREM ServedHighlighted == Spec => []HighlightedForClass
<1>1. ShownInv => HighlightedForClass
  BY DEF ShownInv
<1> QED
  BY <1>1, LockedInit, LockedStep, ShownInit, ShownStep, PTL DEF Spec

-----------------------------------------------------------------------------
(* Line links.                                                             *)

LineInv ==
    /\ hash \in Hashes /\ (~changed => hash # "gitlab")
    /\ LinesFollowHash

LEMMA LineInit == Init => LineInv
BY DEF Init, LineInv, LinesFollowHash, Hashes, normalizeLineHash

LEMMA LineStep == LineInv /\ [Next]_vars => LineInv'
<1> SUFFICES ASSUME LineInv, [Next]_vars PROVE LineInv'
  OBVIOUS
<1> USE DEF core, code, crypt, links, copying
<1>1. CASE UNCHANGED <<hash, changed, lines, prism, diagram>>
  BY <1>1 DEF LineInv, LinesFollowHash, Attached
<1>2. CASE PrismLoads
  BY <1>2 DEF PrismLoads, LineInv, LinesFollowHash, Attached, Hashes
<1>3. CASE MermaidLoads
  BY <1>3 DEF MermaidLoads, _renderMermaid, LineInv, LinesFollowHash, Attached
<1>4. ASSUME NEW lang \in Languages, Select(lang) PROVE LineInv'
  <2>1. CASE UNCHANGED <<diagram, lines>>
    BY <1>1, <1>4, <2>1 DEF Select
  <2>2. CASE Attached /\ _renderMermaid
    BY <1>4, <2>2 DEF Select, _renderMermaid, LineInv, LinesFollowHash, Attached
  <2>3. CASE Attached /\ lines' = (hash = "prism") /\ UNCHANGED diagram
    BY <1>4, <2>3 DEF Select, LineInv, LinesFollowHash, Attached, Hashes
  <2> QED
    BY <1>4, <2>1, <2>2, <2>3 DEF Select
<1>5. ASSUME NEW h \in Hashes, FollowLink(h) PROVE LineInv'
  BY <1>5 DEF FollowLink, LineInv, LinesFollowHash
<1>6. CASE HashChange
  BY <1>6 DEF HashChange, normalizeLineHash, LineInv, LinesFollowHash, Attached, Hashes
<1>7. CASE \E s \in Attempts : Decrypt(s) \/ DecryptFails(s) \/ DecryptSucceeds(s)
  BY <1>1, <1>7 DEF Decrypt, DecryptFails, DecryptSucceeds
<1> QED
  BY <1>1, <1>2, <1>3, <1>4, <1>5, <1>6, <1>7 DEF Next, vars, ToggleModal, Copy, CopyTimer

(* LinksLand: a link to lines in either form ends with them highlighted,   *)
(* followed before or after Prism and Mermaid came.                        *)
THEOREM LinksLand == Spec => []LinesFollowHash
<1>1. LineInv => LinesFollowHash
  BY DEF LineInv
<1> QED
  BY <1>1, LineInit, LineStep, PTL DEF Spec

-----------------------------------------------------------------------------
(* Decryption: what an attempt comes to.                                   *)

Marks == {"copy", "copied"}
TypeInv == PasteViewTypeOK /\ timers \in Seq(Marks)

Opens(a) == a.pass = paste.key /\ ~Exempt(a)

(* A decryption that finds a text has found the text that was sent, and it *)
(* finds it exactly when the right password meets the encrypted paste.     *)
LEMMA ResultIs ==
    ASSUME TypeInv, LockedInv, NEW s \in Attempts, attempt[s] # None
    PROVE  /\ Opens(attempt[s]) <=> Result(attempt[s]) \notin Refused
           /\ Opens(attempt[s]) => Clear(Result(attempt[s])) = Plain
<1> DEFINE a == attempt[s]
<1>1. /\ paste.key # NoPass /\ a.cipher \in TextsShown \cup {Clear(<< >>)}
      /\ secure \in BOOLEAN
  BY DEF TypeInv, PasteViewTypeOK, LockedInv
<1>2. paste.text \in Texts
  BY Pastes DEF TypeInv, PasteViewTypeOK
<1>3. Len(paste.text) \in Nat /\ paste.text # Null
  BY <1>2, Pastes
<1> HIDE DEF a
<1>4. CASE ~secure
  BY <1>4 DEF Opens, Exempt, Result, Refused, a
<1>5. CASE secure /\ a.cipher = Body
  <2>1. Body = aesEncrypt(paste.text, paste.key)
    BY <1>1 DEF Body
  <2>2. Result(a) = IF a.pass = paste.key THEN paste.text ELSE Null
    BY <1>3, <1>5, <2>1, EnvelopeOpens DEF Result
  <2> QED
    BY <1>3, <1>5, <2>2 DEF Opens, Exempt, Refused, Plain, a
<1>6. CASE secure /\ a.cipher # Body
  <2>1. PICK t : a.cipher = Clear(t)
    BY <1>1, <1>6 DEF TextsShown, Plain
  <2>2. Clear(t).prefix # "v2:"
    BY DEF Clear
  <2>3. aesDecrypt(a.cipher, a.pass) = Null
    BY <2>1, <2>2 DEF aesDecrypt
  <2>4. Result(a) = Null
    BY <2>3 DEF Result
  <2> QED
    BY <1>6, <2>4 DEF Opens, Exempt, Refused, a
<1> QED
  BY <1>1, <1>4, <1>5, <1>6

-----------------------------------------------------------------------------
(* Types.                                                                  *)

LEMMA TypeInit == Init => TypeInv
<1> SUFFICES ASSUME Init PROVE TypeInv
  OBVIOUS
<1>1. paste \in Served /\ paste.lang \in Languages
  BY Pastes DEF Init
<1>2. /\ block \in [text : TextsShown, lang : Languages, shown : Languages \cup {None}]
      /\ diagram \in [drawn : BOOLEAN, text : TextsShown]
  BY <1>1 DEF Init, TextsShown
<1>3. timers \in Seq(Marks) /\ Len(timers) <= MaxTimers /\ copyLabel \in {"copy", "copied"}
  BY Bounds DEF Init
<1>4. hash \in Hashes
  BY DEF Init, Hashes, normalizeLineHash
<1>5. /\ selector \in Languages /\ mermaid \in BOOLEAN /\ tags \in 0 .. MaxTags
      /\ prism \in {"absent", "loading", "ready", "failed"}
  <2>1. selector \in Languages /\ tags \in 0 .. MaxTags
    BY Pastes, Bounds DEF Init
  <2>2. mermaid \in BOOLEAN
    BY DEF Init
  <2>3. prism \in {"absent", "loading", "ready", "failed"}
    BY DEF Init
  <2> QED
    BY <2>1, <2>2, <2>3
<1>6. \A s \in Attempts : attempt[s] = None
  BY DEF Init
<1>7. /\ secure \in BOOLEAN /\ modal \in BOOLEAN /\ alert \in BOOLEAN
      /\ changed \in BOOLEAN /\ lines \in BOOLEAN
  BY DEF Init
<1> QED
  BY <1>1, <1>2, <1>3, <1>4, <1>5, <1>6, <1>7 DEF TypeInv, PasteViewTypeOK

(* A block keeps its type when it is relabelled, highlighted or rewritten. *)
Blocks == [text : TextsShown, lang : Languages, shown : Languages \cup {None}]

LEMMA HighlightedTyped ==
    ASSUME NEW b \in Blocks
    PROVE  Highlighted(b) \in Blocks /\ Highlighted(b).text = b.text
BY HighlightedIs DEF Blocks, IsBlock

LEMMA RelabelledTyped ==
    ASSUME NEW b \in Blocks, NEW l \in Languages
    PROVE  [b EXCEPT !.lang = l] \in Blocks /\ [b EXCEPT !.lang = l].text = b.text
BY Relabelled DEF Blocks, IsBlock

LEMMA RewrittenTyped ==
    ASSUME NEW b \in Blocks, NEW t \in TextsShown,
           NEW c, c = [b EXCEPT !.text = t, !.shown = None]
    PROVE  c \in Blocks /\ c.text = t
<1>1. c = [text |-> t, lang |-> b.lang, shown |-> None]
  BY Rewritten DEF Blocks, IsBlock
<1> QED
  BY <1>1 DEF Blocks

(* What a step does to block, diagram and what is visible.                 *)
LEMMA BlockStep ==
    ASSUME TypeInv, LockedInv, [Next]_vars
    PROVE  /\ block' \in Blocks /\ diagram' \in [drawn : BOOLEAN, text : TextsShown]
           /\ paste' = paste
           /\ Visible' # Visible => Visible = Body /\ Visible' = Plain
<1> USE DEF core, code, crypt, links, copying
<1>1. /\ block \in Blocks /\ diagram \in [drawn : BOOLEAN, text : TextsShown]
      /\ diagram.drawn \in BOOLEAN /\ block.text \in TextsShown
  BY DEF TypeInv, PasteViewTypeOK, Blocks
<1>2. CASE UNCHANGED <<paste, block, diagram>>
  BY <1>1, <1>2 DEF Visible
<1>3. ASSUME _renderMermaid, UNCHANGED <<paste, block>>
      PROVE  /\ block' \in Blocks /\ diagram' \in [drawn : BOOLEAN, text : TextsShown]
             /\ Visible' = Visible
  <2>1. CASE Attached
    <3>1. diagram' = [drawn |-> TRUE, text |-> block.text]
      BY <1>3, <2>1 DEF _renderMermaid, Rendered
    <3> QED
      BY <1>1, <1>3, <2>1, <3>1 DEF Visible, Attached
  <2>2. CASE ~Attached
    BY <1>1, <1>3, <2>2 DEF _renderMermaid, Visible
  <2> QED
    BY <2>1, <2>2
<1>4. ASSUME UNCHANGED <<paste, diagram>>, block' \in Blocks, block'.text = block.text
      PROVE  Visible' = Visible
  BY <1>4 DEF Visible
<1>5. CASE PrismLoads
  <2>1. UNCHANGED <<paste, diagram>> /\ (block' = Highlighted(block) \/ block' = block)
    BY <1>5 DEF PrismLoads
  <2>2. block' \in Blocks /\ block'.text = block.text
    BY <1>1, <2>1, HighlightedTyped
  <2> QED
    BY <1>1, <1>4, <2>1, <2>2
<1>6. CASE MermaidLoads
  BY <1>2, <1>3, <1>6 DEF MermaidLoads
<1>7. ASSUME NEW lang \in Languages, Select(lang)
      PROVE  /\ block' \in Blocks /\ diagram' \in [drawn : BOOLEAN, text : TextsShown]
             /\ paste' = paste /\ Visible' = Visible
  <2>1. paste' = paste
    BY <1>7 DEF Select
  <2>2. CASE UNCHANGED <<block, diagram>>
    BY <1>1, <2>1, <2>2 DEF Visible
  <2>3. CASE _renderMermaid /\ UNCHANGED block
    BY <1>3, <2>1, <2>3
  <2>4. CASE block' = Highlighted([block EXCEPT !.lang = lang]) /\ UNCHANGED diagram
    <3>1. block' \in Blocks /\ block'.text = block.text
      BY <1>1, <2>4, RelabelledTyped, HighlightedTyped
    <3> QED
      BY <1>1, <1>4, <2>1, <2>4, <3>1
  <2>5. CASE block' = [block EXCEPT !.lang = lang] /\ UNCHANGED diagram
    <3>1. block' \in Blocks /\ block'.text = block.text
      BY <1>1, <2>5, RelabelledTyped
    <3> QED
      BY <1>1, <1>4, <2>1, <2>5, <3>1
  <2> QED
    BY <1>7, <2>2, <2>3, <2>4, <2>5 DEF Select
<1>8. ASSUME NEW s \in Attempts, DecryptSucceeds(s)
      PROVE  /\ block' \in Blocks /\ diagram' = diagram /\ paste' = paste
             /\ Visible' # Visible => Visible = Body /\ Visible' = Plain
  <2>1. /\ diagram' = diagram /\ paste' = paste /\ attempt[s] # None
        /\ Result(attempt[s]) \notin Refused
        /\ block' = [block EXCEPT !.text = Clear(Result(attempt[s])), !.shown = None]
    BY <1>8 DEF DecryptSucceeds
  <2>2. Clear(Result(attempt[s])) = Plain
    BY <2>1, ResultIs
  <2>3. Plain \in TextsShown
    BY DEF TextsShown
  <2>4. block' \in Blocks /\ block'.text = Plain
    <3>1. block' = [block EXCEPT !.text = Plain, !.shown = None]
      BY <2>1, <2>2
    <3> QED
      BY <1>1, <2>3, <3>1, RewrittenTyped
  <2> QED
    BY <1>1, <2>1, <2>4 DEF Visible, TextsShown, Plain
<1>9. CASE \E s \in Attempts : Decrypt(s) \/ DecryptFails(s)
  BY <1>2, <1>9 DEF Decrypt, DecryptFails
<1> QED
  BY <1>1, <1>2, <1>5, <1>6, <1>7, <1>8, <1>9 DEF Next, vars, ToggleModal, FollowLink,
     HashChange, Copy, CopyTimer

(* The remaining variables, group by group.                                *)
LEMMA AttemptStep ==
    ASSUME TypeInv, LockedInv, [Next]_vars
    PROVE  \A s \in Attempts : attempt'[s] # None =>
              /\ attempt'[s].cipher \in TextsShown' \cup {Clear(<< >>)}
              /\ attempt'[s].pass \in Passwords
<1> USE DEF core, code, crypt, links, copying
<1> DEFINE Typed(a) == a.cipher \in TextsShown \cup {Clear(<< >>)} /\ a.pass \in Passwords
<1>0. attempt = [s \in Attempts |-> attempt[s]]
  BY DEF LockedInv
<1>1. \A s \in Attempts : attempt[s] # None => Typed(attempt[s])
  BY DEF TypeInv, PasteViewTypeOK
<1>2. paste' = paste
  BY DEF Next, vars, PrismLoads, MermaidLoads, Select, Decrypt, DecryptFails, DecryptSucceeds,
     ToggleModal, FollowLink, HashChange, Copy, CopyTimer
<1>3. TextsShown' = TextsShown
  BY <1>2 DEF TextsShown, Body, Plain
<1>4. \A s \in Attempts : attempt'[s] # None => Typed(attempt'[s])
  <2>1. CASE UNCHANGED attempt
    BY <1>1, <2>1
  <2>2. ASSUME NEW s \in Attempts, Decrypt(s)
        PROVE  \A r \in Attempts : attempt'[r] # None => Typed(attempt'[r])
    <3>1. PICK pass \in Passwords :
             attempt' = [attempt EXCEPT ![s] = [cipher |-> CipherText, pass |-> pass]]
      BY <2>2 DEF Decrypt
    <3>2. CipherText \in TextsShown \cup {Clear(<< >>)}
      BY DEF CipherText, TypeInv, PasteViewTypeOK
    <3> DEFINE entry == [cipher |-> CipherText, pass |-> pass]
    <3>3. Typed(entry)
      BY <3>2
    <3> HIDE DEF Typed
    <3>4. \A r \in Attempts : attempt'[r] = IF r = s THEN entry ELSE attempt[r]
      BY <1>0, <3>1
    <3> HIDE DEF entry
    <3> QED
      BY <1>1, <3>3, <3>4
  <2>3. ASSUME NEW s \in Attempts, DecryptFails(s) \/ DecryptSucceeds(s)
        PROVE  \A r \in Attempts : attempt'[r] # None => Typed(attempt'[r])
    <3> HIDE DEF Typed
    <3>1. attempt' = [attempt EXCEPT ![s] = None]
      BY <2>3 DEF DecryptFails, DecryptSucceeds
    <3>2. \A r \in Attempts : attempt'[r] = IF r = s THEN None ELSE attempt[r]
      BY <1>0, <3>1
    <3> QED
      BY <1>1, <3>2
  <2> HIDE DEF Typed
  <2> QED
    BY <2>1, <2>2, <2>3 DEF Next, vars, PrismLoads, MermaidLoads, Select, ToggleModal,
       FollowLink, HashChange, Copy, CopyTimer
<1> QED
  BY <1>3, <1>4

LEMMA CopyTyped ==
    ASSUME TypeInv, [Next]_vars
    PROVE  /\ timers' \in Seq(Marks) /\ Len(timers') <= MaxTimers
           /\ copyLabel' \in {"copy", "copied"}
<1> USE DEF core, code, crypt, links, copying
<1>1. /\ timers \in Seq(Marks) /\ Len(timers) <= MaxTimers /\ Len(timers) \in Nat
      /\ copyLabel \in {"copy", "copied"}
  BY LenProperties DEF TypeInv, PasteViewTypeOK
<1>2. CASE UNCHANGED copying
  BY <1>1, <1>2
<1>3. CASE Copy
  <2>1. copyLabel \in Marks
    BY <1>1 DEF Marks
  <2>2. timers' = Append(timers, copyLabel)
    BY <1>3 DEF Copy
  <2>3. timers' \in Seq(Marks) /\ Len(timers') = Len(timers) + 1
    BY <1>1, <2>1, <2>2, AppendProperties
  <2> QED
    BY <1>1, <1>3, <2>3, Bounds DEF Copy
<1>4. CASE CopyTimer
  <2>1. timers # << >> /\ timers' = Tail(timers) /\ copyLabel' = Head(timers)
    BY <1>4 DEF CopyTimer
  <2>2. /\ timers' \in Seq(Marks) /\ Len(timers') = Len(timers) - 1
        /\ copyLabel' \in Marks
    BY <1>1, <2>1, HeadTailProperties
  <2> QED
    BY <1>1, <2>1, <2>2, Bounds DEF Marks
<1> QED
  BY <1>2, <1>3, <1>4 DEF Next, vars, PrismLoads, MermaidLoads, Select, Decrypt, DecryptFails,
     DecryptSucceeds, ToggleModal, FollowLink, HashChange

LEMMA RestTyped ==
    ASSUME TypeInv, [Next]_vars
    PROVE  /\ selector' \in Languages /\ mermaid' \in BOOLEAN /\ tags' \in 0 .. MaxTags
           /\ prism' \in {"absent", "loading", "ready", "failed"}
           /\ secure' \in BOOLEAN /\ modal' \in BOOLEAN /\ alert' \in BOOLEAN
           /\ hash' \in Hashes /\ changed' \in BOOLEAN /\ lines' \in BOOLEAN
<1> USE DEF core, code, crypt, links, copying
<1>1. /\ selector \in Languages /\ mermaid \in BOOLEAN /\ tags \in 0 .. MaxTags
      /\ prism \in {"absent", "loading", "ready", "failed"}
      /\ secure \in BOOLEAN /\ modal \in BOOLEAN /\ alert \in BOOLEAN
      /\ hash \in Hashes /\ changed \in BOOLEAN /\ lines \in BOOLEAN
  BY DEF TypeInv, PasteViewTypeOK
<1>2. (hash = "prism") \in BOOLEAN /\ Attached \in BOOLEAN
  BY DEF Attached
<1>3. CASE UNCHANGED <<selector, mermaid, tags, prism, secure, modal, alert, links>>
  BY <1>1, <1>3
<1>4. CASE PrismLoads
  BY <1>1, <1>2, <1>4 DEF PrismLoads
<1>5. CASE MermaidLoads
  <2>1. tags' \in 0 .. MaxTags /\ selector' \in Languages
        /\ prism' \in {"absent", "loading", "ready", "failed"} /\ hash' \in Hashes
    BY <1>1, <1>5, Bounds DEF MermaidLoads
  <2>2. /\ secure' \in BOOLEAN /\ modal' \in BOOLEAN /\ alert' \in BOOLEAN
        /\ mermaid' \in BOOLEAN /\ changed' \in BOOLEAN /\ lines' \in BOOLEAN
    BY <1>1, <1>5 DEF MermaidLoads, _renderMermaid
  <2> QED
    BY <2>1, <2>2
<1>6. ASSUME NEW lang \in Languages, Select(lang)
      PROVE  /\ selector' \in Languages /\ tags' \in 0 .. MaxTags /\ lines' \in BOOLEAN
             /\ UNCHANGED <<mermaid, prism, secure, modal, alert, hash, changed>>
  <2>1. tags' \in 0 .. MaxTags
    <3>1. tags' = tags \/ (tags < MaxTags /\ tags' = tags + 1)
      BY <1>6 DEF Select
    <3> QED
      BY <1>1, <3>1, Bounds
  <2>2. lines' \in BOOLEAN
    BY <1>1, <1>2, <1>6 DEF Select, _renderMermaid
  <2> QED
    BY <1>6, <2>1, <2>2 DEF Select
<1>7. CASE \E s \in Attempts : Decrypt(s) \/ DecryptFails(s) \/ DecryptSucceeds(s)
  BY <1>1, <1>7 DEF Decrypt, DecryptFails, DecryptSucceeds
<1>8. CASE ToggleModal
  BY <1>1, <1>8 DEF ToggleModal
<1>9. ASSUME NEW h \in Hashes, FollowLink(h)
      PROVE  /\ hash' \in Hashes /\ changed' \in BOOLEAN
             /\ UNCHANGED <<selector, mermaid, tags, prism, secure, modal, alert, lines>>
  BY <1>9 DEF FollowLink
<1>10. CASE HashChange
  <2>1. hash' \in Hashes
    BY <1>1, <1>10 DEF HashChange, normalizeLineHash, Hashes
  <2>2. (Attached /\ hash' = "prism") \in BOOLEAN
    BY DEF Attached
  <2> QED
    BY <1>1, <1>10, <2>1, <2>2 DEF HashChange
<1> QED
  BY <1>1, <1>3, <1>4, <1>5, <1>6, <1>7, <1>8, <1>9, <1>10 DEF Next, vars, Copy, CopyTimer

LEMMA TypeStep == TypeInv /\ LockedInv /\ [Next]_vars => TypeInv'
<1> SUFFICES ASSUME TypeInv, LockedInv, [Next]_vars PROVE TypeInv'
  OBVIOUS
<1>1. paste' \in Served
  BY BlockStep DEF TypeInv, PasteViewTypeOK
<1>2. TextsShown' = TextsShown
  BY BlockStep DEF TextsShown, Body, Plain
<1>3. /\ block' \in [text : TextsShown', lang : Languages, shown : Languages \cup {None}]
      /\ diagram' \in [drawn : BOOLEAN, text : TextsShown']
  BY <1>2, BlockStep DEF Blocks
<1> QED
  BY <1>1, <1>3, AttemptStep, CopyTyped, RestTyped DEF TypeInv, PasteViewTypeOK

(* PasteViewTyping: every variable keeps its type; above all, the only     *)
(* texts a page ever holds are the paste as served and the text that was   *)
(* sent.                                                                   *)
THEOREM PasteViewTyping == Spec => []PasteViewTypeOK
<1>1. TypeInv => PasteViewTypeOK
  BY DEF TypeInv
<1> QED
  BY <1>1, LockedInit, LockedStep, TypeInit, TypeStep, PTL DEF Spec

-----------------------------------------------------------------------------
(* Reading.                                                                *)

(* PasswordOpens: where a code block shows the encrypted text, with crypto *)
(* and a text to find, the right password shows what was sent; the wrong   *)
(* one warns, and leaves the text as it is.  Where Exempt says so, nothing *)
(* is claimed of the right one but that it spoils nothing.                 *)
THEOREM PasswordOpens == Spec => RightPasswordOpens
<1> DEFINE Ended(s) ==
        LET known == attempt[s].pass = paste.key
        IN  /\ known /\ ~Exempt(attempt[s]) => block'.text = Plain
            /\ ~known => alert'
            /\ ~known \/ Exempt(attempt[s]) => block' = block
           Opened == \A s \in Attempts : attempt[s] # None /\ attempt'[s] = None => Ended(s)
<1>1. TypeInv /\ LockedInv /\ [Next]_vars => [Opened]_vars
  <2> SUFFICES ASSUME TypeInv, LockedInv, [Next]_vars,
                      NEW s \in Attempts, attempt[s] # None, attempt'[s] = None
               PROVE  Ended(s)
    OBVIOUS
  <2> USE DEF core, code, crypt, links, copying
  <2>1. attempt = [r \in Attempts |-> attempt[r]]
    BY DEF LockedInv
  <2>2. attempt' # attempt
    OBVIOUS
  <2>3. ~ \E r \in Attempts : Decrypt(r)
    BY <2>1 DEF Decrypt
  <2>4. PICK r \in Attempts : DecryptFails(r) \/ DecryptSucceeds(r)
    BY <2>2, <2>3 DEF Next, vars, PrismLoads, MermaidLoads, Select, ToggleModal, FollowLink,
       HashChange, Copy, CopyTimer
  <2>5. r = s
    BY <2>1, <2>4 DEF DecryptFails, DecryptSucceeds
  <2>6. CASE DecryptFails(s)
    <3>1. ~Opens(attempt[s])
      BY <2>6, ResultIs DEF DecryptFails
    <3> QED
      BY <2>6, <3>1 DEF DecryptFails, Opens
  <2>7. CASE DecryptSucceeds(s)
    <3>1. Opens(attempt[s]) /\ Clear(Result(attempt[s])) = Plain
      BY <2>7, ResultIs DEF DecryptSucceeds
    <3>2. block' = [block EXCEPT !.text = Plain, !.shown = None]
      BY <2>7, <3>1 DEF DecryptSucceeds
    <3>3. block \in Blocks /\ Plain \in TextsShown
      BY DEF TypeInv, PasteViewTypeOK, Blocks, TextsShown
    <3>4. block'.text = Plain
      BY <3>2, <3>3, RewrittenTyped
    <3> QED
      BY <3>1, <3>4 DEF Opens
  <2> QED
    BY <2>4, <2>5, <2>6, <2>7
<1> QED
  BY <1>1, LockedInit, LockedStep, TypeInit, TypeStep, PTL DEF Spec, RightPasswordOpens

(* OpenedOnce: scripts arriving late, diagrams and second decryptions      *)
(* change what is to be read only once, from the paste as served to its    *)
(* text.                                                                   *)
THEOREM OpenedOnce == Spec => NeverRelocked
<1> DEFINE Kept == Visible' # Visible => Visible = Body /\ Visible' = Plain
<1>1. TypeInv /\ LockedInv /\ [Next]_vars => [Kept]_vars
  BY BlockStep
<1> QED
  BY <1>1, LockedInit, LockedStep, TypeInit, TypeStep, PTL DEF Spec, NeverRelocked
=============================================================================
