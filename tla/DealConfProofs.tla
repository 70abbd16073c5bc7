--------------------------- MODULE DealConfProofs ---------------------------
(***************************************************************************)
(* Theorems about DealConf for any configuration files, any number of      *)
(* elements and any sizes of the buffers, over-long values included.       *)
(***************************************************************************)
EXTENDS DealConf, TextTheorems

----------------------------------------------------------------------------
(* Texts and tags.                                                         *)

\* A character; the prover does not count literals among the strings.
Char == STRING \cup {"<", "/", ">"}

Text == Seq(Char)

\* The characters of the tags.
LEMMA OpenTagChars ==
  ASSUME NEW n \in Text
  PROVE  /\ OpenTag(n) \in Text /\ Len(OpenTag(n)) = Len(n) + 2
         /\ OpenTag(n)[1] = "<" /\ OpenTag(n)[Len(n) + 2] = ">"
         /\ \A i \in 1 .. Len(n) : OpenTag(n)[i + 1] = n[i]
<1> DEFINE a == <<"<">>   b == <<">">>   t == a \o n \o b
<1>1. /\ a \in Seq(Char) /\ Len(a) = 1 /\ a[1] = "<"
      /\ b \in Seq(Char) /\ Len(b) = 1 /\ b[1] = ">"
  BY OneLetter DEF Char
<1>2. n \in Seq(Char) /\ Len(n) \in Nat
  BY DEF Text
<1>3. t = OpenTag(n)
  BY DEF OpenTag
<1> HIDE DEF a, b
<1>4. t \in Seq(Char) /\ IsTriple(t, a, n, b)
  <2>1. a \in Seq(Char) /\ b \in Seq(Char) /\ n \in Seq(Char)
    BY <1>1, <1>2
  <2> QED BY <2>1, TripleJoined
<1> HIDE DEF t
<1>5. Len(t) = Len(n) + 2 /\ t[1] = "<" /\ t[Len(n) + 2] = ">"
  BY <1>1, <1>2, <1>4 DEF IsTriple
<1>6. \A i \in 1 .. Len(n) : t[i + 1] = n[i]
  BY <1>1, <1>2, <1>4 DEF IsTriple
<1> QED BY <1>3, <1>4, <1>5, <1>6 DEF Text

\* The characters of a closing tag.
LEMMA CloseTagChars ==
  ASSUME NEW n \in Text
  PROVE  /\ CloseTag(n) \in Text /\ Len(CloseTag(n)) = Len(n) + 3
         /\ CloseTag(n)[1] = "<" /\ CloseTag(n)[2] = "/"
         /\ CloseTag(n)[Len(n) + 3] = ">"
         /\ \A i \in 1 .. Len(n) : CloseTag(n)[i + 2] = n[i]
<1> DEFINE a == <<"<", "/">>   b == <<">">>   t == a \o n \o b
<1>1. /\ a \in Seq(Char) /\ Len(a) = 2 /\ a[1] = "<" /\ a[2] = "/"
      /\ b \in Seq(Char) /\ Len(b) = 1 /\ b[1] = ">"
  BY OneLetter, TwoLetters DEF Char
<1>2. n \in Seq(Char) /\ Len(n) \in Nat
  BY DEF Text
<1>3. t = CloseTag(n)
  BY DEF CloseTag
<1> HIDE DEF a, b
<1>4. t \in Seq(Char) /\ IsTriple(t, a, n, b)
  <2>1. a \in Seq(Char) /\ b \in Seq(Char) /\ n \in Seq(Char)
    BY <1>1, <1>2
  <2> QED BY <2>1, TripleJoined
<1> HIDE DEF t
<1>5. /\ Len(t) = Len(n) + 3
      /\ t[1] = "<" /\ t[2] = "/" /\ t[Len(n) + 3] = ">"
  BY <1>1, <1>2, <1>4 DEF IsTriple
<1>6. \A i \in 1 .. Len(n) : t[i + 2] = n[i]
  BY <1>1, <1>2, <1>4 DEF IsTriple
<1> QED BY <1>3, <1>4, <1>5, <1>6 DEF Text

\* e's text is x.
IsElement(x, n, v) ==
  /\ x \in Text /\ Len(x) = 2 * Len(n) + Len(v) + 5
  /\ x[1] = "<" /\ x[Len(n) + 2] = ">"
  /\ \A i \in 1 .. Len(n) : x[i + 1] = n[i]
  /\ \A i \in 1 .. Len(v) : x[Len(n) + 2 + i] = v[i]
  /\ \A i \in 1 .. Len(n) + 3 : x[Len(n) + Len(v) + 2 + i] = CloseTag(n)[i]

\* The characters of an element.
LEMMA ElementChars ==
  ASSUME NEW e, e.name \in Text, e.value \in Text
  PROVE  IsElement(Element(e), e.name, e.value)
<1> DEFINE n == e.name  v == e.value  a == OpenTag(n)   b == CloseTag(n)   x == a \o v \o b
<1>1. /\ a \in Text /\ Len(a) = Len(n) + 2 /\ a[1] = "<" /\ a[Len(n) + 2] = ">"
      /\ \A i \in 1 .. Len(n) : a[i + 1] = n[i]
  BY OpenTagChars
<1>2. b \in Text /\ Len(b) = Len(n) + 3
  BY CloseTagChars
<1>3. x = Element(e)
  BY DEF Element
<1>4. b = CloseTag(n)
  OBVIOUS
<1>5. n \in Text /\ v \in Text /\ Len(n) \in Nat /\ Len(v) \in Nat
  BY DEF Text
<1> HIDE DEF n, v, a, b
<1>6. x \in Text /\ IsTriple(x, a, v, b)
  <2>1. a \in Text /\ b \in Text /\ v \in Text
    BY <1>1, <1>2, <1>5
  <2> QED BY <2>1, TripleJoined DEF Text
<1> HIDE DEF x
<1>7. /\ x[1] = "<" /\ x[Len(n) + 2] = ">"
      /\ \A i \in 1 .. Len(n) : x[i + 1] = n[i]
  BY <1>1, <1>5, <1>6 DEF IsTriple
<1>8. \A i \in 1 .. Len(b) : x[Len(n) + Len(v) + 2 + i] = b[i]
  <2>1. Len(a) + Len(v) = Len(n) + Len(v) + 2
    BY <1>1, <1>5
  <2> QED BY <1>6, <2>1 DEF IsTriple
<1>10. Len(x) = 2 * Len(n) + Len(v) + 5
  BY <1>1, <1>2, <1>5, <1>6 DEF IsTriple
<1>11. \A i \in 1 .. Len(v) : x[Len(n) + 2 + i] = v[i]
  BY <1>1, <1>6 DEF IsTriple
<1>12. \A i \in 1 .. Len(n) + 3 : x[Len(n) + Len(v) + 2 + i] = CloseTag(n)[i]
  BY <1>2, <1>4, <1>8
<1>9. IsElement(x, n, v)
  BY <1>6, <1>7, <1>10, <1>11, <1>12 DEF IsElement
<1> QED BY <1>3, <1>9 DEF n, v

\* The text s stands in d behind the first o characters.
At(d, o, s) ==
  o + Len(s) <= Len(d) /\ \A i \in 1 .. Len(s) : d[o + i] = s[i]

\* A name has characters, and none of them is one of a tag's.
LEMMA PlainChars ==
  ASSUME NEW n \in Text, Plain(n)
  PROVE  Len(n) \in Nat \ {0} /\ \A i \in 1 .. Len(n) : n[i] \notin {"<", "/", ">"}
<1>1. Len(n) \in Nat /\ Len(n) # 0
  BY EmptySeq DEF Text, Plain
<1>2. ASSUME NEW i \in 1 .. Len(n) PROVE n[i] \notin {"<", "/", ">"}
  <2>1. n[i] \in Range(n)
    BY DEF Range, Text
  <2> QED BY <2>1 DEF Plain
<1> QED BY <1>1, <1>2

\* Only the first character of a tag opens it.
LEMMA TagTail ==
  ASSUME NEW n \in Text, Plain(n)
  PROVE  /\ \A i \in 2 .. Len(n) + 2 : OpenTag(n)[i] \notin {"<", "/"}
         /\ \A i \in 2 .. Len(n) + 3 : CloseTag(n)[i] # "<"
<1>1. Len(n) \in Nat \ {0} /\ \A i \in 1 .. Len(n) : n[i] \notin {"<", "/", ">"}
  BY PlainChars
<1>2. ASSUME NEW i \in 2 .. Len(n) + 2 PROVE OpenTag(n)[i] \notin {"<", "/"}
  <2>1. CASE i = Len(n) + 2
    BY <2>1, OpenTagChars
  <2>2. CASE i # Len(n) + 2
    <3>1. i - 1 \in 1 .. Len(n) /\ i - 1 + 1 = i
      BY <1>1, <2>2
    <3>2. OpenTag(n)[i - 1 + 1] = n[i - 1]
      BY <3>1, OpenTagChars
    <3> QED BY <1>1, <3>1, <3>2
  <2> QED BY <2>1, <2>2
<1>3. ASSUME NEW i \in 2 .. Len(n) + 3 PROVE CloseTag(n)[i] # "<"
  <2>1. CASE i = Len(n) + 3
    BY <2>1, CloseTagChars
  <2>2. CASE i = 2
    BY <2>2, CloseTagChars
  <2>3. CASE i # Len(n) + 3 /\ i # 2
    <3>1. i - 2 \in 1 .. Len(n) /\ i - 2 + 2 = i
      BY <1>1, <2>3
    <3>2. CloseTag(n)[i - 2 + 2] = n[i - 2]
      BY <3>1, CloseTagChars
    <3> QED BY <1>1, <3>1, <3>2
  <2> QED BY <2>1, <2>2, <2>3
<1> QED BY <1>2, <1>3

\* A tag that stands in an element is in its value, or it is the element's
\* opening tag.
LEMMA TagInElement ==
  ASSUME NEW d \in Text, NEW o \in Nat, NEW n \in Text, NEW v \in Text, NEW x,
         IsElement(x, n, v), Plain(n), At(d, o, x),
         NEW m \in Text, Plain(m), NEW p \in 0 .. Len(x) - 1,
         At(d, o + p, OpenTag(m))
  PROVE  \/ p = 0 /\ n = m
         \/ \E q \in 0 .. Len(v) - 1 : At(v, q, OpenTag(m))
<1> DEFINE t == OpenTag(m)   c == CloseTag(n)
<1>1. Len(n) \in Nat \ {0} /\ Len(m) \in Nat \ {0} /\ Len(v) \in Nat
  BY PlainChars DEF Text
<1>2. /\ Len(x) = 2 * Len(n) + Len(v) + 5
      /\ x[Len(n) + 2] = ">"
      /\ \A i \in 1 .. Len(n) : x[i + 1] = n[i]
      /\ \A i \in 1 .. Len(v) : x[Len(n) + 2 + i] = v[i]
      /\ \A i \in 1 .. Len(n) + 3 : x[Len(n) + Len(v) + 2 + i] = c[i]
  BY DEF IsElement
<1>3. /\ Len(t) = Len(m) + 2 /\ t[1] = "<" /\ t[Len(m) + 2] = ">"
      /\ \A i \in 1 .. Len(m) : t[i + 1] = m[i]
      /\ \A i \in 2 .. Len(m) + 2 : t[i] \notin {"<", "/"}
  BY OpenTagChars, TagTail
<1>4. /\ c[1] = "<" /\ c[2] = "/"
      /\ \A i \in 2 .. Len(n) + 3 : c[i] # "<"
  BY CloseTagChars, TagTail
<1>5. /\ \A i \in 1 .. Len(n) : n[i] \notin {"<", "/", ">"}
      /\ \A i \in 1 .. Len(m) : m[i] \notin {"<", "/", ">"}
  BY PlainChars
<1>6. ASSUME NEW i \in 1 .. Len(m) + 2, p + i <= Len(x) PROVE x[p + i] = t[i]
  <2>1. p + i \in 1 .. Len(x) /\ o + (p + i) = o + p + i
    BY <1>1, <1>2, <1>6
  <2>2. d[o + (p + i)] = x[p + i]
    BY <2>1 DEF At
  <2>3. d[o + p + i] = t[i]
    BY <1>3 DEF At
  <2> QED BY <2>1, <2>2, <2>3
<1> HIDE DEF t, c
<1>7. x[p + 1] = "<"
  BY <1>1, <1>2, <1>3, <1>6
<1>8. CASE p = 0
  <2>1. Len(n) >= Len(m)
    <3> SUFFICES ASSUME Len(n) < Len(m) PROVE FALSE
      BY <1>1
    <3>1. x[p + (Len(n) + 2)] = t[Len(n) + 2]
      BY <1>1, <1>2, <1>6, <1>8
    <3>2. t[Len(n) + 1 + 1] = m[Len(n) + 1] /\ Len(n) + 1 \in 1 .. Len(m)
      BY <1>1, <1>3
    <3> QED BY <1>1, <1>2, <1>5, <1>8, <3>1, <3>2
  <2>2. Len(m) >= Len(n)
    <3> SUFFICES ASSUME Len(m) < Len(n) PROVE FALSE
      BY <1>1
    <3>1. x[p + (Len(m) + 2)] = t[Len(m) + 2]
      BY <1>1, <1>2, <1>6, <1>8
    <3>2. x[Len(m) + 1 + 1] = n[Len(m) + 1] /\ Len(m) + 1 \in 1 .. Len(n)
      BY <1>1, <1>2
    <3> QED BY <1>1, <1>3, <1>5, <1>8, <3>1, <3>2
  <2>3. ASSUME NEW i \in 1 .. Len(n) PROVE n[i] = m[i]
    <3>1. x[p + (i + 1)] = t[i + 1]
      BY <1>1, <1>2, <1>6, <1>8, <2>1, <2>2
    <3> QED BY <1>1, <1>2, <1>3, <1>8, <2>1, <2>2, <3>1
  <2>4. Len(n) = Len(m)
    BY <1>1, <2>1, <2>2
  <2>5. n = m
    BY <2>3, <2>4, SeqEqual DEF Text
  <2> QED BY <1>8, <2>5
<1>9. CASE p \in 1 .. Len(n)
  BY <1>1, <1>2, <1>5, <1>7, <1>9, SMTT(30)
<1>10. CASE p = Len(n) + 1
  BY <1>1, <1>2, <1>7, <1>10
<1>11. CASE p \in Len(n) + 2 .. Len(n) + Len(v) + 1
  <2> DEFINE q == p - (Len(n) + 2)
  <2>1. q \in 0 .. Len(v) - 1 /\ p = Len(n) + 2 + q
    BY <1>1, <1>11
  <2> HIDE DEF q
  <2>2. q + (Len(m) + 2) <= Len(v)
    <3> SUFFICES ASSUME q + (Len(m) + 2) > Len(v) PROVE FALSE
      BY <1>1, <2>1
    <3> DEFINE i == Len(v) - q + 1
    <3>1. i \in 2 .. Len(m) + 2 /\ p + i = Len(n) + Len(v) + 2 + 1 /\ p + i <= Len(x)
      BY <1>1, <1>2, <2>1
    <3> HIDE DEF i
    <3>2. x[p + i] = t[i] /\ t[i] # "<"
      BY <1>3, <1>6, <3>1
    <3>3. x[Len(n) + Len(v) + 2 + 1] = c[1]
      BY <1>1, <1>2
    <3> QED BY <1>4, <3>1, <3>2, <3>3
  <2>3. ASSUME NEW i \in 1 .. Len(m) + 2 PROVE v[q + i] = t[i]
    <3>1. p + i = Len(n) + 2 + (q + i) /\ p + i <= Len(x) /\ q + i \in 1 .. Len(v)
      BY <1>1, <1>2, <2>1, <2>2
    <3>2. x[p + i] = t[i]
      BY <1>6, <3>1
    <3>3. x[Len(n) + 2 + (q + i)] = v[q + i]
      BY <1>2, <3>1
    <3> QED BY <3>1, <3>2, <3>3
  <2>4. At(v, q, t)
    BY <1>3, <2>2, <2>3 DEF At
  <2> QED BY <2>1, <2>4 DEF t
<1>12. CASE p \in Len(n) + Len(v) + 2 .. Len(x) - 1
  <2> DEFINE r == p - (Len(n) + Len(v) + 2) + 1
  <2>1. r \in 1 .. Len(n) + 3 /\ p + 1 = Len(n) + Len(v) + 2 + r
    BY <1>1, <1>2, <1>12
  <2> HIDE DEF r
  <2>2. c[r] = "<"
    BY <1>2, <1>7, <2>1
  <2>3. r = 1
    BY <1>1, <1>4, <2>1, <2>2
  <2>7. Len(x) = 2 * Len(n) + Len(v) + 5
    BY <1>2
  <2>4. p + 2 = Len(n) + Len(v) + 2 + 2 /\ p + 2 <= Len(x)
    BY <1>1, <2>1, <2>3, <2>7
  <2>5. x[p + 2] = t[2] /\ t[2] # "/"
    BY <1>1, <1>3, <1>6, <2>4
  <2>6. x[Len(n) + Len(v) + 2 + 2] = c[2]
    BY <1>1, <1>2
  <2> QED BY <1>4, <2>4, <2>5, <2>6
<1> QED BY <1>1, <1>2, <1>8, <1>9, <1>10, <1>11, <1>12

\* A closing tag that stands before the end of a value is in the value.
LEMMA CloseTagInValue ==
  ASSUME NEW d \in Text, NEW v \in Text, NEW n \in Text, Plain(n),
         At(d, 0, v), At(d, Len(v), CloseTag(n)),
         NEW q \in 0 .. Len(v) - 1, At(d, q, CloseTag(n))
  PROVE  At(v, q, CloseTag(n))
<1> DEFINE c == CloseTag(n)
<1>1. Len(n) \in Nat \ {0} /\ Len(v) \in Nat
  BY PlainChars DEF Text
<1>2. /\ Len(c) = Len(n) + 3 /\ c[1] = "<"
      /\ \A i \in 2 .. Len(n) + 3 : c[i] # "<"
  BY CloseTagChars, TagTail
<1>3. /\ \A i \in 1 .. Len(v) : d[0 + i] = v[i]
      /\ \A i \in 1 .. Len(c) : d[Len(v) + i] = c[i]
      /\ \A i \in 1 .. Len(c) : d[q + i] = c[i]
  BY DEF At
<1> HIDE DEF c
<1>4. q + (Len(n) + 3) <= Len(v)
  <2> SUFFICES ASSUME q + (Len(n) + 3) > Len(v) PROVE FALSE
    BY <1>1
  <2> DEFINE i == Len(v) - q + 1
  <2>1. i \in 2 .. Len(n) + 3 /\ q + i = Len(v) + 1
    BY <1>1
  <2> HIDE DEF i
  <2>2. d[q + i] = c[i] /\ c[i] # "<"
    BY <1>1, <1>2, <1>3, <2>1
  <2>3. d[Len(v) + 1] = c[1]
    BY <1>1, <1>2, <1>3
  <2> QED BY <1>2, <2>1, <2>2, <2>3
<1>5. ASSUME NEW i \in 1 .. Len(n) + 3 PROVE v[q + i] = c[i]
  <2>1. q + i \in 1 .. Len(v) /\ 0 + (q + i) = q + i
    BY <1>1, <1>4
  <2>2. d[0 + (q + i)] = v[q + i]
    BY <1>3, <2>1
  <2>3. d[q + i] = c[i]
    BY <1>2, <1>3
  <2> QED BY <2>1, <2>2, <2>3
<1>6. At(v, q, c)
  BY <1>2, <1>4, <1>5 DEF At
<1> QED BY <1>6 DEF c

----------------------------------------------------------------------------
(* The text of a file.                                                     *)

Entries == [name : Text, value : Text]

\* The text of f's first j elements.
Upto(f, j) == Render(SubSeq(f, 1, j))

LEMMA ElementIsText ==
  ASSUME NEW e \in Entries
  PROVE  Element(e) \in Text /\ IsElement(Element(e), e.name, e.value)
<1>1. e.name \in Text /\ e.value \in Text
  BY DEF Entries
<1> QED BY <1>1, ElementChars DEF IsElement

LEMMA UptoGrows ==
  ASSUME NEW f \in Seq(Entries)
  PROVE  /\ \A j \in 0 .. Len(f) : Upto(f, j) \in Text
         /\ Upto(f, 0) = <<>> /\ Upto(f, Len(f)) = Render(f)
         /\ \A j \in 1 .. Len(f) : Upto(f, j) = Upto(f, j - 1) \o Element(f[j])
<1> DEFINE n == Len(f)   step == [p \in Text \X (1 .. n) |-> p[1] \o Element(f[p[2]])]
<1>1. n \in Nat /\ \A i \in 1 .. n : f[i] \in Entries
  OBVIOUS
<1>2. \A i \in 1 .. n : Element(f[i]) \in Text
  BY <1>1, ElementIsText
<1>3. step \in Steps(Text, 1, n)
  <2>1. ASSUME NEW p \in Text \X (1 .. n) PROVE p[1] \o Element(f[p[2]]) \in Text
    <3>1. p[1] \in Seq(Char) /\ Element(f[p[2]]) \in Seq(Char)
      BY <1>2 DEF Text
    <3> QED BY <3>1, Joined DEF Text
  <2> QED BY <2>1 DEF Steps
<1>4. \A s \in Text, i \in 1 .. n : step[<<s, i>>] = s \o Element(f[i])
  OBVIOUS
<1>5. 1 \in Int /\ n \in Int /\ 1 <= n + 1 /\ <<>> \in Text
  BY <1>1, EmptySeq DEF Text
<1> HIDE DEF step, n
<1>6. PICK h \in [1 - 1 .. n -> Text] :
        h[1 - 1] = <<>> /\ \A i \in 1 .. n : h[i] = step[<<h[i - 1], i>>]
  BY <1>3, <1>5, FiniteRecursion
<1>7. h \in [0 .. n -> Text] /\ h[0] = <<>>
  BY <1>6
<1>8. ASSUME NEW i \in 1 .. n PROVE h[i] = h[i - 1] \o Element(f[i])
  <2>1. i - 1 \in 0 .. n
    BY <1>1
  <2>2. h[i - 1] \in Text
    BY <1>7, <2>1
  <2> QED BY <1>4, <1>6, <2>2
<1>9. ASSUME NEW j \in 0 .. n PROVE Upto(f, j) = h[j]
  <2> DEFINE s == SubSeq(f, 1, j)   seqs == [i \in 1 .. j |-> Element(f[i])]
             g == [i \in 0 .. j |-> h[i]]
  <2>1. DOMAIN s = 1 .. j /\ \A i \in 1 .. j : s[i] = f[i]
    BY <1>1 DEF n
  <2>2. Upto(f, j) = FlattenSeq(seqs)
    BY <2>1 DEF Upto, Render
  <2>3. seqs \in [1 .. j -> Seq(Char)] /\ \A i \in 1 .. j : seqs[i] = Element(f[i])
    BY <1>1, <1>2 DEF Text
  <2>4. g \in [0 .. j -> Seq(Char)] /\ g[0] = <<>> /\ \A i \in 0 .. j : g[i] = h[i]
    BY <1>1, <1>7 DEF Text
  <2> HIDE DEF g, seqs
  <2>5. ASSUME NEW i \in 1 .. j PROVE g[i] = g[i - 1] \o seqs[i]
    <3>1. i - 1 \in 0 .. j /\ i \in 0 .. j /\ i \in 1 .. n
      BY <1>1
    <3> QED BY <1>8, <2>3, <2>4, <3>1
  <2>6. j \in Nat
    BY <1>1
  <2>7. FlattenSeq(seqs) = g[j]
    BY <2>3, <2>4, <2>5, <2>6, FlattenedStepwise, ZenonT(60)
  <2> QED BY <1>1, <2>2, <2>4, <2>6, <2>7
<1>10. Upto(f, n) = Render(f)
  <2>1. SubSeq(f, 1, Len(f)) = f
    OBVIOUS
  <2> QED BY <2>1 DEF Upto, n
<1>11. \A j \in 0 .. n : Upto(f, j) \in Text
  BY <1>7, <1>9
<1>12. Upto(f, 0) = <<>>
  BY <1>1, <1>7, <1>9
<1>13. ASSUME NEW j \in 1 .. n PROVE Upto(f, j) = Upto(f, j - 1) \o Element(f[j])
  <2>1. j \in 0 .. n /\ j - 1 \in 0 .. n
    BY <1>1
  <2> QED BY <1>8, <1>9, <2>1
<1> QED BY <1>10, <1>11, <1>12, <1>13 DEF n

\* Both ways to say that a text stands in another.
LEMMA OccursIsAt ==
  ASSUME NEW d \in Text, NEW s \in Text, NEW o \in Nat
  PROVE  Occurs(s, d, o + 1) <=> At(d, o, s)
<1>1. Len(s) \in Nat /\ Len(d) \in Nat /\ o + 1 + Len(s) - 1 = o + Len(s)
  BY DEF Text
<1>2. CASE o + Len(s) <= Len(d)
  <2> DEFINE t == SubSeq(d, o + 1, o + Len(s))
  <2>1. t \in Text /\ Len(t) = Len(s) /\ \A i \in 1 .. Len(s) : t[i] = d[o + i]
    BY <1>1, <1>2 DEF Text
  <2> HIDE DEF t
  <2>2. t = s <=> \A i \in 1 .. Len(s) : d[o + i] = s[i]
    <3>1. ASSUME \A i \in 1 .. Len(s) : d[o + i] = s[i] PROVE t = s
      BY <2>1, <3>1, SeqEqual DEF Text
    <3> QED BY <2>1, <3>1
  <2> QED BY <1>1, <1>2, <2>2 DEF Occurs, At, t
<1>3. CASE ~(o + Len(s) <= Len(d))
  BY <1>1, <1>3 DEF Occurs, At
<1> QED BY <1>2, <1>3


\* What the elements of f begin with, d begins with.
LEMMA UptoParts ==
  ASSUME NEW f \in Seq(Entries), NEW d \in Text, NEW j \in 1 .. Len(f),
         At(d, 0, Upto(f, j))
  PROVE  /\ At(d, 0, Upto(f, j - 1))
         /\ At(d, Len(Upto(f, j - 1)), Element(f[j]))
         /\ Len(Upto(f, j)) = Len(Upto(f, j - 1)) + Len(Element(f[j]))
<1> DEFINE u == Upto(f, j)   s == Upto(f, j - 1)   x == Element(f[j])
<1>1. j - 1 \in 0 .. Len(f) /\ f[j] \in Entries
  OBVIOUS
<1>2. s \in Seq(Char) /\ x \in Seq(Char) /\ u = s \o x
  BY <1>1, UptoGrows, ElementIsText DEF Text
<1>3. Len(d) \in Nat
  BY DEF Text
<1> HIDE DEF s, x
<1>4. /\ Len(s \o x) = Len(s) + Len(x)
      /\ \A i \in 1 .. Len(s) : (s \o x)[i] = s[i]
      /\ \A i \in 1 .. Len(x) : (s \o x)[Len(s) + i] = x[i]
  BY <1>2, Joined
<1>5. Len(s) \in Nat /\ Len(x) \in Nat
  BY <1>2
<1>6. At(d, 0, u)
  OBVIOUS
<1> HIDE DEF u
<1>7. /\ Len(u) = Len(s) + Len(x)
      /\ \A i \in 1 .. Len(s) : u[i] = s[i]
      /\ \A i \in 1 .. Len(x) : u[Len(s) + i] = x[i]
  BY <1>2, <1>4
<1>8. Len(u) <= Len(d) /\ \A i \in 1 .. Len(u) : d[i] = u[i]
  BY <1>3, <1>5, <1>6, <1>7 DEF At
<1>9. ASSUME NEW i \in 1 .. Len(s) PROVE d[0 + i] = s[i]
  BY <1>5, <1>7, <1>8
<1>10. ASSUME NEW i \in 1 .. Len(x) PROVE d[Len(s) + i] = x[i]
  <2>1. Len(s) + i \in 1 .. Len(u)
    BY <1>5, <1>7
  <2> QED BY <1>7, <1>8, <2>1
<1>11. 0 + Len(s) <= Len(d) /\ Len(s) + Len(x) <= Len(d)
  BY <1>3, <1>5, <1>7, <1>8
<1>12. At(d, 0, s) /\ At(d, Len(s), x)
  BY <1>9, <1>10, <1>11 DEF At
<1> QED BY <1>7, <1>12 DEF u, s, x

\* The first elements begin the text of the file, and what is read of it if
\* they are not cut.
LEMMA UptoInRender ==
  ASSUME NEW f \in Seq(Entries), NEW j \in 0 .. Len(f)
  PROVE  At(Render(f), 0, Upto(f, j))
<1> DEFINE n == Len(f)   T == {k \in j .. n : At(Upto(f, k), 0, Upto(f, j))}
<1>1. n \in Int /\ j \in Int /\ j <= n
  OBVIOUS
<1>2. j \in T
  <2>1. Upto(f, j) \in Text
    BY UptoGrows
  <2>2. At(Upto(f, j), 0, Upto(f, j))
    BY <2>1 DEF At, Text
  <2> QED BY <1>1, <2>2
<1>3. ASSUME NEW k \in j .. n - 1, k \in T PROVE k + 1 \in T
  <2> DEFINE u == Upto(f, k + 1)   s == Upto(f, k)   t == Upto(f, j)
  <2>1. k + 1 \in 1 .. Len(f) /\ k + 1 - 1 = k /\ k + 1 \in 0 .. Len(f) /\ k \in 0 .. Len(f)
    BY <1>1
  <2>2. u \in Text /\ s \in Text /\ t \in Text
    BY <2>1, UptoGrows
  <2>3. At(u, 0, u)
    BY <2>2 DEF At, Text
  <2>4. At(u, 0, Upto(f, k + 1 - 1))
    BY <2>1, <2>2, <2>3, UptoParts
  <2>5. At(u, 0, s) /\ At(s, 0, t)
    BY <1>3, <2>1, <2>4
  <2>6. Len(u) \in Nat /\ Len(s) \in Nat /\ Len(t) \in Nat
    BY <2>2 DEF Text
  <2> HIDE DEF u, s, t
  <2>7. At(u, 0, t)
    BY <2>5, <2>6 DEF At
  <2>8. k + 1 \in j .. n
    BY <1>1
  <2> QED BY <2>7, <2>8 DEF u, t
<1> HIDE DEF T, n
<1>4. \A k \in j .. n : k \in T
  BY <1>1, <1>2, <1>3, RangeInduction
<1>5. n \in T
  BY <1>1, <1>4
<1>6. Upto(f, n) = Render(f)
  BY UptoGrows DEF n
<1> QED BY <1>5, <1>6 DEF T

\* The text of a file is one.
LEMMA RenderIsText == ASSUME NEW f \in Seq(Entries) PROVE Render(f) \in Text
<1>1. Len(f) \in 0 .. Len(f)
  OBVIOUS
<1> QED BY <1>1, UptoGrows

\* So is what lies behind data.
LEMMA BehindIsText == \A t \in Behind : t \in Text
<1>1. Seq(STRING) \subseteq Text
  BY DEF Text, Char
<1> QED BY <1>1, TextsAssumption

\* What fits the buffer data is in it.
LEMMA UptoInData ==
  ASSUME NEW f \in Seq(Entries), NEW d \in Read(Render(f)),
         NEW j \in 0 .. Len(f), Len(Upto(f, j)) <= DataMax
  PROVE  d \in Text /\ At(d, 0, Upto(f, j))
<1> DEFINE r == Render(f)   u == Upto(f, j)
<1>1. r \in Text /\ u \in Text /\ At(r, 0, u)
  BY RenderIsText, UptoGrows, UptoInRender
<1> HIDE DEF r, u
<1>2. CASE Len(r) < DataMax
  <2>1. d = r
    BY <1>2 DEF Read, r
  <2> QED BY <1>1, <2>1 DEF r, u
<1>3. CASE ~(Len(r) < DataMax)
  <2> DEFINE s == SubSeq(r, 1, DataMax)
  <2>1. PICK t \in Behind : d = s \o t
    BY <1>3 DEF Read, r
  <2>2. DataMax \in Nat /\ Len(r) \in Nat /\ DataMax <= Len(r) /\ Len(u) \in Nat
    BY <1>1, <1>3, LayoutAssumption DEF Text
  <2>3. s \in Seq(Char) /\ Len(s) = DataMax /\ \A i \in 1 .. DataMax : s[i] = r[i]
    BY <1>1, <2>2 DEF Text
  <2> HIDE DEF s
  <2>4. t \in Seq(Char)
    BY BehindIsText DEF Text
  <2>5. d \in Seq(Char) /\ Len(d) = Len(s) + Len(t) /\ \A i \in 1 .. Len(s) : d[i] = s[i]
    BY <2>1, <2>3, <2>4, Joined
  <2>6. Len(t) \in Nat
    BY <2>4
  <2>7. Len(u) <= DataMax
    BY DEF u
  <2>8. \A i \in 1 .. Len(u) : r[0 + i] = u[i]
    BY <1>1 DEF At
  <2>9. ASSUME NEW i \in 1 .. Len(u) PROVE d[0 + i] = u[i]
    BY <2>2, <2>3, <2>5, <2>7, <2>8
  <2>10. 0 + Len(u) <= Len(d)
    BY <2>2, <2>3, <2>5, <2>6, <2>7
  <2>11. At(d, 0, u)
    BY <2>9, <2>10 DEF At
  <2> QED BY <2>5, <2>11 DEF u, Text
<1> QED BY <1>2, <1>3

\* Every field's name is a word of the alphabet.
LEMMA NameIsText == \A i \in Fields : Names[i] \in Text /\ Plain(Names[i])
<1>1. Seq(STRING) \subseteq Text
  BY DEF Text, Char
<1> QED BY <1>1, NamesAssumption DEF Fields

\* No tag stands anywhere in a value that has none.
LEMMA TaglessNowhere ==
  ASSUME NEW v \in Text, Tagless(v), NEW i \in Fields, NEW q \in 0 .. Len(v) - 1
  PROVE  ~At(v, q, OpenTag(Names[i])) /\ ~At(v, q, CloseTag(Names[i]))
<1>1. q \in Nat /\ q + 1 \in DOMAIN v
  BY DEF Text
<1>2. OpenTag(Names[i]) \in Text /\ CloseTag(Names[i]) \in Text
  BY NameIsText, OpenTagChars, CloseTagChars
<1>3. ~Occurs(OpenTag(Names[i]), v, q + 1) /\ ~Occurs(CloseTag(Names[i]), v, q + 1)
  BY <1>1 DEF Tagless
<1> QED BY <1>1, <1>2, <1>3, OccursIsAt

\* Among elements of other names there is no opening tag.
LEMMA NoTagBefore ==
  ASSUME NEW f \in Seq(Entries), NEW d \in Text, NEW n \in 0 .. Len(f),
         At(d, 0, Upto(f, n)), Tame(f), NEW i \in Fields,
         \A k \in 1 .. n : f[k].name # Names[i]
  PROVE  \A p \in 0 .. Len(Upto(f, n)) - 1 : ~At(d, p, OpenTag(Names[i]))
<1> DEFINE t == OpenTag(Names[i])
           Good(j) == /\ At(d, 0, Upto(f, j))
                      /\ \A p \in 0 .. Len(Upto(f, j)) - 1 : ~At(d, p, t)
           T == {j \in 0 .. n : At(d, 0, Upto(f, j)) =>
                                  \A p \in 0 .. Len(Upto(f, j)) - 1 : ~At(d, p, t)}
<1> HIDE DEF t
<1>1. 0 \in T
  <2>1. Upto(f, 0) = <<>>
    BY UptoGrows
  <2>2. \A p \in 0 .. Len(Upto(f, 0)) - 1 : FALSE
    BY <2>1
  <2> QED BY <2>2
<1>2. ASSUME NEW j \in 0 .. n - 1, j \in T PROVE j + 1 \in T
  <2> DEFINE u == Upto(f, j + 1)   s == Upto(f, j)   e == f[j + 1]   x == Element(e)
  <2>1. j + 1 \in 1 .. Len(f) /\ j + 1 - 1 = j /\ j + 1 \in 1 .. n
    OBVIOUS
  <2> SUFFICES ASSUME At(d, 0, u), NEW p \in 0 .. Len(u) - 1, At(d, p, t) PROVE FALSE
    BY <2>1
  <2>2. At(d, 0, s) /\ At(d, Len(s), x) /\ Len(u) = Len(s) + Len(x)
    BY <2>1, UptoParts
  <2>3. e \in Entries /\ e \in Range(f) /\ e.name # Names[i]
    BY <2>1 DEF Range
  <2>4. x \in Text /\ IsElement(x, e.name, e.value)
    BY <2>3, ElementIsText
  <2>5. s \in Text
    BY <2>1, UptoGrows
  <2>6. ~(p \in 0 .. Len(s) - 1)
    BY <1>2, <2>2
  <2>7. Plain(e.name) /\ Tagless(e.value)
    BY <2>3 DEF Tame
  <2>8. e.name \in Text /\ e.value \in Text
    BY <2>3 DEF Entries
  <2> HIDE DEF u, s, e, x
  <2> DEFINE q == p - Len(s)
  <2>9. Len(s) \in Nat /\ q \in 0 .. Len(x) - 1 /\ Len(s) + q = p
    BY <2>2, <2>4, <2>5, <2>6 DEF Text
  <2> HIDE DEF q
  <2>10. At(d, Len(s) + q, OpenTag(Names[i]))
    BY <2>9 DEF t
  <2>11. \E k \in 0 .. Len(e.value) - 1 : At(e.value, k, OpenTag(Names[i]))
    BY <2>2, <2>3, <2>4, <2>7, <2>8, <2>9, <2>10, NameIsText, TagInElement
  <2> QED BY <2>7, <2>8, <2>11, TaglessNowhere
<1>3. n \in Nat
  OBVIOUS
<1> HIDE DEF T
<1>4. n \in T
  <2>1. \A j \in 0 .. n : j \in T
    BY <1>1, <1>2, <1>3, PrefixInduction
  <2> QED BY <1>3, <2>1
<1> QED BY <1>4 DEF T, t

----------------------------------------------------------------------------
(* What extract finds.                                                     *)

\* Strstr has one result.
LEMMA PositionIs ==
  ASSUME NEW s \in Text, NEW t, NEW i \in 0 .. Len(s), Strstr(s, t, i)
  PROVE  Position(s, t) = i
<1>1. Len(s) \in Nat
  BY DEF Text
<1>2. ASSUME NEW j \in 0 .. Len(s), Strstr(s, t, j) PROVE j = i
  <2>1. CASE i = 0 \/ j = 0
    BY <1>1, <1>2, <2>1 DEF Strstr
  <2>2. CASE i # 0 /\ j # 0
    <3>1. ~(i < j) /\ ~(j < i)
      BY <1>1, <1>2, <2>2 DEF Strstr
    <3> QED BY <1>1, <3>1
  <2> QED BY <2>1, <2>2
<1> QED BY <1>2 DEF Position

\* The parts of an element.
LEMMA ElementStands ==
  ASSUME NEW d \in Text, NEW o \in Nat, NEW n \in Text, NEW v \in Text, NEW x,
         IsElement(x, n, v), At(d, o, x)
  PROVE  /\ At(d, o, OpenTag(n))
         /\ At(d, o + Len(n) + 2, v)
         /\ At(d, o + Len(n) + 2 + Len(v), CloseTag(n))
<1> DEFINE t == OpenTag(n)   c == CloseTag(n)
<1>1. Len(n) \in Nat /\ Len(v) \in Nat /\ Len(d) \in Nat
  BY DEF Text
<1>2. /\ Len(x) = 2 * Len(n) + Len(v) + 5
      /\ x[1] = "<" /\ x[Len(n) + 2] = ">"
      /\ \A i \in 1 .. Len(n) : x[i + 1] = n[i]
      /\ \A i \in 1 .. Len(v) : x[Len(n) + 2 + i] = v[i]
      /\ \A i \in 1 .. Len(n) + 3 : x[Len(n) + Len(v) + 2 + i] = c[i]
  BY DEF IsElement
<1>3. /\ Len(t) = Len(n) + 2 /\ t[1] = "<" /\ t[Len(n) + 2] = ">"
      /\ \A i \in 1 .. Len(n) : t[i + 1] = n[i]
  BY OpenTagChars
<1>4. Len(c) = Len(n) + 3
  BY CloseTagChars
<1>5. o + Len(x) <= Len(d) /\ \A i \in 1 .. Len(x) : d[o + i] = x[i]
  BY DEF At
<1>6. /\ o + Len(t) <= Len(d) /\ o + Len(n) + 2 + Len(v) <= Len(d)
      /\ o + Len(n) + 2 + Len(v) + Len(c) <= Len(d)
  <2>1. Len(x) = 2 * Len(n) + Len(v) + 5 /\ o + Len(x) <= Len(d)
    BY <1>2, <1>5
  <2> QED BY <1>1, <1>3, <1>4, <2>1
<1> HIDE DEF t, c
<1>7. ASSUME NEW i \in 1 .. Len(t) PROVE d[o + i] = t[i]
  <2>1. i \in 1 .. Len(x)
    BY <1>1, <1>2, <1>3
  <2>2. x[i] = t[i]
    <3>1. CASE i = 1 \/ i = Len(n) + 2
      BY <1>2, <1>3, <3>1
    <3>2. CASE i # 1 /\ i # Len(n) + 2
      <4> DEFINE k == i - 1
      <4>1. k \in 1 .. Len(n) /\ k + 1 = i
        BY <1>1, <1>3, <3>2
      <4> HIDE DEF k
      <4>2. x[k + 1] = n[k] /\ t[k + 1] = n[k]
        BY <1>2, <1>3, <4>1
      <4> QED BY <4>1, <4>2
    <3> QED BY <3>1, <3>2
  <2> QED BY <1>5, <2>1, <2>2
<1>8. ASSUME NEW i \in 1 .. Len(v) PROVE d[o + Len(n) + 2 + i] = v[i]
  <2>1. Len(n) + 2 + i \in 1 .. Len(x) /\ o + (Len(n) + 2 + i) = o + Len(n) + 2 + i
    BY <1>1, <1>2
  <2>2. d[o + (Len(n) + 2 + i)] = x[Len(n) + 2 + i]
    BY <1>5, <2>1
  <2> QED BY <1>2, <2>1, <2>2
<1>9. ASSUME NEW i \in 1 .. Len(c) PROVE d[o + Len(n) + 2 + Len(v) + i] = c[i]
  <2> DEFINE k == Len(n) + Len(v) + 2 + i
  <2>1. k \in 1 .. Len(x) /\ o + k = o + Len(n) + 2 + Len(v) + i
    BY <1>1, <1>2, <1>4
  <2>2. x[k] = c[i]
    BY <1>2, <1>4
  <2> HIDE DEF k
  <2>3. d[o + k] = x[k]
    BY <1>5, <2>1
  <2> QED BY <2>1, <2>2, <2>3
<1>10. At(d, o, t) /\ At(d, o + Len(n) + 2, v) /\ At(d, o + Len(n) + 2 + Len(v), c)
  BY <1>6, <1>7, <1>8, <1>9 DEF At
<1> QED BY <1>10 DEF t, c

\* The rest of a text.
LEMMA StandsInRest ==
  ASSUME NEW d \in Text, NEW o \in 0 .. Len(d), NEW p \in Nat, NEW s \in Text
  PROVE  /\ SubSeq(d, o + 1, Len(d)) \in Text
         /\ Len(SubSeq(d, o + 1, Len(d))) = Len(d) - o
         /\ At(SubSeq(d, o + 1, Len(d)), p, s) <=> At(d, o + p, s)
<1> DEFINE r == SubSeq(d, o + 1, Len(d))
<1>1. Len(d) \in Nat /\ Len(s) \in Nat /\ o \in Nat
  BY DEF Text
<1>2. r \in Text /\ Len(r) = Len(d) - o /\ \A i \in 1 .. Len(d) - o : r[i] = d[o + i]
  BY <1>1 DEF Text
<1> HIDE DEF r
<1>3. p + Len(s) <= Len(r) <=> o + p + Len(s) <= Len(d)
  BY <1>1, <1>2
<1>4. ASSUME p + Len(s) <= Len(r), NEW i \in 1 .. Len(s) PROVE r[p + i] = d[o + p + i]
  <2>1. p + i \in 1 .. Len(d) - o /\ o + (p + i) = o + p + i
    BY <1>1, <1>2, <1>4
  <2>2. r[p + i] = d[o + (p + i)]
    BY <1>2, <2>1
  <2> QED BY <2>1, <2>2
<1>5. At(r, p, s) <=> At(d, o + p, s)
  BY <1>3, <1>4 DEF At
<1> QED BY <1>2, <1>5 DEF r

\* The first closing tag behind a value.
LEMMA CloseTagFound ==
  ASSUME NEW r \in Text, NEW v \in Text, NEW i \in Fields, Tagless(v),
         At(r, 0, v), At(r, Len(v), CloseTag(Names[i]))
  PROVE  Position(r, CloseTag(Names[i])) = Len(v) + 1
<1> DEFINE c == CloseTag(Names[i])
<1>0. Names[i] \in Text
  BY NameIsText
<1>1. c \in Text /\ Len(c) = Len(Names[i]) + 3 /\ Len(Names[i]) \in Nat
  <2>1. Len(Names[i]) \in Nat
    BY <1>0 DEF Text
  <2> QED BY <1>0, <2>1, CloseTagChars
<1>2. Len(r) \in Nat /\ Len(v) \in Nat /\ At(r, Len(v), c)
  BY DEF Text
<1>3. \A q \in 0 .. Len(v) - 1 : ~At(r, q, c)
  BY NameIsText, CloseTagInValue, TaglessNowhere
<1> HIDE DEF c
<1>4. Len(v) + 1 \in 0 .. Len(r)
  BY <1>1, <1>2 DEF At
<1>5. Occurs(c, r, Len(v) + 1)
  BY <1>1, <1>2, OccursIsAt
<1>6. ASSUME NEW j \in 1 .. Len(v) PROVE ~Occurs(c, r, j)
  <2> DEFINE q == j - 1
  <2>1. q \in 0 .. Len(v) - 1 /\ q \in Nat /\ q + 1 = j
    BY <1>2
  <2> HIDE DEF q
  <2>2. ~Occurs(c, r, q + 1)
    BY <1>1, <1>3, <2>1, OccursIsAt
  <2> QED BY <2>1, <2>2
<1>7. Strstr(r, c, Len(v) + 1)
  BY <1>2, <1>5, <1>6 DEF Strstr
<1>8. Position(r, c) = Len(v) + 1
  BY <1>4, <1>7, PositionIs
<1> QED BY <1>8 DEF c

\* extract finds the value of the first element of a name, whatever else is in
\* the file and behind it (dealConf.c:51, 59-117).
THEOREM FoundIsFirst ==
  ASSUME NEW f \in Seq(Entries), Tame(f), NEW d \in Read(Render(f)),
         NEW i \in Fields, NEW j \in 1 .. Len(f), f[j].name = Names[i],
         \A k \in 1 .. j - 1 : f[k].name # Names[i],
         Len(Upto(f, j)) <= DataMax
  PROVE  Found(d, Names[i]) = f[j].value
<1> DEFINE n == Names[i]   v == f[j].value   x == Element(f[j])
           o == Len(Upto(f, j - 1))   t == OpenTag(n)
<1>1. j \in 0 .. Len(f) /\ j - 1 \in 0 .. Len(f) /\ f[j] \in Entries /\ f[j] \in Range(f)
  BY DEF Range
<1>2. d \in Text /\ At(d, 0, Upto(f, j))
  BY <1>1, UptoInData
<1>3. At(d, 0, Upto(f, j - 1)) /\ At(d, o, x)
  BY <1>2, UptoParts
<1>4. o \in Nat
  BY <1>1, UptoGrows DEF Text
<1>5. n \in Text /\ v \in Text /\ IsElement(x, n, v) /\ Tagless(v)
  BY <1>1, ElementIsText DEF Entries, Tame
<1>6. \A p \in 0 .. o - 1 : ~At(d, p, t)
  BY <1>1, <1>2, <1>3, NoTagBefore
<1>7. t \in Text /\ Len(t) = Len(n) + 2 /\ Len(n) \in Nat
  BY <1>5, OpenTagChars, SMTT(30) DEF Text
<1> HIDE DEF o, x, v
<1>8. At(d, o, t) /\ At(d, o + Len(n) + 2, v) /\ At(d, o + Len(n) + 2 + Len(v), CloseTag(n))
  BY <1>2, <1>3, <1>4, <1>5, ElementStands
<1>9. Position(d, t) = o + 1
  <2>1. Len(d) \in Nat
    BY <1>2 DEF Text
  <2>2. o + Len(t) <= Len(d)
    BY <1>8 DEF At
  <2>3. o + 1 \in 0 .. Len(d)
    BY <1>4, <1>7, <2>1, <2>2
  <2> HIDE DEF t
  <2>4. Occurs(t, d, o + 1)
    BY <1>2, <1>4, <1>7, <1>8, OccursIsAt
  <2>5. ASSUME NEW k \in 1 .. o PROVE ~Occurs(t, d, k)
    <3> DEFINE q == k - 1
    <3>1. q \in 0 .. o - 1 /\ q \in Nat /\ q + 1 = k
      BY <1>4
    <3> HIDE DEF q
    <3>2. ~Occurs(t, d, q + 1)
      BY <1>2, <1>6, <1>7, <3>1, OccursIsAt
    <3> QED BY <3>1, <3>2
  <2>6. Strstr(d, t, o + 1)
    BY <1>4, <2>4, <2>5 DEF Strstr
  <2> QED BY <1>2, <2>3, <2>6, PositionIs
<1> DEFINE a == o + Len(n) + 2   r == SubSeq(d, a + 1, Len(d))   c == CloseTag(n)
<1>10. Len(d) \in Nat /\ Len(v) \in Nat /\ c \in Text
  <2>1. Len(d) \in Nat /\ Len(v) \in Nat
    BY <1>2, <1>5 DEF Text
  <2> QED BY <1>5, <2>1, CloseTagChars
<1>11. a \in 0 .. Len(d) /\ 0 \in Nat /\ a + 0 = a
  BY <1>4, <1>7, <1>8, <1>10 DEF At
<1>12. At(d, a + 0, v) /\ At(d, a + Len(v), c)
  BY <1>8, <1>11
<1>15. a + 1 = Position(d, t) + Len(t) /\ Position(d, t) # 0
  <2>1. Len(t) = Len(n) + 2 /\ Len(n) \in Nat
    BY <1>7
  <2>2. PICK k \in Nat : k = Len(n)
    BY <2>1
  <2> HIDE DEF t, n
  <2>3. a + 1 = o + 1 + Len(t)
    BY <1>4, <2>1, <2>2
  <2> QED BY <1>4, <1>9, <2>3
<1>16. Found(d, n) = SubSeq(r, 1, Position(r, c) - 1)
  <2>1. r = SubSeq(d, Position(d, t) + Len(t), Len(d))
    BY <1>15, Zenon
  <2> HIDE DEF r, a
  <2> QED BY <1>15, <2>1 DEF Found
<1> HIDE DEF a, c
<1>13. r \in Text /\ At(r, 0, v) /\ At(r, Len(v), c)
  BY <1>2, <1>5, <1>10, <1>11, <1>12, StandsInRest
<1> HIDE DEF r
<1>14. Position(r, c) = Len(v) + 1
  BY <1>5, <1>13, CloseTagFound DEF c
<1>17. SubSeq(r, 1, Len(v)) = v
  <2>1. Len(r) \in Nat /\ Len(v) <= Len(r) /\ \A k \in 1 .. Len(v) : r[0 + k] = v[k]
    BY <1>10, <1>13 DEF At, Text
  <2>2. /\ SubSeq(r, 1, Len(v)) \in Text /\ Len(SubSeq(r, 1, Len(v))) = Len(v)
        /\ \A k \in 1 .. Len(v) : SubSeq(r, 1, Len(v))[k] = v[k]
    BY <1>10, <1>13, <2>1 DEF Text
  <2> QED BY <1>5, <2>2, SeqEqual DEF Text
<1>18. Len(v) + 1 - 1 = Len(v)
  BY <1>10
<1> QED BY <1>14, <1>16, <1>17, <1>18 DEF v

\* It finds nothing when there is no element of the name.
LEMMA FoundNothing ==
  ASSUME NEW f \in Seq(Entries), Tame(f), NEW d \in Read(Render(f)),
         NEW i \in Fields, Len(Render(f)) < DataMax,
         \A k \in 1 .. Len(f) : f[k].name # Names[i]
  PROVE  Found(d, Names[i]) = <<>>
<1> DEFINE n == Len(f)   t == OpenTag(Names[i])
<1>1. d = Render(f) /\ n \in 0 .. Len(f)
  BY DEF Read
<1>2. d \in Text /\ d = Upto(f, n)
  BY <1>1, RenderIsText, UptoGrows
<1>3. At(d, 0, Upto(f, n))
  BY <1>1, <1>2, UptoInRender
<1>4. \A p \in 0 .. Len(d) - 1 : ~At(d, p, t)
  BY <1>1, <1>2, <1>3, NoTagBefore
<1>5. t \in Text /\ Len(d) \in Nat
  BY <1>2, NameIsText, OpenTagChars DEF Text
<1>6. ASSUME NEW k \in 1 .. Len(d) PROVE ~Occurs(t, d, k)
  <2> DEFINE q == k - 1
  <2>1. q \in 0 .. Len(d) - 1 /\ q \in Nat /\ q + 1 = k
    BY <1>5
  <2> HIDE DEF q, t
  <2>2. ~Occurs(t, d, q + 1)
    BY <1>2, <1>4, <1>5, <2>1, OccursIsAt
  <2> QED BY <2>1, <2>2
<1>7. Strstr(d, t, 0) /\ 0 \in 0 .. Len(d)
  BY <1>5, <1>6 DEF Strstr
<1>8. Position(d, t) = 0
  BY <1>2, <1>7, PositionIs
<1> QED BY <1>8 DEF Found

----------------------------------------------------------------------------
(* Type correctness.                                                       *)

Cells == 1 .. Len(Names) * Stride

\* The last character of a result buffer.
LastOf(i) == base[i] + CONTENTMAXLEN - 1

\* Where the program is.
PlaceInv ==
  /\ pc \in {"readConf", "parseConf", "initNetFilter",
             "loaded", "unloaded", "fault"}
  /\ file \in Files
  /\ field \in 1 .. Len(Names) + 1
  /\ pc \in {"readConf", "parseConf"} => field \in Fields
  /\ pc = "readConf" => field = 1
  /\ pc = "initNetFilter" => field = Len(Names) + 1
  /\ registered \in BOOLEAN

\* The buffers, each as long as the distance of two, are disjoint parts of mem.
LayoutInv ==
  /\ \A i \in Fields : base[i] \in Nat \ {0} /\ base[i] + Stride - 1 \in Cells
  /\ \A i, j \in Fields :
       i # j => base[i] >= base[j] + Stride \/ base[j] >= base[i] + Stride

\* No text is ever copied to the last character of a buffer.
TerminatorInv ==
  /\ mem \in [Cells -> Range(mem)]
  /\ \A i \in Fields : mem[LastOf(i)] = Nul

TypeInv == PlaceInv /\ data \in Text /\ LayoutInv /\ TerminatorInv

\* Number n of the cells of size s.
LEMMA CellOfSize ==
  ASSUME NEW s \in Nat, NEW l \in Nat, NEW n \in 1 .. l
  PROVE  (n - 1) * s \in Nat /\ (n - 1) * s + s <= l * s
<1>1. (n - 1) * s + s = n * s
  OBVIOUS
<1>2. n * s <= l * s
  OBVIOUS
<1> QED BY <1>1, <1>2

\* There is a name, and parseConf counts them.
LEMMA FieldsAre == Len(Names) \in Nat \ {0} /\ Fields = 1 .. Len(Names)
BY NamesAssumption, EmptySeq DEF Fields

\* init begins with the first name.
LEMMA InitPlace == Init => PlaceInv /\ data \in Text
<1>1. 1 \in Fields /\ 1 \in 1 .. Len(Names) + 1
  BY FieldsAre
<1>2. <<>> \in Text
  BY EmptySeq DEF Text
<1> QED BY <1>1, <1>2 DEF Init, PlaceInv

LEMMA InitLayout == Init => LayoutInv
<1> SUFFICES ASSUME Init PROVE LayoutInv
  OBVIOUS
<1> USE LayoutAssumption
<1>1. PICK p \in [Fields -> Fields] :
        IsInjective(p) /\ base = [i \in Fields |-> (p[i] - 1) * Stride + 1]
  BY DEF Init
<1>2. Len(Names) \in Nat /\ Fields = 1 .. Len(Names)
  BY FieldsAre
<1>3. \A i \in Fields :
        (p[i] - 1) * Stride \in Nat
        /\ (p[i] - 1) * Stride + Stride <= Len(Names) * Stride
  BY <1>2, CellOfSize
<1>4. Len(Names) * Stride \in Nat
  BY <1>2
<1>5. ASSUME NEW i \in Fields
      PROVE  base[i] \in Nat \ {0} /\ base[i] + Stride - 1 \in Cells
  BY <1>1, <1>3, <1>4, SMTT(30) DEF Cells
<1>6. ASSUME NEW i \in Fields, NEW j \in Fields, p[i] < p[j]
      PROVE  base[j] >= base[i] + Stride
  <2>1. p[i] \in 1 .. p[j] - 1 /\ p[j] - 1 \in Nat
    BY <1>2, <1>6
  <2>2. (p[i] - 1) * Stride + Stride <= (p[j] - 1) * Stride
    BY <2>1, CellOfSize
  <2> QED BY <1>1, <1>3, <2>2
<1>7. ASSUME NEW i \in Fields, NEW j \in Fields, i # j
      PROVE  p[i] < p[j] \/ p[j] < p[i]
  <2>1. p[i] # p[j]
    BY <1>1, <1>7 DEF IsInjective
  <2> QED BY <1>2, <2>1
<1> QED BY <1>5, <1>6, <1>7 DEF LayoutInv

\* The last character of a buffer is in it.
LEMMA LastInBuffer ==
  ASSUME LayoutInv, NEW i \in Fields
  PROVE  LastOf(i) \in base[i] .. base[i] + Stride - 1 /\ LastOf(i) \in Cells
<1>1. base[i] \in Nat \ {0} /\ base[i] + Stride - 1 \in Cells
  BY DEF LayoutInv
<1>2. Len(Names) * Stride \in Nat
  BY FieldsAre, LayoutAssumption
<1> QED BY <1>1, <1>2, LayoutAssumption DEF LastOf, Cells

LEMMA InitTerminators == Init => TerminatorInv
<1> SUFFICES ASSUME Init PROVE TerminatorInv
  OBVIOUS
<1>1. mem = [a \in Cells |-> Nul]
  BY DEF Init, Cells
<1>2. mem \in [Cells -> Range(mem)]
  BY <1>1 DEF Range
<1>3. \A i \in Fields : LastOf(i) \in Cells
  BY InitLayout, LastInBuffer
<1> QED BY <1>1, <1>2, <1>3 DEF TerminatorInv

\* So much is copied.
LEMMA CopiedLength ==
  ASSUME NEW n \in Nat
  PROVE  Copied(n) \in 0 .. n /\ Copied(n) < CONTENTMAXLEN /\ (n = 0 => Copied(n) = 0)
BY LayoutAssumption DEF Copied

\* Copying a text into one buffer, with a terminator anywhere, leaves the last
\* character of each as it was.
LEMMA StoredKeepsTerminators ==
  ASSUME LayoutInv, TerminatorInv, NEW f \in Fields, NEW text \in Text,
         mem' = Stored(base[f], text), base' = base
  PROVE  TerminatorInv'
<1> DEFINE k == Copied(Len(text))
<1>1. mem' \in [Cells -> Range(mem')] /\ DOMAIN mem = Cells
  BY DEF Stored, TerminatorInv, Range
<1>2. k \in Nat /\ k < CONTENTMAXLEN
  BY CopiedLength DEF Text
<1> HIDE DEF k
<1>3. ASSUME NEW i \in Fields PROVE mem'[LastOf(i)] = Nul
  <2>1. LastOf(i) \in Cells /\ mem[LastOf(i)] = Nul
    BY LastInBuffer DEF TerminatorInv
  <2>2. LastOf(i) \notin base[f] .. base[f] + k - 1
    <3>1. base[f] \in Nat /\ base[i] \in Nat
      BY DEF LayoutInv
    <3>2. CASE i = f
      BY <1>2, <3>1, <3>2, LayoutAssumption DEF LastOf
    <3>3. CASE i # f
      BY <1>2, <3>1, <3>3, LayoutAssumption DEF LayoutInv, LastOf
    <3> QED BY <3>2, <3>3
  <2> QED BY <1>1, <2>1, <2>2 DEF Stored, k
<1> QED BY <1>1, <1>3 DEF TerminatorInv, LastOf, Cells

\* strstr always has a result.
LEMMA PositionCorrect ==
  ASSUME NEW s \in Text, NEW t
  PROVE  Position(s, t) \in 0 .. Len(s) /\ Strstr(s, t, Position(s, t))
<1> DEFINE P == {j \in 1 .. Len(s) : Occurs(t, s, j)}
<1>1. Len(s) \in Nat
  BY DEF Text
<1>2. \E i \in 0 .. Len(s) : Strstr(s, t, i)
  <2>1. CASE P = {}
    <3>1. Strstr(s, t, 0)
      BY <2>1 DEF Strstr
    <3> QED BY <1>1, <3>1
  <2>2. CASE P # {}
    <3>1. P \in SUBSET Nat
      BY <1>1
    <3>2. PICK m \in P : \A j \in P : m <= j
      BY <2>2, <3>1, LeastElement
    <3>3. \A j \in 1 .. m - 1 : ~Occurs(t, s, j)
      BY <1>1, <3>2
    <3>4. Strstr(s, t, m)
      BY <1>1, <3>2, <3>3 DEF Strstr
    <3> QED BY <1>1, <3>4
  <2> QED BY <2>1, <2>2
<1> QED BY <1>2 DEF Position

\* extract finds a text, whatever it reads.
LEMMA FoundIsText ==
  ASSUME NEW d \in Text, NEW i \in Fields
  PROVE  Found(d, Names[i]) \in Text
<1> DEFINE t == OpenTag(Names[i])   c == CloseTag(Names[i])
           o == Position(d, t)   r == SubSeq(d, o + Len(t), Len(d))
<1>1. CASE o = 0
  BY <1>1, EmptySeq DEF Found, Text
<1>2. CASE o # 0
  <2>1. o \in 1 .. Len(d) /\ Occurs(t, d, o)
    <3>1. o \in 0 .. Len(d) /\ Strstr(d, t, o)
      BY PositionCorrect
    <3> HIDE DEF o
    <3> QED BY <1>2, <3>1 DEF Strstr
  <2>2. Len(t) \in Nat /\ Len(d) \in Nat
    BY NameIsText, OpenTagChars DEF Text
  <2> HIDE DEF o, t
  <2>3. o + Len(t) <= Len(d) + 1
    BY <2>1, <2>2 DEF Occurs
  <2>4. r \in Text
    BY <2>1, <2>2, <2>3 DEF Text
  <2> HIDE DEF r
  <2>5. Position(r, c) \in 0 .. Len(r) /\ Len(r) \in Nat
    BY <2>4, PositionCorrect DEF Text
  <2> DEFINE k == Position(r, c)
  <2>6. SubSeq(r, 1, k - 1) \in Text
    <3> HIDE DEF k
    <3>1. k \in 0 .. Len(r)
      BY <2>5 DEF k
    <3> QED BY <2>4, <2>5, <3>1 DEF Text
  <2>7. Found(d, Names[i]) = SubSeq(r, 1, k - 1)
    BY <1>2 DEF Found, r, o, t
  <2> QED BY <2>6, <2>7
<1> QED BY <1>1, <1>2

\* What extract stores.
LEMMA ExtractStores ==
  ASSUME NEW f \in Fields
  PROVE  Extract(base[f], Names[f]) = Stored(base[f], Found(data, Names[f]))
<1>1. Len(Names[f]) + 3 <= CONTENTMAXLEN
  BY NamesAssumption
<1>2. Len(Names[f]) \in Nat
  BY NamesAssumption DEF Fields
<1> QED BY <1>1, <1>2, LayoutAssumption DEF Extract

\* Every configuration file is one of those the lemmas are about.
LEMMA FilesAreEntries == \A f \in Files : f \in Seq(Entries)
<1>1. Seq(STRING) \subseteq Text
  BY DEF Text, Char
<1>2. [name : Seq(STRING), value : Seq(STRING)] \subseteq Entries
  BY <1>1 DEF Entries
<1>3. ASSUME NEW f \in Files PROVE f \in Seq(Entries)
  BY <1>2, SeqMonotonic, TextsAssumption
<1> QED BY <1>3

\* vfs_read gives a text.
LEMMA ReadIsText ==
  ASSUME NEW f \in Files, NEW d \in Read(Render(f))
  PROVE  d \in Text
<1>1. f \in Seq(Entries) /\ 0 \in 0 .. Len(f)
  BY FilesAreEntries
<1>2. Len(Upto(f, 0)) <= DataMax
  BY <1>1, UptoGrows, LayoutAssumption
<1> QED BY <1>1, <1>2, UptoInData

\* It is an invariant.
LEMMA TypeInvariant == Spec => []TypeInv
<1>1. Init => TypeInv
  BY InitPlace, InitLayout, InitTerminators DEF TypeInv
<1>2. TypeInv /\ [Next]_vars => TypeInv'
  <2> SUFFICES ASSUME TypeInv, [Next]_vars PROVE TypeInv'
    OBVIOUS
  <2>1. CASE ReadConf
    <3>1. data' \in Text
      <4>1. data' \in Read(Render(file)) \/ data' = data
        BY <2>1 DEF ReadConf
      <4>2. file \in Files /\ data \in Text
        BY DEF TypeInv, PlaceInv
      <4> QED BY <4>1, <4>2, ReadIsText
    <3>2. PlaceInv'
      BY <2>1 DEF ReadConf, TypeInv, PlaceInv
    <3>3. LayoutInv' /\ TerminatorInv'
      BY <2>1 DEF ReadConf, TypeInv, LayoutInv, TerminatorInv, LastOf
    <3> QED BY <3>1, <3>2, <3>3 DEF TypeInv
  <2>2. CASE ParseConf
    <3>1. field \in Fields
      BY <2>2 DEF ParseConf, TypeInv, PlaceInv
    <3>2. TerminatorInv'
      <4>1. mem' = Stored(base[field], Found(data, Names[field])) /\ base' = base
        BY <2>2, <3>1, ExtractStores DEF ParseConf
      <4>2. Found(data, Names[field]) \in Text
        BY <3>1, FoundIsText DEF TypeInv
      <4> QED BY <3>1, <4>1, <4>2, StoredKeepsTerminators DEF TypeInv
    <3>3. PlaceInv'
      BY <2>2, <3>1, FieldsAre DEF ParseConf, TypeInv, PlaceInv
    <3>4. LayoutInv' /\ data' \in Text
      BY <2>2 DEF ParseConf, TypeInv, LayoutInv
    <3> QED BY <3>2, <3>3, <3>4 DEF TypeInv
  <2>3. CASE InitNetFilter
    BY <2>3 DEF InitNetFilter, OneWay, TypeInv, PlaceInv, LayoutInv, TerminatorInv, LastOf
  <2>4. CASE ReleaseNetFilter
    BY <2>4 DEF ReleaseNetFilter, TypeInv, PlaceInv, LayoutInv, TerminatorInv, LastOf
  <2>5. CASE UNCHANGED vars
    BY <2>5 DEF vars, TypeInv, PlaceInv, LayoutInv, TerminatorInv, LastOf
  <2> QED BY <2>1, <2>2, <2>3, <2>4, <2>5 DEF Next
<1> QED BY <1>1, <1>2, PTL DEF Spec

\* Every buffer holds a terminated string, however long the values are
\* (dealConf.c:125-148).
THEOREM TypeOKCorrect == Spec => []TypeOK
<1>1. TypeInv => TypeOK
  <2> SUFFICES ASSUME TypeInv PROVE TypeOK
    OBVIOUS
  <2>1. ASSUME NEW i \in Fields
        PROVE  \E a \in base[i] .. base[i] + CONTENTMAXLEN - 1 : mem[a] = Nul
    <3>1. LastOf(i) \in base[i] .. base[i] + CONTENTMAXLEN - 1
      BY LayoutAssumption DEF TypeInv, LayoutInv, LastOf
    <3> QED BY <3>1 DEF TypeInv, TerminatorInv
  <2> QED BY <2>1 DEF TypeInv, PlaceInv, TypeOK
<1> QED BY <1>1, TypeInvariant, PTL

----------------------------------------------------------------------------
(* What parseConf leaves behind.                                           *)

\* The buffer at a of memory m holds text, as much of it as fits.
Holds(m, a, text) ==
  /\ m[a + Copied(Len(text))] = Nul
  /\ \A k \in 1 .. Copied(Len(text)) : m[a + k - 1] = text[k]

\* The buffers parseConf has filled hold what extract found.
FilledInv ==
  pc \in {"parseConf", "initNetFilter"} /\ Tame(file) =>
    /\ data \in Read(Render(file))
    /\ \A i \in Fields : i < field => Holds(mem, base[i], Found(data, Names[i]))

\* What extract stores, its buffer holds.
LEMMA StoredHolds ==
  ASSUME LayoutInv, TerminatorInv, NEW f \in Fields, NEW text \in Text, Len(text) < Stride
  PROVE  Holds(Stored(base[f], text), base[f], text)
<1> DEFINE a == base[f]   n == Len(text)   k == Copied(n)   m == Stored(a, text)
<1>1. n \in Nat /\ n < Stride /\ a \in Nat \ {0} /\ a + Stride - 1 \in Cells
  BY DEF Text, LayoutInv
<1>2. k \in 0 .. n /\ k < CONTENTMAXLEN
  BY <1>1, CopiedLength
<1>3. Len(Names) * Stride \in Nat
  BY FieldsAre, LayoutAssumption
<1>4. \A b \in a .. a + Stride - 1 : b \in DOMAIN mem
  BY <1>1, <1>3 DEF Cells, TerminatorInv
<1>5. \A b \in a .. a + Stride - 1 :
        m[b] = IF b \in a .. a + k - 1 THEN text[b - a + 1]
               ELSE IF b = a + n THEN Nul ELSE mem[b]
  BY <1>4 DEF Stored
<1>9. mem[a + CONTENTMAXLEN - 1] = Nul
  BY DEF TerminatorInv, LastOf
<1>10. k = n \/ k = CONTENTMAXLEN - 1
  BY DEF Copied
<1> HIDE DEF a, n, k, m
<1>6. m[a + k] = Nul
  <2>1. a + k \in a .. a + Stride - 1 /\ a + k \notin a .. a + k - 1
    BY <1>1, <1>2, LayoutAssumption
  <2>2. m[a + k] = IF a + k = a + n THEN Nul ELSE mem[a + k]
    BY <1>5, <2>1
  <2>3. a + CONTENTMAXLEN - 1 = a + (CONTENTMAXLEN - 1)
    BY <1>1, LayoutAssumption
  <2> QED BY <1>9, <1>10, <2>2, <2>3
<1>7. ASSUME NEW j \in 1 .. k PROVE m[a + j - 1] = text[j]
  <2> DEFINE b == a + j - 1
  <2>1. b \in a .. a + Stride - 1 /\ b \in a .. a + k - 1 /\ b - a + 1 = j
    BY <1>1, <1>2, LayoutAssumption
  <2> HIDE DEF b
  <2>2. m[b] = text[b - a + 1]
    BY <1>5, <2>1
  <2> QED BY <2>1, <2>2 DEF b
<1>8. Holds(m, a, text)
  BY <1>6, <1>7 DEF Holds, k, n
<1> QED BY <1>8 DEF m, a

\* What extract stores in one buffer leaves the string in another one, when both
\* texts end before the next buffer begins.
LEMMA StoredKeepsOthers ==
  ASSUME LayoutInv, TerminatorInv, NEW f \in Fields, NEW text \in Text, Len(text) < Stride,
         NEW i \in Fields, i # f, NEW t \in Text, Len(t) < Stride,
         Holds(mem, base[i], t)
  PROVE  Holds(Stored(base[f], text), base[i], t)
<1> DEFINE a == base[f]   c == base[i]   m == Stored(a, text)
           k == Copied(Len(text))   l == Copied(Len(t))
<1>1. /\ a \in Nat \ {0} /\ c \in Nat \ {0} /\ c + Stride - 1 \in Cells
      /\ a >= c + Stride \/ c >= a + Stride
  BY DEF LayoutInv
<1>2. Len(text) \in Nat /\ k \in 0 .. Len(text) /\ l \in 0 .. Len(t) /\ Len(t) \in Nat
  BY CopiedLength DEF Text
<1>3. Len(Names) * Stride \in Nat
  BY FieldsAre, LayoutAssumption
<1>4. DOMAIN mem = Cells
  BY DEF TerminatorInv
<1>5. ASSUME NEW b \in c .. c + Stride - 1 PROVE m[b] = mem[b]
  <2>1. b \in Cells
    BY <1>1, <1>3, <1>5, LayoutAssumption DEF Cells
  <2>2. b \notin a .. a + k - 1 /\ b # a + Len(text)
    BY <1>1, <1>2, <1>5, LayoutAssumption, SMTT(30)
  <2> QED BY <1>4, <2>1, <2>2 DEF Stored
<1>6. mem[c + l] = Nul /\ \A j \in 1 .. l : mem[c + j - 1] = t[j]
  BY DEF Holds
<1> HIDE DEF a, c, m, k, l
<1>7. c + l \in c .. c + Stride - 1 /\ \A j \in 1 .. l : c + j - 1 \in c .. c + Stride - 1
  BY <1>1, <1>2, LayoutAssumption
<1>8. Holds(m, c, t)
  BY <1>5, <1>6, <1>7 DEF Holds, l
<1> QED BY <1>8 DEF m, a, c

\* What extract finds is shorter than the distance of two buffers.
LEMMA FoundIsShort ==
  ASSUME NEW f \in Files, Tame(f), NEW d \in Read(Render(f)), NEW i \in Fields
  PROVE  Len(Found(d, Names[i])) < Stride
<1>1. f \in Seq(Entries)
  BY FilesAreEntries
<1>2. CASE Len(Render(f)) >= DataMax
  BY <1>2 DEF Tame
<1>3. CASE ~(Len(Render(f)) >= DataMax)
  <2> DEFINE P == {k \in 1 .. Len(f) : f[k].name = Names[i]}
  <2>1. Len(Render(f)) < DataMax /\ Len(Render(f)) \in Nat /\ Len(f) \in Nat
    BY <1>1, <1>3, RenderIsText, LayoutAssumption DEF Text
  <2>2. CASE P = {}
    <3>1. \A k \in 1 .. Len(f) : f[k].name # Names[i]
      BY <2>2
    <3>2. Found(d, Names[i]) = <<>>
      BY <1>1, <2>1, <3>1, FoundNothing
    <3> QED BY <3>2, LayoutAssumption
  <2>3. CASE P # {}
    <3>1. P \in SUBSET Nat
      BY <2>1
    <3>2. PICK j \in P : \A k \in P : j <= k
      BY <2>3, <3>1, LeastElement
    <3>3. j \in 1 .. Len(f) /\ f[j].name = Names[i]
      BY <3>2
    <3>4. \A k \in 1 .. j - 1 : f[k].name # Names[i]
      BY <2>1, <3>2
    <3>5. Len(Upto(f, j)) <= DataMax
      <4>1. j \in 0 .. Len(f)
        BY <2>1, <3>3
      <4>2. Upto(f, j) \in Text /\ 0 + Len(Upto(f, j)) <= Len(Render(f))
        BY <1>1, <4>1, UptoGrows, UptoInRender DEF At
      <4>3. Len(Upto(f, j)) \in Nat
        BY <4>2 DEF Text
      <4> QED BY <2>1, <4>2, <4>3, LayoutAssumption
    <3>6. Found(d, Names[i]) = f[j].value
      BY <1>1, <3>3, <3>4, <3>5, FoundIsFirst
    <3>7. f[j] \in Range(f)
      BY <1>1, <3>3 DEF Range
    <3> QED BY <3>6, <3>7 DEF Tame
  <2> QED BY <2>2, <2>3
<1> QED BY <1>2, <1>3

\* It is an invariant.
LEMMA FilledInvariant == Spec => []FilledInv
<1>1. Init => FilledInv
  BY DEF Init, FilledInv
<1>2. TypeInv /\ FilledInv /\ [Next]_vars => FilledInv'
  <2> SUFFICES ASSUME TypeInv, FilledInv, [Next]_vars,
                      (pc \in {"parseConf", "initNetFilter"})', Tame(file')
               PROVE  /\ data' \in Read(Render(file'))
                      /\ \A i \in Fields :
                           i < field' => Holds(mem', base'[i], Found(data', Names[i]))
    BY DEF FilledInv, Tame, Tagless, Read, Fields, Plain, Render, Found
  <2>1. CASE ReadConf
    <3>1. data' \in Read(Render(file)) /\ file' = file /\ field' = 1
      BY <2>1 DEF ReadConf, TypeInv, PlaceInv
    <3>2. \A i \in Fields : ~(i < 1)
      BY FieldsAre
    <3> QED BY <3>1, <3>2
  <2>2. CASE ParseConf
    <3> DEFINE text == Found(data, Names[field])
    <3>1. /\ pc = "parseConf" /\ field \in Fields /\ field' = field + 1
          /\ UNCHANGED <<file, data, base>>
      BY <2>2 DEF ParseConf, TypeInv, PlaceInv
    <3>2. mem' = Stored(base[field], text)
      BY <2>2, <3>1, ExtractStores DEF ParseConf
    <3>3. /\ data \in Read(Render(file))
          /\ \A i \in Fields : i < field => Holds(mem, base[i], Found(data, Names[i]))
      BY <3>1 DEF FilledInv
    <3>4. \A i \in Fields : Found(data, Names[i]) \in Text /\ Len(Found(data, Names[i])) < Stride
      BY <3>1, <3>3, FoundIsText, FoundIsShort DEF TypeInv, PlaceInv
    <3>5. LayoutInv /\ TerminatorInv
      BY DEF TypeInv
    <3>6. ASSUME NEW i \in Fields, i < field'
          PROVE  Holds(mem', base[i], Found(data, Names[i]))
      <4>1. CASE i = field
        BY <3>1, <3>2, <3>4, <3>5, <4>1, StoredHolds
      <4>2. CASE i # field
        <5>1. i < field
          BY <3>1, <3>6, <4>2, FieldsAre
        <5> QED BY <3>1, <3>2, <3>3, <3>4, <3>5, <4>2, <5>1, StoredKeepsOthers
      <4> QED BY <4>1, <4>2
    <3> QED BY <3>1, <3>3, <3>6
  <2>3. CASE InitNetFilter
    BY <2>3 DEF InitNetFilter
  <2>4. CASE ReleaseNetFilter
    BY <2>4 DEF ReleaseNetFilter
  <2>5. CASE UNCHANGED vars
    BY <2>5 DEF vars, FilledInv
  <2> QED BY <2>1, <2>2, <2>3, <2>4, <2>5 DEF Next
<1> QED BY <1>1, <1>2, TypeInvariant, PTL DEF Spec

\* The string in a buffer that holds a text without a Nul.
LEMMA StringIsCut ==
  ASSUME LayoutInv, TerminatorInv, NEW i \in Fields, NEW text \in Text, Len(text) < Stride,
         Nul \notin Range(text), Holds(mem, base[i], text)
  PROVE  StringAt(i) = Cut(text)
<1> DEFINE a == base[i]   k == Copied(Len(text))
           nuls == {b \in DOMAIN mem : b >= base[i] /\ mem[b] = Nul}
           end == CHOOSE b \in nuls : \A c \in nuls : b <= c
<1>1. /\ a \in Nat \ {0} /\ a + Stride - 1 \in Cells /\ Len(Names) * Stride \in Nat
      /\ DOMAIN mem = Cells
  BY FieldsAre, LayoutAssumption DEF LayoutInv, TerminatorInv
<1>2. Len(text) \in Nat /\ k \in 0 .. Len(text) /\ k < Stride
  BY CopiedLength, LayoutAssumption, SMTT(30) DEF Text
<1>3. mem[a + k] = Nul /\ \A j \in 1 .. k : mem[a + j - 1] = text[j]
  BY DEF Holds
<1>4. \A j \in 1 .. Len(text) : text[j] # Nul
  BY DEF Range, Text
<1>5. \A b : end = b => StringAt(i) = SubSeq(mem, a, b - 1)
  BY DEF StringAt
<1>6. mem \in Seq(Range(mem)) /\ Len(mem) = Len(Names) * Stride
  BY <1>1 DEF TerminatorInv, Cells
<1>12. Cut(text) = SubSeq(text, 1, k)
  BY <1>2, LayoutAssumption DEF Cut, Copied
<1> HIDE DEF a, k
<1>7. a + k \in nuls
  BY <1>1, <1>2, <1>3, LayoutAssumption DEF Cells, a
<1>8. ASSUME NEW b \in nuls PROVE a + k <= b
  <2> SUFFICES ASSUME b < a + k PROVE FALSE
    BY <1>1, <1>2 DEF Cells
  <2> DEFINE j == b - a + 1
  <2>1. b \in Nat /\ b >= a /\ mem[b] = Nul
    BY <1>1, <1>8 DEF Cells, a
  <2>2. j \in 1 .. k /\ j \in 1 .. Len(text) /\ a + j - 1 = b
    BY <1>1, <1>2, <2>1
  <2> HIDE DEF j
  <2>3. mem[a + j - 1] = text[j]
    BY <1>3, <2>2
  <2> QED BY <1>4, <2>1, <2>2, <2>3
<1>9. end = a + k
  <2>1. \A b \in nuls : b \in Nat
    BY <1>1 DEF Cells
  <2>2. \A b \in nuls : (\A c \in nuls : b <= c) => b = a + k
    BY <1>7, <1>8, <2>1
  <2> HIDE DEF nuls
  <2> QED BY <1>7, <1>8, <2>2
<1> HIDE DEF end
<1> DEFINE s == SubSeq(mem, a, (a + k) - 1)   u == SubSeq(text, 1, k)
<1>10. s \in Seq(Range(mem)) /\ Len(s) = k /\ \A j \in 1 .. k : s[j] = mem[a + j - 1]
  <2>1. a + k - 1 <= Len(Names) * Stride
    BY <1>1, <1>2, LayoutAssumption DEF Cells
  <2> QED BY <1>1, <1>2, <1>6, <2>1
<1>11. u \in Text /\ Len(u) = k /\ \A j \in 1 .. k : u[j] = text[j]
  BY <1>2 DEF Text
<1> HIDE DEF s, u
<1>13. s = u
  <2> DEFINE S == Range(mem) \cup Char
  <2>1. s \in Seq(S) /\ u \in Seq(S)
    <3>1. Range(mem) \subseteq S /\ Char \subseteq S
      OBVIOUS
    <3> HIDE DEF S
    <3> QED BY <1>10, <1>11, <3>1, SeqMonotonic DEF Text
  <2>2. \A j \in 1 .. Len(s) : s[j] = u[j]
    BY <1>3, <1>10, <1>11
  <2> HIDE DEF S
  <2> QED BY <1>10, <1>11, <2>1, <2>2, SeqEqual
<1>14. StringAt(i) = SubSeq(mem, a, (a + k) - 1)
  BY <1>5, <1>9
<1> QED BY <1>12, <1>13, <1>14, Zenon DEF s, u

\* After parseConf each buffer holds what the file says: its first element of
\* that name, cut to the buffer's size.  This is so for any names, any number
\* of elements in any order, any layout of the buffers and any size of data,
\* if the file's values hold no tags and are shorter than the distance of two
\* buffers (dealConf.c:51, 118-148).
THEOREM ParsedAsConfiguredCorrect ==
  Spec => [](Tame(file) => ParsedAsConfigured)
<1>1. TypeInv /\ FilledInv => (Tame(file) => ParsedAsConfigured)
  <2> SUFFICES ASSUME TypeInv, FilledInv, Tame(file), pc = "initNetFilter", NEW i \in Fields
               PROVE
      /\ \A j \in DOMAIN file :
           First(Names[i], j) /\ Len(Render(SubSeq(file, 1, j))) <= DataMax
             => StringAt(i) = Cut(file[j].value)
      /\ (\A e \in Range(file) : e.name # Names[i]) /\ Len(Render(file)) < DataMax
           => StringAt(i) = <<>>
    BY DEF ParsedAsConfigured
  <2> DEFINE text == Found(data, Names[i])
  <2>1. file \in Files /\ field = Len(Names) + 1 /\ LayoutInv /\ TerminatorInv
    BY DEF TypeInv, PlaceInv
  <2>2. file \in Seq(Entries) /\ DOMAIN file = 1 .. Len(file)
    BY <2>1, FilesAreEntries
  <2>3. data \in Read(Render(file)) /\ Holds(mem, base[i], text)
    BY <2>1, FieldsAre DEF FilledInv
  <2>4. text \in Text /\ Len(text) < Stride
    BY <2>1, <2>3, FoundIsText, FoundIsShort DEF TypeInv
  <2> HIDE DEF text
  <2>5. ASSUME NEW j \in DOMAIN file, First(Names[i], j),
               Len(Render(SubSeq(file, 1, j))) <= DataMax
        PROVE  StringAt(i) = Cut(file[j].value)
    <3>1. /\ j \in 1 .. Len(file) /\ file[j].name = Names[i]
          /\ \A k \in 1 .. j - 1 : file[k].name # Names[i]
      BY <2>2, <2>5 DEF First
    <3>2. Len(Upto(file, j)) <= DataMax
      BY <2>5 DEF Upto
    <3>3. text = file[j].value
      BY <2>2, <2>3, <3>1, <3>2, FoundIsFirst DEF text
    <3>4. Nul \notin Range(text)
      BY <3>3 DEF Tame, Range
    <3> QED BY <2>1, <2>3, <2>4, <3>3, <3>4, StringIsCut
  <2>6. ASSUME \A e \in Range(file) : e.name # Names[i], Len(Render(file)) < DataMax
        PROVE  StringAt(i) = <<>>
    <3>1. \A k \in 1 .. Len(file) : file[k].name # Names[i]
      BY <2>2, <2>6 DEF Range
    <3>2. text = <<>>
      BY <2>2, <2>3, <2>6, <3>1, FoundNothing DEF text
    <3>3. Nul \notin Range(text)
      BY <3>2 DEF Range
    <3>4. StringAt(i) = Cut(<<>>)
      BY <2>1, <2>3, <2>4, <3>2, <3>3, StringIsCut
    <3>5. Cut(<<>>) = <<>>
      BY LayoutAssumption DEF Cut
    <3> QED BY <3>4, <3>5
  <2> QED BY <2>5, <2>6
<1> QED BY <1>1, TypeInvariant, FilledInvariant, PTL

----------------------------------------------------------------------------
(* The hook.                                                               *)

\* A registered hook is one that releaseNetFilter will find again: direction
\* does not change after the hook was registered.
HookInv ==
  /\ registered => pc = "loaded" /\ OneWay

\* No hook is left registered when the module is gone (netFilter.c:42-60).
THEOREM NoHookLeftBehindCorrect == Spec => []NoHookLeftBehind
<1>1. Init => HookInv
  BY DEF Init, HookInv
<1>2. HookInv /\ [Next]_vars => HookInv'
  <2> SUFFICES ASSUME HookInv, [Next]_vars PROVE HookInv'
    OBVIOUS
  <2>1. CASE ReadConf
    BY <2>1 DEF ReadConf, HookInv
  <2>2. CASE ParseConf
    BY <2>2 DEF ParseConf, HookInv
  <2>3. CASE InitNetFilter
    BY <2>3 DEF InitNetFilter, HookInv, OneWay, StringAt
  <2>4. CASE ReleaseNetFilter
    BY <2>4 DEF ReleaseNetFilter, HookInv
  <2>5. CASE UNCHANGED vars
    BY <2>5 DEF vars, HookInv, OneWay, StringAt
  <2> QED BY <2>1, <2>2, <2>3, <2>4, <2>5 DEF Next
<1>3. HookInv => NoHookLeftBehind
  BY DEF HookInv, NoHookLeftBehind
<1> QED BY <1>1, <1>2, <1>3, PTL DEF Spec
=============================================================================
