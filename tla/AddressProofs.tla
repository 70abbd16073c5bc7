--------------------------- MODULE AddressProofs ---------------------------
(***************************************************************************)
(* Theorems about the texts of addresses, for every byte and address.      *)
(***************************************************************************)
EXTENDS Address, TextTheorems

\* Every digit is read back as the number it was written for.
LEMMA DigitValueOfChar == \A n \in 0 .. 9 : DigitValue(Char(n)) = n
<1>1. \A m, n \in 0 .. 9 : Char(m) = Char(n) => m = n
  BY SMTT(30) DEF Char, Digits
<1> QED BY <1>1 DEF DigitValue

\* A byte's text has one, two or three digits.
LEMMA DigitsOfByte ==
  ASSUME NEW c \in Byte
  PROVE  \/ \E h \in 1 .. 9, t, u \in 0 .. 9 :
               /\ c = 100 * h + 10 * t + u
               /\ Char2String(c) = <<Char(h), Char(t), Char(u)>>
         \/ \E t \in 1 .. 9, u \in 0 .. 9 :
               /\ c = 10 * t + u
               /\ Char2String(c) = <<Char(t), Char(u)>>
         \/ c \in 0 .. 9 /\ Char2String(c) = <<Char(c)>>
<1> DEFINE h == c \div 100   t == (c % 100) \div 10   u == c % 10   d == c \div 10
<1>1. CASE c >= 100
  <2>1. h \in 1 .. 9 /\ t \in 0 .. 9 /\ u \in 0 .. 9 /\ c = 100 * h + 10 * t + u
    BY <1>1 DEF Byte
  <2>2. Char2String(c) = <<Char(h), Char(t), Char(u)>>
    BY <1>1 DEF Char2String
  <2> HIDE DEF h, t, u
  <2> QED BY <2>1, <2>2
<1>2. CASE c >= 10 /\ c < 100
  <2>1. d \in 1 .. 9 /\ u \in 0 .. 9 /\ c = 10 * d + u
    BY <1>2 DEF Byte
  <2>2. Char2String(c) = <<Char(d), Char(u)>>
    BY <1>2 DEF Char2String, Byte
  <2> HIDE DEF d, u
  <2> QED BY <2>1, <2>2
<1>3. CASE c < 10
  <2>1. c \in 0 .. 9 /\ Char2String(c) = <<Char(c)>>
    BY <1>3 DEF Char2String, Byte
  <2> QED BY <2>1
<1> QED BY <1>1, <1>2, <1>3 DEF Byte

\* The number a text of up to three digits stands for.
Decimal(text) ==
  CASE Len(text) = 1 -> DigitValue(text[1])
    [] Len(text) = 2 -> 10 * DigitValue(text[1]) + DigitValue(text[2])
    [] Len(text) = 3 -> 100 * DigitValue(text[1]) + 10 * DigitValue(text[2])
                          + DigitValue(text[3])

\* char2string writes every byte in decimal, without leading zeros, in at most
\* three of the ten characters it is given (dealConf.c:198, 214-238).
THEOREM Char2StringCorrect ==
  \A c \in Byte :
    /\ Decimal(Char2String(c)) = c
    /\ Len(Char2String(c)) \in 1 .. 3
    /\ Char2String(c)[1] = "0" => c = 0
<1>1. \A n \in 1 .. 9 : Char(n) # "0"
  BY SMTT(30) DEF Char, Digits
<1>2. ASSUME NEW c \in Byte
      PROVE  /\ Decimal(Char2String(c)) = c
             /\ Len(Char2String(c)) \in 1 .. 3
             /\ Char2String(c)[1] = "0" => c = 0
  <2>1. ASSUME NEW h \in 1 .. 9, NEW t \in 0 .. 9, NEW u \in 0 .. 9,
               c = 100 * h + 10 * t + u,
               Char2String(c) = <<Char(h), Char(t), Char(u)>>
        PROVE  /\ Decimal(Char2String(c)) = c
               /\ Len(Char2String(c)) \in 1 .. 3
               /\ Char2String(c)[1] = "0" => c = 0
    BY <1>1, <2>1, DigitValueOfChar DEF Decimal
  <2>2. ASSUME NEW t \in 1 .. 9, NEW u \in 0 .. 9, c = 10 * t + u,
               Char2String(c) = <<Char(t), Char(u)>>
        PROVE  /\ Decimal(Char2String(c)) = c
               /\ Len(Char2String(c)) \in 1 .. 3
               /\ Char2String(c)[1] = "0" => c = 0
    BY <1>1, <2>2, DigitValueOfChar DEF Decimal
  <2>3. ASSUME c \in 0 .. 9, Char2String(c) = <<Char(c)>>
        PROVE  /\ Decimal(Char2String(c)) = c
               /\ Len(Char2String(c)) \in 1 .. 3
               /\ Char2String(c)[1] = "0" => c = 0
    BY <1>1, <2>3, DigitValueOfChar DEF Decimal
  <2> QED BY <2>1, <2>2, <2>3, DigitsOfByte
<1> QED BY <1>2

\* Different bytes have different texts.
LEMMA Char2StringInjective ==
  \A c, d \in Byte : Char2String(c) = Char2String(d) => c = d
BY Char2StringCorrect

\* The characters of an address's text, and of the text in quotes.
Decimals == {"0", "1", "2", "3", "4", "5", "6", "7", "8", "9"}
DottedChars == Decimals \cup {"."}
Chars == DottedChars \cup {Quote}

\* A byte's text is a text.
LEMMA Char2StringIsText == \A c \in Byte : Char2String(c) \in Seq(DottedChars)
<1>1. \A n \in 0 .. 9 : Char(n) \in DottedChars
  <2> SUFFICES ASSUME NEW n \in 0 .. 9 PROVE Char(n) \in DottedChars
    OBVIOUS
  <2>1. n \in {0, 1, 2, 3, 4, 5, 6, 7, 8, 9}
    OBVIOUS
  <2>2. /\ Char(0) = "0" /\ Char(1) = "1" /\ Char(2) = "2" /\ Char(3) = "3"
        /\ Char(4) = "4" /\ Char(5) = "5" /\ Char(6) = "6" /\ Char(7) = "7"
        /\ Char(8) = "8" /\ Char(9) = "9"
    BY SMTT(30) DEF Char, Digits
  <2> QED BY <2>1, <2>2 DEF DottedChars, Decimals
<1>2. ASSUME NEW c \in Byte PROVE Char2String(c) \in Seq(DottedChars)
  <2>1. CASE \E h \in 1 .. 9, t, u \in 0 .. 9 : Char2String(c) = <<Char(h), Char(t), Char(u)>>
    <3>1. PICK h \in 1 .. 9, t \in 0 .. 9, u \in 0 .. 9 :
            Char2String(c) = <<Char(h), Char(t), Char(u)>>
      BY <2>1
    <3>2. Char(h) \in DottedChars /\ Char(t) \in DottedChars /\ Char(u) \in DottedChars
      BY <1>1
    <3> QED BY <3>1, <3>2
  <2>2. CASE \E t \in 1 .. 9, u \in 0 .. 9 : Char2String(c) = <<Char(t), Char(u)>>
    <3>1. PICK t \in 1 .. 9, u \in 0 .. 9 : Char2String(c) = <<Char(t), Char(u)>>
      BY <2>2
    <3>2. Char(t) \in DottedChars /\ Char(u) \in DottedChars
      BY <1>1
    <3> QED BY <3>1, <3>2
  <2>3. CASE c \in 0 .. 9 /\ Char2String(c) = <<Char(c)>>
    BY <1>1, <2>3
  <2> QED BY <2>1, <2>2, <2>3, DigitsOfByte
<1> QED BY <1>2

\* A text, a dot and another text.
LEMMA JoinedText ==
  ASSUME NEW s \in Seq(DottedChars), NEW t \in Seq(DottedChars)
  PROVE  /\ s \o <<".">> \o t \in Seq(DottedChars)
         /\ Len(s \o <<".">> \o t) = Len(s) + 1 + Len(t)
         /\ \A i \in 1 .. Len(s) : (s \o <<".">> \o t)[i] = s[i]
         /\ (s \o <<".">> \o t)[Len(s) + 1] = "."
         /\ \A i \in 1 .. Len(t) : (s \o <<".">> \o t)[Len(s) + 1 + i] = t[i]
<1> DEFINE d == <<".">>
<1>1. d \in Seq(DottedChars)
  BY DEF DottedChars
<1>2. Len(d) = 1 /\ d[1] = "." /\ Len(s) \in Nat /\ Len(t) \in Nat
  OBVIOUS
<1> HIDE DEF d
<1> DEFINE u == s \o d   v == u \o t
<1>3. u \in Seq(DottedChars)
  BY <1>1, Joined
<1>4. /\ Len(u) = Len(s) + Len(d)
      /\ \A i \in 1 .. Len(s) : u[i] = s[i]
      /\ \A i \in 1 .. Len(d) : u[Len(s) + i] = d[i]
  BY <1>1, Joined
<1> HIDE DEF u
<1>5. /\ v \in Seq(DottedChars) /\ Len(v) = Len(u) + Len(t)
      /\ \A i \in 1 .. Len(u) : v[i] = u[i]
      /\ \A i \in 1 .. Len(t) : v[Len(u) + i] = t[i]
  BY <1>3, Joined
<1> HIDE DEF v
<1>6. Len(u) = Len(s) + 1 /\ u[Len(s) + 1] = "."
  BY <1>2, <1>4
<1>7. (\A i \in 1 .. Len(s) : v[i] = s[i]) /\ v[Len(s) + 1] = "."
  BY <1>2, <1>4, <1>5, <1>6
<1> QED BY <1>5, <1>6, <1>7 DEF v, u, d

\* The four numbers and the three dots of an address's text.
IsDotted(d, s, t, u, v) ==
  /\ d \in Seq(DottedChars)
  /\ Len(d) = Len(s) + Len(t) + Len(u) + Len(v) + 3
  /\ \A i \in 1 .. Len(s) : d[i] = s[i]
  /\ d[Len(s) + 1] = "."
  /\ \A i \in 1 .. Len(t) : d[Len(s) + 1 + i] = t[i]
  /\ d[Len(s) + Len(t) + 2] = "."
  /\ \A i \in 1 .. Len(u) : d[Len(s) + Len(t) + 2 + i] = u[i]
  /\ d[Len(s) + Len(t) + Len(u) + 3] = "."
  /\ \A i \in 1 .. Len(v) : d[Len(s) + Len(t) + Len(u) + 3 + i] = v[i]

\* The dotted text is the four numbers with dots between them.
LEMMA DottedText ==
  ASSUME NEW in \in [1 .. 4 -> Byte]
  PROVE  IsDotted(Dotted(in), Char2String(in[1]), Char2String(in[2]),
                              Char2String(in[3]), Char2String(in[4]))
<1> DEFINE s == Char2String(in[1])   t == Char2String(in[2])
           u == Char2String(in[3])   v == Char2String(in[4])   d == Dotted(in)
<1>1. /\ s \in Seq(DottedChars) /\ t \in Seq(DottedChars)
      /\ u \in Seq(DottedChars) /\ v \in Seq(DottedChars)
  BY Char2StringIsText
<1>15. d = s \o <<".">> \o t \o <<".">> \o u \o <<".">> \o v
  BY DEF Dotted
<1> HIDE DEF s, t, u, v, d
<1>2. PICK k, l, m, n \in Nat : k = Len(s) /\ l = Len(t) /\ m = Len(u) /\ n = Len(v)
  BY <1>1
<1> DEFINE st == s \o <<".">> \o t   stu == st \o <<".">> \o u
<1>10. st \in Seq(DottedChars)
  BY <1>1, JoinedText
<1>3. /\ Len(st) = k + 1 + l
      /\ \A i \in 1 .. k : st[i] = s[i]
      /\ st[k + 1] = "."
      /\ \A i \in 1 .. l : st[k + 1 + i] = t[i]
  BY <1>1, <1>2, JoinedText, SMTT(30)
<1> HIDE DEF st
<1>11. stu \in Seq(DottedChars)
  BY <1>1, <1>10, JoinedText
<1>4. /\ Len(stu) = Len(st) + 1 + Len(u)
      /\ \A i \in 1 .. Len(st) : stu[i] = st[i]
      /\ stu[Len(st) + 1] = "."
      /\ \A i \in 1 .. Len(u) : stu[Len(st) + 1 + i] = u[i]
  BY <1>1, <1>10, JoinedText
<1> HIDE DEF stu
<1>5. /\ d \in Seq(DottedChars) /\ Len(d) = Len(stu) + 1 + Len(v)
      /\ \A i \in 1 .. Len(stu) : d[i] = stu[i]
      /\ d[Len(stu) + 1] = "."
      /\ \A i \in 1 .. Len(v) : d[Len(stu) + 1 + i] = v[i]
  <2>1. d = stu \o <<".">> \o v
    BY <1>15 DEF st, stu
  <2> QED BY <1>1, <1>11, <2>1, JoinedText, SMTT(30)
<1>6. Len(st) = k + l + 1 /\ Len(stu) = k + l + m + 2
  BY <1>2, <1>3, <1>4
<1>7. \A j \in 1 .. k + l + 1 : d[j] = st[j]
  BY <1>2, <1>4, <1>5, <1>6
<1>8. (\A i \in 1 .. k : d[i] = s[i]) /\ d[k + 1] = "."
  BY <1>2, <1>3, <1>7
<1>9. \A i \in 1 .. l : d[k + 1 + i] = t[i]
  BY <1>2, <1>3, <1>7
<1>12. d[k + l + 2] = "."
  <2>1. k + l + 2 = Len(st) + 1 /\ k + l + 2 \in 1 .. Len(stu)
    BY <1>6
  <2> QED BY <1>4, <1>5, <2>1
<1>13. \A i \in 1 .. m : d[k + l + 2 + i] = u[i]
  <2> SUFFICES ASSUME NEW i \in 1 .. m PROVE d[k + l + 2 + i] = u[i]
    OBVIOUS
  <2>1. Len(st) + 1 + i = k + l + 2 + i /\ k + l + 2 + i \in 1 .. Len(stu)
    BY <1>6
  <2>2. stu[Len(st) + 1 + i] = u[i]
    BY <1>2, <1>4
  <2> QED BY <1>5, <2>1, <2>2
<1>14. /\ d[k + l + m + 3] = "." /\ Len(d) = k + l + m + n + 3
       /\ \A i \in 1 .. n : d[k + l + m + 3 + i] = v[i]
  BY <1>2, <1>5, <1>6
<1>16. IsDotted(d, s, t, u, v)
  BY <1>2, <1>5, <1>8, <1>9, <1>12, <1>13, <1>14 DEF IsDotted
<1> QED BY <1>16 DEF s, t, u, v, d

\* Quotes add two characters.
LEMMA QuotedLength ==
  ASSUME NEW s \in Seq(Chars)
  PROVE  Len(Quoted(s)) = Len(s) + 2
<1>1. <<Quote>> \in Seq(Chars) /\ Len(<<Quote>>) = 1
  BY DEF Chars
<1>2. <<Quote>> \o s \in Seq(Chars) /\ Len(<<Quote>> \o s) = 1 + Len(s)
  BY <1>1, Joined
<1>3. Len(<<Quote>> \o s \o <<Quote>>) = 1 + Len(s) + 1
  BY <1>1, <1>2, Joined
<1> QED BY <1>3, LenProperties DEF Quoted

\* in_ntoa writes at most seventeen characters and a terminator into the hundred
\* of sip and dip (dealConf.c:194-212, netFilter.c:94).
THEOREM InNtoaFits ==
  \A in \in [1 .. 4 -> Byte] : Len(InNtoa(in)) \in 9 .. 17
<1> SUFFICES ASSUME NEW in \in [1 .. 4 -> Byte]
             PROVE  Len(InNtoa(in)) \in 9 .. 17
  OBVIOUS
<1>1. PICK k, l, m, n \in 1 .. 3 :
        /\ k = Len(Char2String(in[1])) /\ l = Len(Char2String(in[2]))
        /\ m = Len(Char2String(in[3])) /\ n = Len(Char2String(in[4]))
  BY Char2StringCorrect
<1>2. Dotted(in) \in Seq(DottedChars) /\ Len(Dotted(in)) = k + l + m + n + 3
  BY <1>1, DottedText DEF IsDotted
<1>3. Dotted(in) \in Seq(Chars)
  BY <1>2, SeqMonotonic DEF Chars
<1>4. Len(InNtoa(in)) = Len(Dotted(in)) + 2
  BY <1>3, QuotedLength DEF InNtoa
<1>5. Len(InNtoa(in)) = k + l + m + n + 5
  BY <1>2, <1>4
<1> QED BY <1>5
----------------------------------------------------------------------------
(* Reading addresses.                                                      *)

\* The numbers read before the character ch, and with it.
WithChar(numbers, ch) ==
  IF ch = "." THEN Append(numbers, 0)
  ELSE [numbers EXCEPT ![Len(numbers)] = 10 * @ + DigitValue(ch)]

Numbers == Seq(Nat) \ {<<>>}

\* Reading a character of an address leaves numbers.
LEMMA WithCharType ==
  ASSUME NEW b \in Numbers, NEW ch \in DottedChars
  PROVE  WithChar(b, ch) \in Numbers
<1>1. Len(b) \in Nat \ {0}
  BY EmptySeq DEF Numbers
<1>2. CASE ch = "."
  BY <1>2 DEF WithChar, Numbers
<1>3. CASE ch # "."
  <2>1. \E n \in 0 .. 9 : Char(n) = ch
    <3>1. /\ Char(0) = "0" /\ Char(1) = "1" /\ Char(2) = "2" /\ Char(3) = "3"
          /\ Char(4) = "4" /\ Char(5) = "5" /\ Char(6) = "6" /\ Char(7) = "7"
          /\ Char(8) = "8" /\ Char(9) = "9"
      BY DEF Char, Digits
    <3> QED BY <1>3, <3>1 DEF DottedChars, Decimals
  <2>2. DigitValue(ch) \in Nat
    BY <2>1, DigitValueOfChar
  <2>3. b[Len(b)] \in Nat
    BY <1>1 DEF Numbers
  <2> DEFINE e == 10 * b[Len(b)] + DigitValue(ch)
  <2>4. e \in Nat
    BY <2>2, <2>3
  <2>5. WithChar(b, ch) = [b EXCEPT ![Len(b)] = e]
    BY <1>3 DEF WithChar
  <2> HIDE DEF e
  <2>6. [b EXCEPT ![Len(b)] = e] \in Seq(Nat) /\ Len([b EXCEPT ![Len(b)] = e]) = Len(b)
    BY <1>1, <2>4, ExceptSeq DEF Numbers
  <2> QED BY <1>1, <2>5, <2>6, EmptySeq DEF Numbers
<1> QED BY <1>2, <1>3

\* in_aton reads a text one character after the other.
LEMMA InAtonReads ==
  ASSUME NEW text \in Seq(DottedChars)
  PROVE  \E bytes \in [0 .. Len(text) -> Numbers] :
           /\ bytes[0] = <<0>>
           /\ \A n \in 1 .. Len(text) : bytes[n] = WithChar(bytes[n - 1], text[n])
           /\ InAton(text) =
                [i \in 1 .. 4 |->
                   IF i <= Len(bytes[Len(text)]) THEN bytes[Len(text)][i] ELSE 0]
<1> DEFINE l == Len(text)
           step == [p \in Numbers \X (1 .. l) |-> WithChar(p[1], text[p[2]])]
           body(b) == [n \in 0 .. l |->
             IF n = 0 THEN <<0>>
             ELSE IF text[n] = "." THEN Append(b[n - 1], 0)
             ELSE [b[n - 1] EXCEPT ![Len(b[n - 1])] = 10 * @ + DigitValue(text[n])]]
           bytes == CHOOSE b : b = body(b)
<1>1. l \in Nat /\ \A n \in 1 .. l : text[n] \in DottedChars
  OBVIOUS
<1>2. step \in Steps(Numbers, 1, l)
  BY <1>1, WithCharType DEF Steps
<1>3. <<0>> \in Numbers
  BY DEF Numbers
<1>4. PICK f \in [0 .. l -> Numbers] :
        f[0] = <<0>> /\ \A n \in 1 .. l : f[n] = step[<<f[n - 1], n>>]
  <2> DEFINE c == <<0>>
  <2>1. c \in Numbers
    BY <1>3
  <2> HIDE DEF step, l, c
  <2>2. \E f \in [0 .. l -> Numbers] :
          f[0] = c /\ \A n \in 1 .. l : f[n] = step[<<f[n - 1], n>>]
    BY <1>1, <1>2, <2>1, FiniteRecursion
  <2> QED BY <2>2 DEF c
<1>5. ASSUME NEW n \in 1 .. l PROVE f[n] = WithChar(f[n - 1], text[n])
  <2>1. f[n - 1] \in Numbers
    BY <1>1
  <2>2. f[n] = step[<<f[n - 1], n>>]
    BY <1>4
  <2> QED BY <2>1, <2>2
<1> HIDE DEF step
<1>6. f = body(f)
  <2>1. ASSUME NEW n \in 0 .. l PROVE f[n] = body(f)[n]
    <3>1. CASE n = 0
      BY <1>1, <1>4, <3>1
    <3>2. CASE n # 0
      <4>1. n \in 1 .. l
        BY <1>1, <3>2
      <4>2. f[n] = WithChar(f[n - 1], text[n])
        BY <1>5, <4>1
      <4> QED BY <3>2, <4>2 DEF WithChar
    <3> QED BY <3>1, <3>2
  <2>2. f = [n \in 0 .. l |-> f[n]]
    BY SMTT(30)
  <2> QED BY <2>1, <2>2
<1>7. bytes = body(bytes)
  BY <1>6
<1>8. InAton(text) =
        [i \in 1 .. 4 |-> IF i <= Len(bytes[l]) THEN bytes[l][i] ELSE 0]
  BY DEF InAton
<1> HIDE DEF bytes
<1>9. \A n \in 0 .. l : bytes[n] = f[n]
  <2> DEFINE T == {n \in 0 .. l : bytes[n] = f[n]}
  <2>1. 0 \in T
    BY <1>1, <1>6, <1>7
  <2>2. \A n \in 0 .. l - 1 : n \in T => n + 1 \in T
    <3> SUFFICES ASSUME NEW n \in 0 .. l - 1, bytes[n] = f[n]
                 PROVE  n + 1 \in T
      OBVIOUS
    <3>1. n + 1 \in 0 .. l /\ n + 1 # 0 /\ (n + 1) - 1 = n
      BY <1>1
    <3>2. body(bytes)[n + 1] = body(f)[n + 1]
      BY <3>1
    <3> HIDE DEF body
    <3> QED BY <1>6, <1>7, <3>1, <3>2
  <2> HIDE DEF T
  <2>3. \A n \in 0 .. l : n \in T
    BY <1>1, <2>1, <2>2, PrefixInduction
  <2> QED BY <2>3 DEF T
<1>10. f[0] = <<0>>
  BY <1>1, <1>4
<1>11. InAton(text) = [i \in 1 .. 4 |-> IF i <= Len(f[l]) THEN f[l][i] ELSE 0]
  <2>1. bytes[l] = f[l]
    BY <1>1, <1>9
  <2> QED BY <1>8, <2>1
<1> QED BY <1>5, <1>10, <1>11


\* The numbers of b, but k for the last of them.
WithLast(b, k) == [b EXCEPT ![Len(b)] = k]

\* A digit after a number.
LEMMA DigitRead ==
  ASSUME NEW b \in Numbers, NEW m \in Nat, NEW n \in 0 .. 9, NEW k \in Nat,
         k = 10 * m + n
  PROVE  WithChar(WithLast(b, m), Char(n)) = WithLast(b, k)
<1>1. Len(b) \in 1 .. Len(b) /\ b \in Seq(Nat) /\ Len(b) \in Nat
  BY EmptySeq DEF Numbers
<1> DEFINE e == [b EXCEPT ![Len(b)] = m]
<1>2. Len(e) = Len(b) /\ e[Len(b)] = m
  BY <1>1, ExceptSeq
<1>3. WithChar(e, Char(n)) = [e EXCEPT ![Len(e)] = 10 * e[Len(e)] + n]
  <2>1. \A i \in 0 .. 9 : Char(i) # "."
    BY DEF Char, Digits
  <2> HIDE DEF e
  <2> QED BY <2>1, DigitValueOfChar DEF WithChar
<1>4. WithChar(e, Char(n)) = [e EXCEPT ![Len(b)] = k]
  BY <1>2, <1>3
<1>5. [e EXCEPT ![Len(b)] = k] = [b EXCEPT ![Len(b)] = k]
  OBVIOUS
<1> QED BY <1>4, <1>5 DEF WithLast

\* The last number is still 0.
Fresh(b) == b \in Numbers /\ b[Len(b)] = 0

\* The first digit of a number.
LEMMA FirstDigitRead ==
  ASSUME NEW b, Fresh(b), NEW n \in 0 .. 9
  PROVE  WithChar(b, Char(n)) = WithLast(b, n)
<1>1. b \in Numbers
  BY DEF Fresh
<1>2. PICK m \in Nat : m = 0 /\ n = 10 * m + n
  OBVIOUS
<1>3. WithChar(WithLast(b, m), Char(n)) = WithLast(b, n)
  <2>1. n \in Nat
    OBVIOUS
  <2>2. n = 10 * m + n
    BY <1>2
  <2> QED BY <1>1, <2>1, <2>2, DigitRead, ZenonT(60)
<1>4. b = WithLast(b, m)
  <2>1. Len(b) \in DOMAIN b
    BY <1>1, EmptySeq DEF Numbers
  <2> QED BY <1>1, <1>2, <2>1 DEF Numbers, WithLast, Fresh
<1> QED BY <1>3, <1>4

\* How bytes come from the characters of text.
ReadFrom(bytes, text) ==
  /\ bytes \in [0 .. Len(text) -> Numbers]
  /\ \A n \in 1 .. Len(text) : bytes[n] = WithChar(bytes[n - 1], text[n])

\* The text r is what follows the first p characters.
FollowsAt(text, p, r) ==
  /\ p + Len(r) <= Len(text)
  /\ \A i \in 1 .. Len(r) : text[p + i] = r[i]

\* The text of a byte is read as the byte.
LEMMA ByteRead ==
  ASSUME NEW text \in Seq(DottedChars), NEW bytes, ReadFrom(bytes, text),
         NEW c \in Byte, NEW p \in Nat, FollowsAt(text, p, Char2String(c)),
         NEW b, b = bytes[p], Fresh(b)
  PROVE  bytes[p + Len(Char2String(c))] = WithLast(b, c)
<1> DEFINE s == Char2String(c)
<1>1. Len(text) \in Nat /\ Len(s) \in 1 .. 3
  BY Char2StringCorrect
<1>2. b \in Numbers
  BY DEF Fresh
<1>3. \A n \in 0 .. 9 : WithChar(bytes[p], Char(n)) = WithLast(b, n)
  BY FirstDigitRead
<1>4. \A i \in 1 .. Len(s) :
        /\ text[p + i] = s[i]
        /\ bytes[p + i] = WithChar(bytes[p + i - 1], text[p + i])
  <2> SUFFICES ASSUME NEW i \in 1 .. Len(s)
               PROVE  /\ text[p + i] = s[i]
                      /\ bytes[p + i] = WithChar(bytes[p + i - 1], text[p + i])
    OBVIOUS
  <2>1. text[p + i] = s[i] /\ p + Len(s) <= Len(text)
    BY DEF FollowsAt
  <2>2. p + i \in 1 .. Len(text)
    BY <1>1, <2>1
  <2>3. \A n \in 1 .. Len(text) : bytes[n] = WithChar(bytes[n - 1], text[n])
    BY DEF ReadFrom
  <2>4. bytes[p + i] = WithChar(bytes[p + i - 1], text[p + i])
    BY <2>2, <2>3
  <2> QED BY <2>1, <2>4
<1>5. ASSUME NEW h \in 1 .. 9, NEW t \in 0 .. 9, NEW u \in 0 .. 9,
             c = 100 * h + 10 * t + u, s = <<Char(h), Char(t), Char(u)>>
      PROVE  bytes[p + Len(s)] = WithLast(b, c)
  <2>1. Len(s) = 3 /\ s[1] = Char(h) /\ s[2] = Char(t) /\ s[3] = Char(u)
    BY <1>5
  <2> HIDE DEF s
  <2>2. /\ bytes[p + 1] = WithChar(bytes[p], Char(h))
        /\ bytes[p + 2] = WithChar(bytes[p + 1], Char(t))
        /\ bytes[p + 3] = WithChar(bytes[p + 2], Char(u))
    BY <1>4, <2>1
  <2>3. bytes[p + 1] = WithLast(b, h)
    BY <1>3, <2>2, SMTT(30)
  <2>4. PICK k \in Nat : k = 10 * h + t /\ h \in Nat
    OBVIOUS
  <2>5. bytes[p + 2] = WithLast(b, k)
    <3>1. h \in Nat /\ k = 10 * h + t
      BY <2>4
    <3>2. WithChar(WithLast(b, h), Char(t)) = WithLast(b, k)
      BY <1>2, <3>1, DigitRead, ZenonT(60)
    <3> QED BY <2>2, <2>3, <3>2
  <2>6. c \in Nat /\ c = 10 * k + u
    BY <1>5, <2>4
  <2>7. bytes[p + 3] = WithLast(b, c)
    <3>1. WithChar(WithLast(b, k), Char(u)) = WithLast(b, c)
      BY <1>2, <2>6, DigitRead, ZenonT(60)
    <3> QED BY <2>2, <2>5, <3>1
  <2> QED BY <2>1, <2>7
<1>6. ASSUME NEW t \in 1 .. 9, NEW u \in 0 .. 9,
             c = 10 * t + u, s = <<Char(t), Char(u)>>
      PROVE  bytes[p + Len(s)] = WithLast(b, c)
  <2>1. Len(s) = 2 /\ s[1] = Char(t) /\ s[2] = Char(u)
    BY <1>6
  <2> HIDE DEF s
  <2>2. /\ bytes[p + 1] = WithChar(bytes[p], Char(t))
        /\ bytes[p + 2] = WithChar(bytes[p + 1], Char(u))
    BY <1>4, <2>1
  <2>3. bytes[p + 1] = WithLast(b, t)
    BY <1>3, <2>2
  <2>4. bytes[p + 2] = WithLast(b, c)
    <3>1. c \in Nat /\ c = 10 * t + u /\ t \in Nat
      BY <1>6
    <3>2. WithChar(WithLast(b, t), Char(u)) = WithLast(b, c)
      BY <1>2, <3>1, DigitRead, ZenonT(60)
    <3> QED BY <2>2, <2>3, <3>2
  <2> QED BY <2>1, <2>4
<1>7. ASSUME c \in 0 .. 9, s = <<Char(c)>>
      PROVE  bytes[p + Len(s)] = WithLast(b, c)
  <2>1. Len(s) = 1 /\ s[1] = Char(c)
    BY <1>7
  <2> HIDE DEF s
  <2>2. bytes[p + 1] = WithChar(bytes[p], Char(c))
    BY <1>4, <2>1
  <2>3. bytes[p + 1] = WithLast(b, c)
    BY <1>3, <1>7, <2>2
  <2> QED BY <2>1, <2>3
<1> HIDE DEF s
<1>8. \/ \E h \in 1 .. 9, t, u \in 0 .. 9 :
            c = 100 * h + 10 * t + u /\ s = <<Char(h), Char(t), Char(u)>>
      \/ \E t \in 1 .. 9, u \in 0 .. 9 : c = 10 * t + u /\ s = <<Char(t), Char(u)>>
      \/ c \in 0 .. 9 /\ s = <<Char(c)>>
  BY DigitsOfByte DEF s
<1> QED BY <1>5, <1>6, <1>7, <1>8 DEF s

\* The first k numbers of an address.
FirstOf(in, k, numbers) ==
  numbers \in Numbers /\ Len(numbers) = k /\ \A i \in 1 .. k : numbers[i] = in[i]

\* The number that begins at the start.
LEMMA FirstNumberRead ==
  ASSUME NEW text \in Seq(DottedChars), NEW bytes, ReadFrom(bytes, text),
         bytes[0] = << 0 >>,
         NEW in \in [1 .. 4 -> Byte], FollowsAt(text, 0, Char2String(in[1]))
  PROVE  FirstOf(in, 1, bytes[Len(Char2String(in[1]))])
<1> DEFINE c == in[1]   r == Char2String(c)
<1>1. PICK p, b :
        p = 0 /\ p \in Nat /\ b = <<0>> /\ b = bytes[p] /\ FollowsAt(text, p, r)
  OBVIOUS
<1>2. Fresh(b) /\ c \in Byte
  BY <1>1 DEF Fresh, Numbers
<1> HIDE DEF c
<1>3. bytes[p + Len(r)] = WithLast(b, c)
  BY <1>1, <1>2, ByteRead
<1>4. p + Len(r) = Len(r)
  BY <1>1, <1>2, Char2StringCorrect
<1>5. c \in Nat /\ b \in Seq(Nat)
  BY <1>1, <1>2 DEF Byte
<1>6. Len(b) = 1
  BY <1>1
<1>7. FirstOf(in, 1, WithLast(b, c))
  <2>1. Len(b) \in 1 .. Len(b)
    BY <1>6
  <2> DEFINE x == [b EXCEPT ![Len(b)] = c]
  <2>2. /\ x \in Seq(Nat) /\ Len(x) = Len(b)
        /\ \A i \in 1 .. Len(b) : x[i] = IF i = Len(b) THEN c ELSE b[i]
    BY <1>5, <2>1, ExceptSeq
  <2> HIDE DEF x
  <2>3. x \in Seq(Nat) /\ Len(x) = 1 /\ x[1] = in[1]
    BY <1>6, <2>2 DEF c
  <2>4. x \in Numbers
    <3>1. Len(x) # 0 /\ x \in Seq(Nat)
      BY <2>3
    <3>2. x # <<>>
      BY <3>1
    <3> QED BY <3>1, <3>2 DEF Numbers
  <2>5. \A i \in 1 .. 1 : x[i] = in[i]
    BY <2>3
  <2>6. FirstOf(in, 1, x)
    BY <2>3, <2>4, <2>5 DEF FirstOf
  <2> QED BY <2>6 DEF x, WithLast
<1> QED BY <1>3, <1>4, <1>7 DEF c

\* A number that begins at a dot.
DotAt(text, n) == n \in 1 .. Len(text) /\ text[n] = "."

\* Behind a dot in_aton reads the next number.
LEMMA NextNumberRead ==
  ASSUME NEW text \in Seq(DottedChars), NEW bytes, ReadFrom(bytes, text),
         NEW n \in Nat, DotAt(text, n), bytes[n - 1] \in Numbers,
         NEW c \in Byte, FollowsAt(text, n, Char2String(c))
  PROVE  bytes[n + Len(Char2String(c))] = Append(bytes[n - 1], c)
<1>0. PICK numbers \in Numbers : numbers = bytes[n - 1]
  OBVIOUS
<1> DEFINE b == Append(numbers, 0)
<1>1. bytes[n] = b
  BY <1>0 DEF ReadFrom, WithChar, DotAt
<1>2. Fresh(b)
  <2>1. numbers \in Seq(Nat) /\ Len(numbers) \in Nat
    BY DEF Numbers
  <2> QED BY <2>1 DEF Fresh, Numbers
<1>3. WithLast(b, c) = Append(numbers, c)
  <2>1. numbers \in Seq(Nat) /\ Len(numbers) \in Nat
    BY DEF Numbers
  <2>2. c \in Nat
    BY DEF Byte
  <2>3. /\ b \in Seq(Nat) /\ Len(b) = Len(numbers) + 1
        /\ \A i \in 1 .. Len(numbers) : b[i] = numbers[i]
    BY <2>1
  <2> DEFINE x == Append(numbers, c)   y == [b EXCEPT ![Len(b)] = c]
  <2>4. /\ x \in Seq(Nat) /\ Len(x) = Len(numbers) + 1 /\ x[Len(numbers) + 1] = c
        /\ \A i \in 1 .. Len(numbers) : x[i] = numbers[i]
    BY <2>1, <2>2
  <2> HIDE DEF x, b
  <2>5. Len(b) \in 1 .. Len(b)
    BY <2>1, <2>3
  <2>6. /\ y \in Seq(Nat) /\ Len(y) = Len(b)
        /\ \A i \in 1 .. Len(b) : y[i] = IF i = Len(b) THEN c ELSE b[i]
    BY <2>2, <2>3, <2>5, ExceptSeq
  <2> HIDE DEF y
  <2>7. \A i \in 1 .. Len(x) : x[i] = y[i]
    <3> SUFFICES ASSUME NEW i \in 1 .. Len(numbers) + 1 PROVE x[i] = y[i]
      BY <2>4
    <3>1. CASE i = Len(numbers) + 1
      BY <2>1, <2>3, <2>4, <2>6, <3>1
    <3>2. CASE i \in 1 .. Len(numbers)
      BY <2>1, <2>3, <2>4, <2>6, <3>2
    <3>3. Len(numbers) \in Nat
      BY <2>1
    <3> QED BY <3>1, <3>2, <3>3
  <2>8. Len(x) = Len(y)
    BY <2>3, <2>4, <2>6
  <2>9. x = y
    BY <2>4, <2>6, <2>7, <2>8, SeqEqual
  <2> QED BY <2>9 DEF x, y, WithLast
<1> HIDE DEF b
<1>4. bytes[n + Len(Char2String(c))] = WithLast(b, c)
  BY <1>1, <1>2, ByteRead
<1> QED BY <1>0, <1>3, <1>4

\* One number more.
LEMMA NextOf ==
  ASSUME NEW in \in [1 .. 4 -> Byte], NEW k \in 1 .. 3, NEW numbers, FirstOf(in, k, numbers)
  PROVE  FirstOf(in, k + 1, Append(numbers, in[k + 1]))
<1>1. numbers \in Seq(Nat) /\ Len(numbers) = k
  BY DEF FirstOf, Numbers
<1>2. PICK j : j = k + 1 /\ j \in 1 .. 4 /\ in[j] \in Nat
  BY DEF Byte
<1>3. PICK c, x : c \in Nat /\ c = in[j] /\ x = Append(numbers, c)
  BY <1>2
<1>4. /\ x \in Seq(Nat) /\ Len(x) = Len(numbers) + 1 /\ x[Len(numbers) + 1] = c
      /\ \A i \in 1 .. Len(numbers) : x[i] = numbers[i]
  BY <1>1, <1>3
<1>5. Len(x) = j /\ x[j] = in[j] /\ \A i \in 1 .. k : x[i] = numbers[i]
  BY <1>1, <1>2, <1>3, <1>4
<1>6. x # <<>> /\ \A i \in 1 .. j : x[i] = in[i]
  BY <1>2, <1>5 DEF FirstOf
<1> QED BY <1>2, <1>3, <1>4, <1>5, <1>6 DEF FirstOf, Numbers

\* in_aton reads back what in_ntoa writes between the quotes.
THEOREM InAtonOfDotted ==
  ASSUME NEW in \in [1 .. 4 -> Byte]
  PROVE  InAton(Dotted(in)) = in
<1> DEFINE s == Char2String(in[1])   t == Char2String(in[2])
           u == Char2String(in[3])   v == Char2String(in[4])
           text == Dotted(in)
           p == Len(s) + 1   q == Len(s) + Len(t) + 2
           r == Len(s) + Len(t) + Len(u) + 3   l == Len(text)
<1>1. \A i \in 1 .. 4 : in[i] \in Byte
  OBVIOUS
<1>2. PICK a, b, c, d \in 1 .. 3 :
        a = Len(s) /\ b = Len(t) /\ c = Len(u) /\ d = Len(v)
  BY <1>1, Char2StringCorrect
<1>3. IsDotted(text, s, t, u, v)
  BY DottedText
<1>4. text \in Seq(DottedChars)
  BY <1>3 DEF IsDotted
<1>5. PICK bytes \in [0 .. l -> Numbers] :
        /\ bytes[0] = <<0>>
        /\ ReadFrom(bytes, text)
        /\ InAton(text) = [i \in 1 .. 4 |-> IF i <= Len(bytes[l]) THEN bytes[l][i] ELSE 0]
  <2> HIDE DEF text
  <2> QED BY <1>4, InAtonReads DEF ReadFrom
<1> HIDE DEF s, t, u, v, text
<1>6. /\ p \in 1 .. l /\ q \in 1 .. l /\ r \in 1 .. l
      /\ Len(s) = p - 1 /\ p + Len(t) = q - 1 /\ q + Len(u) = r - 1 /\ r + Len(v) = l
  BY <1>2, <1>3 DEF IsDotted
<1>7. /\ FollowsAt(text, 0, s) /\ FollowsAt(text, p, t)
      /\ FollowsAt(text, q, u) /\ FollowsAt(text, r, v)
  BY <1>2, <1>3 DEF IsDotted, FollowsAt
<1>8. DotAt(text, p) /\ DotAt(text, q) /\ DotAt(text, r)
  BY <1>2, <1>3 DEF IsDotted, DotAt
<1>9. p \in Nat /\ q \in Nat /\ r \in Nat
  BY <1>2
<1>10. ReadFrom(bytes, text)
  BY <1>5
<1> HIDE DEF p, q, r, l
<1>11. PICK one : one = bytes[p - 1] /\ FirstOf(in, 1, one)
  <2>1. FollowsAt(text, 0, Char2String(in[1]))
    BY <1>7 DEF s
  <2>2. FirstOf(in, 1, bytes[Len(Char2String(in[1]))])
    BY <1>4, <1>5, <1>10, <2>1, FirstNumberRead
  <2> QED BY <1>6, <2>2 DEF s
<1>12. PICK two : two = bytes[q - 1] /\ FirstOf(in, 2, two)
  <2>1. one = bytes[p - 1] /\ bytes[p - 1] \in Numbers
    BY <1>11 DEF FirstOf
  <2>2. FollowsAt(text, p, Char2String(in[2])) /\ in[2] \in Byte
    BY <1>7 DEF t
  <2>3. bytes[p + Len(Char2String(in[2]))] = Append(bytes[p - 1], in[2])
    BY <1>4, <1>8, <1>9, <1>10, <2>1, <2>2, NextNumberRead, ZenonT(60)
  <2>4. FirstOf(in, 2, Append(one, in[2]))
    BY <1>11, NextOf
  <2> QED BY <1>6, <2>1, <2>3, <2>4 DEF t
<1>13. PICK three : three = bytes[r - 1] /\ FirstOf(in, 3, three)
  <2>1. two = bytes[q - 1] /\ bytes[q - 1] \in Numbers
    BY <1>12 DEF FirstOf
  <2>2. FollowsAt(text, q, Char2String(in[3])) /\ in[3] \in Byte
    BY <1>7 DEF u
  <2>3. bytes[q + Len(Char2String(in[3]))] = Append(bytes[q - 1], in[3])
    BY <1>4, <1>8, <1>9, <1>10, <2>1, <2>2, NextNumberRead, ZenonT(60)
  <2>4. FirstOf(in, 3, Append(two, in[3]))
    BY <1>12, NextOf
  <2> QED BY <1>6, <2>1, <2>3, <2>4 DEF u
<1>14. PICK four : four = bytes[l] /\ FirstOf(in, 4, four)
  <2>1. three = bytes[r - 1] /\ bytes[r - 1] \in Numbers
    BY <1>13 DEF FirstOf
  <2>2. FollowsAt(text, r, Char2String(in[4])) /\ in[4] \in Byte
    BY <1>7 DEF v
  <2>3. bytes[r + Len(Char2String(in[4]))] = Append(bytes[r - 1], in[4])
    BY <1>4, <1>8, <1>9, <1>10, <2>1, <2>2, NextNumberRead, ZenonT(60)
  <2>4. FirstOf(in, 4, Append(three, in[4]))
    BY <1>13, NextOf
  <2> QED BY <1>6, <2>1, <2>3, <2>4 DEF v
<1>15. InAton(text) = in
  <2>1. Len(four) = 4 /\ \A i \in 1 .. 4 : four[i] = in[i]
    BY <1>14 DEF FirstOf
  <2>2. InAton(text) = [i \in 1 .. 4 |-> four[i]]
    BY <1>5, <1>14, <2>1
  <2>3. in = [i \in 1 .. 4 |-> in[i]]
    OBVIOUS
  <2> QED BY <2>1, <2>2, <2>3
<1> QED BY <1>15 DEF text
=============
