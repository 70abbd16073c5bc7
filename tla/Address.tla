------------------------------ MODULE Address ------------------------------
(***************************************************************************)
(* IPv4 addresses and their texts: char2string and in_ntoa of              *)
(* src/src/dealConf.c, which write them into reports, and the kernel's     *)
(* in_aton, which reads the configured ones.                               *)
(*                                                                         *)
(* An address is its four bytes in the order of the network; a text is a   *)
(* sequence of characters.                                                 *)
(***************************************************************************)
EXTENDS Integers, SequencesExt

Byte == 0 .. 255

Digits == <<"0", "1", "2", "3", "4", "5", "6", "7", "8", "9">>

\* n + '0'
Char(n) == Digits[n + 1]

\* The inverse of Char.
DigitValue(ch) == CHOOSE n \in 0 .. 9 : Char(n) = ch

Char2String(c) ==
  IF c >= 100 THEN <<Char(c \div 100), Char((c % 100) \div 10), Char(c % 10)>>
  ELSE IF c >= 10 THEN <<Char(c \div 10), Char(c % 10)>>
  ELSE <<Char(c)>>

Quote == "\""

Quoted(text) == <<Quote>> \o text \o <<Quote>>

\* What stands between the quotes.
Dotted(in) ==
  Char2String(in[1]) \o <<".">> \o Char2String(in[2]) \o <<".">>
    \o Char2String(in[3]) \o <<".">> \o Char2String(in[4])

InNtoaOfHost(in) ==   \* mutant: the bytes of ntohl(in)
  Quoted(Dotted([i \in 1 .. 4 |-> in[5 - i]]))

InNtoa(in) == Quoted(Dotted(in))

\* Up to four decimal numbers with dots between them; what is missing is 0.
InAton(text) ==
  LET bytes[n \in 0 .. Len(text)] ==   \* the numbers in the first n characters
        IF n = 0 THEN <<0>>
        ELSE IF text[n] = "." THEN Append(bytes[n - 1], 0)
        ELSE [bytes[n - 1] EXCEPT ![Len(bytes[n - 1])] = 10 * @ + DigitValue(text[n])]
      read == bytes[Len(text)]
  IN  [i \in 1 .. 4 |-> IF i <= Len(read) THEN read[i] ELSE 0]
=============================================================================
