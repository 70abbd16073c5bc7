------------------------------ MODULE CString ------------------------------
(***************************************************************************)
(* The C library's search in strings, as dealConf.c uses it.               *)
(***************************************************************************)
EXTENDS Naturals, Sequences

Occurs(t, s, i) ==
  i + Len(t) - 1 <= Len(s) /\ SubSeq(s, i, i + Len(t) - 1) = t

\* strstr finds t in s first at i, or not at all and i = 0.
Strstr(s, t, i) ==
  IF i = 0
    THEN \A j \in 1 .. Len(s) : ~Occurs(t, s, j)
    ELSE Occurs(t, s, i) /\ \A j \in 1 .. i - 1 : ~Occurs(t, s, j)
=============================================================================
