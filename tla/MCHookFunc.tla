---------------------------- MODULE MCHookFunc ----------------------------
(***************************************************************************)
(* Instances of HookFunc for TLC: the payloads.                            *)
(***************************************************************************)
EXTENDS HookFunc, TLC

CONSTANTS cpu1, cpu2

MCChars == {OpenTag, CloseTag, "A", "B", "UDP", "TCP", "ICMP"}

\* A message B, alone and behind other text; another message, one that ends in
\* B; an empty one; a tag left open; a second message after the first; none.
MCBodies ==
  {<<OpenTag, "B", CloseTag>>, <<"A", OpenTag, "B", CloseTag>>,
   <<OpenTag, "A", CloseTag>>, <<OpenTag, "A", "B", CloseTag>>,
   <<OpenTag, CloseTag>>, <<OpenTag, "B">>, <<CloseTag, "B">>,
   <<OpenTag, "A", CloseTag, OpenTag, "B", CloseTag>>, <<"B">>, <<>>}

\* Two payloads, for two CPUs.
MCTwoBodies == {<<OpenTag, "B", CloseTag>>, <<"A">>}

MCOneBody == {<<OpenTag, "B", CloseTag>>}

MCTexts == {<<OpenTag, "B", CloseTag>>, <<"B">>}

MCOneText == {<<"B">>}

CpuSymmetry == Permutations(Cpus)
=============================================================================
