----------------------------- MODULE MCDealConf -----------------------------
(***************************************************************************)
(* Instances of DealConf for TLC.  Three names stand for the eight, one    *)
(* being the beginning of another as content is of content_flag.           *)
(***************************************************************************)
EXTENDS DealConf

MCNames == <<<<"d">>, <<"c", "f">>, <<"c">>>>

Elements(values) == [name : Range(MCNames), value : values]

\* Up to three elements in any order, empty, missing or repeated.
MCShort == BoundedSeq(Elements({<<>>, <<"=", ">">>, <<"<", "=", ">">>, <<"x">>}), 3)

\* Nothing, and what ends an element that was cut: values stay short.
MCBehind == {<<>>, CloseTag(<<"c">>)}

\* Every one of these is what the theorem about ParsedAsConfigured asks for.
ASSUME ShortAreTame == Files = MCShort => \A f \in Files : Tame(f)

\* Values that reach the end of a buffer, and of the next one's distance.
MCLong ==
  BoundedSeq(Elements({<<"=", ">">>, [i \in 1 .. 6 |-> "x"], [i \in 1 .. 8 |-> "x"]}), 2)
=============================================================================
