------------------------------ MODULE DealConf ------------------------------
(***************************************************************************)
(* The configuration: readConf, parseConf and extract of                   *)
(* src/src/dealConf.c, which run once in init, and initNetFilter and       *)
(* releaseNetFilter of src/src/netFilter.c, which act on the result.       *)
(*                                                                         *)
(* A text is a sequence of characters; in memory it ends at the first Nul. *)
(* The result buffers lie one after the other, in an order that is the     *)
(* compiler's; what lies behind them is not modelled.  A file that fills   *)
(* data is read on into whatever lies behind data.                         *)
(***************************************************************************)
EXTENDS CString, SequencesExt

CONSTANTS
  Names,          \* element names, in the order parseConf looks for them;
                  \* the first is "direction"
  Files,          \* configurations: sequences of [name, value]
  DataMax,        \* size of the buffer data
  Behind,         \* texts that may lie behind it
  CONTENTMAXLEN,  \* size of a result buffer
  Stride,         \* distance of two of them
  Nul             \* '\0'

Fields == DOMAIN Names

OpenTag(name) == <<"<">> \o name \o <<">">>
CloseTag(name) == <<"<", "/">> \o name \o <<">">>

Element(e) == OpenTag(e.name) \o e.value \o CloseTag(e.name)

\* The text of a file.
Render(f) == FlattenSeq([i \in DOMAIN f |-> Element(f[i])])

\* A name is a word.
Plain(name) == name # <<>> /\ Range(name) \cap {"<", "/", ">"} = {}

ASSUME NamesAssumption ==
  /\ Names \in Seq(Seq(STRING)) /\ Names # <<>>
  /\ \A i \in Fields : Plain(Names[i]) /\ Len(Names[i]) + 3 <= CONTENTMAXLEN
  /\ \A i, j \in Fields : Names[i] = Names[j] => i = j

ASSUME TextsAssumption ==
  /\ Files \subseteq Seq([name : Seq(STRING), value : Seq(STRING)])
  /\ Behind \subseteq Seq(STRING)

ASSUME LayoutAssumption ==
  /\ CONTENTMAXLEN \in Nat \ {0} /\ DataMax \in Nat
  /\ Stride \in Nat /\ Stride >= CONTENTMAXLEN

VARIABLES
  pc,         \* "readConf", "parseConf", "initNetFilter", "loaded", "unloaded",
              \* "fault": fini faulted in nf_unregister_hook
  file,       \* the configuration file
  data,       \* its text
  field,      \* the element parseConf looks for next
  base,       \* where each result buffer begins
  mem,        \* the result buffers
  registered  \* the hook is registered

vars == <<pc, file, data, field, base, mem, registered>>

\* The string in the buffer of field i.
StringAt(i) ==
  LET nuls == {a \in DOMAIN mem : a >= base[i] /\ mem[a] = Nul}
      end == CHOOSE a \in nuls : \A b \in nuls : a <= b
  IN  SubSeq(mem, base[i], end - 1)

Init ==
  /\ pc = "readConf" /\ field = 1 /\ registered = FALSE
  /\ file \in Files /\ data = <<>>
  /\ \E p \in {q \in [Fields -> Fields] : IsInjective(q)} :
       base = [i \in Fields |-> (p[i] - 1) * Stride + 1]
  /\ mem = [a \in 1 .. Len(Names) * Stride |-> Nul]

----------------------------------------------------------------------------
\* vfs_read: what strstr finds from data on, up to a Nul.
Read(text) ==
  IF Len(text) < DataMax THEN {text}
  ELSE {SubSeq(text, 1, DataMax) \o tail : tail \in Behind}

\* Without a file that can be opened init returns 1, which the kernel takes
\* for success: the module stays, without a hook.
ReadConf ==
  /\ pc = "readConf"
  /\ \/ pc' = "parseConf" /\ data' \in Read(Render(file))
     \/ pc' = "loaded" /\ UNCHANGED data
  /\ UNCHANGED <<file, field, base, mem, registered>>

Position(s, t) == CHOOSE i \in 0 .. Len(s) : Strstr(s, t, i)

\* What is between the first opening tag and the first closing tag after it,
\* nothing when one is missing.
Found(text, name) ==
  LET open == Position(text, OpenTag(name))
      rest == SubSeq(text, open + Len(OpenTag(name)), Len(text))
  IN  IF open = 0 THEN <<>> ELSE SubSeq(rest, 1, Position(rest, CloseTag(name)) - 1)

\* So many of n characters are copied.
Copied(n) == IF n >= CONTENTMAXLEN THEN CONTENTMAXLEN - 1 ELSE n

\* The text, as much of it as is copied, from address a on, and a Nul where
\* all of it would end.
Stored(a, text) ==
  [b \in DOMAIN mem |->
     IF b \in a .. a + Copied(Len(text)) - 1 THEN text[b - a + 1]
     ELSE IF b = a + Len(text) THEN Nul ELSE mem[b]]

ExtractPrefix(a, name) ==   \* mutant: the opening tag is looked for without ">"
  LET open == Position(data, <<"<">> \o name)
      rest == SubSeq(data, open + Len(OpenTag(name)), Len(data))
  IN  Stored(a, IF open = 0 THEN <<>>
                ELSE SubSeq(rest, 1, Position(rest, CloseTag(name)) - 1))

\* extract(dest, name, data, 0, CONTENTMAXLEN), dest being at a.
Extract(a, name) ==
  Stored(a, IF Len(name) + 3 > CONTENTMAXLEN THEN <<>> ELSE Found(data, name))

ParseConfOneMore ==   \* mutant: one element more than there are
  /\ pc = "parseConf"
  /\ mem' = Extract(base[field], Names[field])
  /\ field' = field + 1
  /\ pc' = IF field > Len(Names) THEN "initNetFilter" ELSE "parseConf"
  /\ UNCHANGED <<file, data, base, registered>>

ParseConf ==
  /\ pc = "parseConf"
  /\ mem' = Extract(base[field], Names[field])
  /\ field' = field + 1
  /\ pc' = IF field = Len(Names) THEN "initNetFilter" ELSE "parseConf"
  /\ UNCHANGED <<file, data, base, registered>>

OneWay == StringAt(1) = <<"=", ">">>

InitNetFilterTwoWay ==   \* mutant: both directions are hooked, one is released
  /\ pc = "initNetFilter"
  /\ registered' \in {FALSE, StringAt(1) \in {<<"=", ">">>, <<"<", "=", ">">>}}
  /\ pc' = "loaded"
  /\ UNCHANGED <<file, data, field, base, mem>>

\* nf_register_hook may fail (a signal to insmod), which nobody looks at.
InitNetFilter ==
  /\ pc = "initNetFilter"
  /\ registered' \in {FALSE, OneWay}
  /\ pc' = "loaded"
  /\ UNCHANGED <<file, data, field, base, mem>>

\* fini compares direction again.  What nf_unregister_hook does with a hook that
\* was never registered depends on the kernel: it warns, or faults on its list.
ReleaseNetFilter ==
  /\ pc = "loaded"
  /\ registered' = (registered /\ ~OneWay)
  /\ \/ pc' = "unloaded"
     \/ OneWay /\ ~registered /\ pc' = "fault"
  /\ UNCHANGED <<file, data, field, base, mem>>

Next == ReadConf \/ ParseConf \/ InitNetFilter \/ ReleaseNetFilter

Spec == Init /\ [][Next]_vars

----------------------------------------------------------------------------
(* Properties.                                                             *)

\* Every variable stays in its range; parseConf works on one of the eight
\* buffers, and each holds a terminated string (dealConf.c:125-148).
TypeOK ==
  /\ pc \in {"readConf", "parseConf", "initNetFilter",
             "loaded", "unloaded", "fault"}
  /\ file \in Files
  /\ field \in 1 .. Len(Names) + 1
  /\ pc = "parseConf" => field \in Fields
  /\ registered \in BOOLEAN
  /\ \A i \in Fields :
       \E a \in base[i] .. base[i] + CONTENTMAXLEN - 1 : mem[a] = Nul

\* The file's first element of that name.
First(name, i) ==
  /\ i \in DOMAIN file /\ file[i].name = name
  /\ \A j \in 1 .. i - 1 : file[j].name # name

\* What a buffer of text keeps.
Cut(text) == SubSeq(text, 1, IF Len(text) < CONTENTMAXLEN THEN Len(text)
                             ELSE CONTENTMAXLEN - 1)

\* No tag of an element that parseConf looks for is in the text.
Tagless(text) ==
  \A i \in Fields, p \in DOMAIN text :
    ~Occurs(OpenTag(Names[i]), text, p) /\ ~Occurs(CloseTag(Names[i]), text, p)

\* A file whose elements have names, and values without a tag or a Nul that
\* are shorter than the distance of two buffers.  If it fills data, what ends
\* an element that was cut comes soon behind it.
Tame(f) ==
  /\ \A e \in Range(f) :
       /\ Plain(e.name)
       /\ Tagless(e.value) /\ Nul \notin Range(e.value) /\ Len(e.value) < Stride
  /\ Len(Render(f)) >= DataMax =>
       \A text \in Read(Render(f)), i \in Fields : Len(Found(text, Names[i])) < Stride

\* After parseConf each buffer holds what the file's first element of its name
\* says, cut to the buffer's size, if data holds that element; and nothing, if
\* data holds the whole file and there is none.  Neither the order of the
\* elements, nor one name being part of another, nor a value that looks like a
\* tag, nor a neighbouring buffer, nor what lies behind data makes a difference
\* (dealConf.c:51, 118-148).
ParsedAsConfigured ==
  pc = "initNetFilter" =>
    \A i \in Fields :
      /\ \A j \in DOMAIN file :
           First(Names[i], j) /\ Len(Render(SubSeq(file, 1, j))) <= DataMax
             => StringAt(i) = Cut(file[j].value)
      /\ (\A e \in Range(file) : e.name # Names[i]) /\ Len(Render(file)) < DataMax
           => StringAt(i) = <<>>

\* No hook is left behind when the module is gone, although fini does not
\* remember whether it was registered (netFilter.c:42-60).
NoHookLeftBehind == pc = "unloaded" => ~registered
=============================================================================
