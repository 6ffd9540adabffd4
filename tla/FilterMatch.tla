----------------------------- MODULE FilterMatch -----------------------------
(***************************************************************************)
(* Which filter a message meets: Filter::Set takes the source of a filter  *)
(* apart, Filter::Compare compares a part with a part of the message's     *)
(* address, FilterFind takes the first filter in m_Filters that fits in    *)
(* all parts.  Texts are sequences of characters.                          *)
(*                                                                         *)
(* Two empty words are compared beyond their ends, which is undefined; the *)
(* parts of a message are not empty here (one from "*" has empty ones).    *)
(***************************************************************************)
EXTENDS Filters

CONSTANTS
  ToLower,         \* a function on characters
  SampleSources,   \* sources of filters
  SampleMessages   \* what is compared of a message

-----------------------------------------------------------------------------
(* The code *)

AnyWord == <<"*">>

\* string::find, with 0 for npos.
Find(w, c, from) == LET at == {i \in from .. Len(w) : w[i] = c} IN IF at = {} THEN 0 ELSE Min(at)

\* Filter::Set: vendor-module.instance:device; what the source leaves out is "*".
Set(source) ==
  LET minus == Find(source, "-", 1)
      point == IF minus = 0 THEN 0 ELSE Find(source, ".", minus + 1)
      colon == IF point = 0 THEN 0 ELSE Find(source, ":", point + 1)
      Part(before, after) ==
        SubSeq(source, before + 1, IF after = 0 THEN Len(source) ELSE after - 1)
  IN [vendor   |-> IF source = <<>> THEN AnyWord ELSE Part(0, minus),
      module   |-> IF minus = 0 THEN AnyWord ELSE Part(minus, point),
      instance |-> IF point = 0 THEN AnyWord ELSE Part(point, colon),
      device   |-> IF colon = 0 THEN AnyWord ELSE Part(colon, 0)]

\* What word[pos] is: the character behind the last one is 0.
CharAt(w, i) == IF i <= Len(w) THEN w[i] ELSE "nul"

Same(c, d) == ToLower[c] = ToLower[d]

Star(w1, w2, i) == CharAt(w1, i) = "*" \/ CharAt(w2, i) = "*"

\* Filter::Compare, the position at which its loop ends: a star, a difference or an end.
LastCompared(w1, w2) ==
  Min({i \in DOMAIN w2 :
         \/ Star(w1, w2, i)
         \/ ~Same(CharAt(w1, i), CharAt(w2, i))
         \/ i \in {Len(w1), Len(w2)}})

\* mutated Compare
ComparePrefix(w1, w2) ==
  LET i == LastCompared(w1, w2)
  IN Star(w1, w2, i) \/ Same(CharAt(w1, i), CharAt(w2, i))

\* Filter::Compare: what is there decides.
Compare(w1, w2) ==
  LET i == LastCompared(w1, w2)
  IN Star(w1, w2, i) \/ (Same(CharAt(w1, i), CharAt(w2, i)) /\ Len(w1) = Len(w2))

\* FilterFind, with 0 for the null pointer.
FilterFind(set, m) ==
  LET fit == {n \in DOMAIN set : \A part \in DOMAIN m : Compare(set[n][part], m[part])}
  IN IF fit = {} THEN 0 ELSE Min(fit)

-----------------------------------------------------------------------------
(* What a source stands for *)

\* The ways to write a part of an address: in full, or with its end replaced by *.
Written(w) == {w} \cup {Append(SubSeq(w, 1, k), "*") : k \in 0 .. Len(w) - 1}

Join(x, c, y) == x \o <<c>> \o y

\* The texts xs, and those followed by c and one of ys.
With(xs, c, ys) == xs \cup {Join(x, c, y) : x \in xs, y \in ys}

\* The ways to write the sender of a message, in full or up to one of its parts.
SourcesOf(m) ==
  {<<>>} \cup
  With(Written(m.vendor), "-",
       With(Written(m.module), ".",
            With(Written(m.instance), ":", Written(m.device))))

\* The same text, in whatever letters.
SameText(s, t) == Len(s) = Len(t) /\ \A i \in DOMAIN s : Same(s[i], t[i])

Covers(source, m) == \E s \in SourcesOf(m) : SameText(s, source)

\* What is not empty and is written without a star, the end of a text and the characters of S.
Words(S) == Seq(DOMAIN ToLower \ (S \cup {"*", "nul"})) \ {<<>>}

StarsLast(w) == \A i \in DOMAIN w : w[i] = "*" => i = Len(w)

\* Case is a matter of letters, senders have the form vendor-module.instance:device, and a
\* star is the last character of its part.
ASSUME FilterMatchAssumption ==
  /\ \A c \in {"-", ".", ":", "*", "nul"} :
       c \in DOMAIN ToLower /\ \A d \in DOMAIN ToLower : Same(c, d) => c = d
  /\ SampleMessages \subseteq
       [vendor : Words({"-"}), module : Words({"."}), instance : Words({":"}), device : Words({})]
  /\ \A s \in SampleSources \cup Texts :
       /\ s \in Seq(DOMAIN ToLower \ {"nul"})
       /\ \A part \in DOMAIN Set(s) : StarsLast(Set(s)[part])

\* The senders each source stands for.
Covered == [s \in SampleSources \cup Texts |-> {m \in SampleMessages : Covers(s, m)}]

\* Every sample, as the only filter, is found for the messages it stands for.
SamplesFound == \A s \in SampleSources : Covered[s] = {m \in SampleMessages : FilterFind(<<Set(s)>>, m) = 1}

(***************************************************************************)
(* A message is recorded under the filter with the first name among those  *)
(* whose source is a way to write its sender, and is not recorded if there *)
(* is none: with the filters in force, also after a restart with a file    *)
(* that was cut, and with the samples, where parts are left out, cut,      *)
(* empty or in other letters and devices contain separators.               *)
(***************************************************************************)
FindsFirstThatCovers ==
  /\ SamplesFound
  /\ pc = "idle" =>
       LET set == [n \in DOMAIN filters |-> Set(filters[n].source)]
       IN \A m \in SampleMessages :
            LET covering == {n \in DOMAIN filters : m \in Covered[filters[n].source]}
            IN FilterFind(set, m) = IF covering = {} THEN 0 ELSE Min(covering)
=============================================================================
