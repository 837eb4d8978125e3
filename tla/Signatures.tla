----------------------------- MODULE Signatures -----------------------------
(***************************************************************************)
(* Signature: the name of a function and the types of its arguments, from  *)
(* a text and back, and the test of values against it.  A text is its      *)
(* words, brackets and commas; a word may be empty.                        *)
(***************************************************************************)
EXTENDS Naturals, Sequences, FiniteSets, SequencesExt, Subsequences

Count(text, word) == Cardinality({i \in DOMAIN text : text[i] = word})

\* One bracket of each kind, something in front of the first, nothing behind the last
Valid(text) ==
  /\ Count(text, "(") = 1 /\ Count(text, ")") = 1
  /\ text[1] \notin {"(", ""} /\ text[Len(text)] = ")"

\* What is between the brackets is cut at the commas; if that is nothing, there
\* are no arguments.
CutAtCommas(words) ==
  IF words = <<"">> THEN <<>> ELSE Only(words, LAMBDA word : word # ",")

\* A signature made from a text: what is not valid has no name and no arguments.
Parse(text) ==
  IF Valid(text)
  THEN [name |-> text[1], args |-> CutAtCommas(SubSeq(text, 3, Len(text) - 1))]
  ELSE [name |-> "", args |-> <<>>]

\* parse() of a signature that has a text already: of what is not valid, the
\* arguments are cleared and the name stays.
Reparse(sig, text) == IF Valid(text) THEN Parse(text) ELSE [sig EXCEPT !.args = <<>>]

\* toString()
ToText(sig) ==
  <<sig.name, "(">>
    \o (IF sig.args = <<>> THEN <<>>
        ELSE [i \in 1 .. 2 * Len(sig.args) - 1 |->
                IF i % 2 = 1 THEN sig.args[(i + 1) \div 2] ELSE ","])
    \o <<")">>

\* test(): the values are of the types of the arguments; a string passes for
\* characters, and anything for a variant.
Test(args, values) ==
  /\ Len(args) = Len(values)
  /\ \A i \in DOMAIN args :
       \/ args[i] = "QVariant"
       \/ values[i].type = "QString" /\ args[i] \in {"char*", "const char*"}
       \/ values[i].type = args[i]
=============================================================================
