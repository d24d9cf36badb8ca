----------------------------- MODULE MCLibrary ------------------------------
(***************************************************************************)
(* Model of what the library computes and keeps in one process at a time,  *)
(* for TLC: a behaviour is one of Wire, of Json, of Segment, of Policy or  *)
(* of Manifest, whichever part says.                                       *)
(***************************************************************************)
EXTENDS Wire, Json, Segment, MCPolicy, MCManifest

-----------------------------------------------------------------------------
\* Json: strings with brackets, commas, quotes and escapes in them, in members
\* and elements before and behind what is looked for.

Unit(raw, means) == [raw |-> raw, means |-> means]
Str(units) == [is |-> "string", units |-> units]
Plain(c) == Unit(<<c>>, c)
EscapedQuote == Unit(<<Backslash, Quote>>, Quote)
EscapedBackslash == Unit(<<Backslash, Backslash>>, Backslash)
Unicode == Unit(<<Backslash, "u", "1", "1", "1", "1">>, "?")

Units == {Plain("{"), Plain("]"), Plain(","), EscapedQuote, EscapedBackslash, Unicode}
Strings == {Str(<< >>), Str(<<EscapedBackslash, EscapedQuote>>)} \cup {Str(<<u>>) : u \in Units}
Scalars == Strings \cup {[is |-> "number", n |-> n] : n \in 2..3} \cup {[is |-> "true"]}
Few == {[is |-> "number", n |-> 1], Str(<<Plain("}")>>)}

Upto2(S) == {<< >>} \cup {<<x>> : x \in S} \cup {<<x, y>> : x \in S, y \in S}
Array(seqs) == {[is |-> "array", of |-> s] : s \in seqs}
Object(seqs) == {[is |-> "object", of |-> s] : s \in seqs}
Members(values) == [name : {"a", "b"}, value : values]
Long(n) == [i \in 1..n |-> Str(<<Plain("a")>>)]

Values == Scalars \cup Array(Upto2(Few) \cup {Long(3), Long(4)})
                  \cup Object({<< >>} \cup {<<m>> : m \in Members(Few)})

\* What is looked for, with a neighbour before or behind it that has brackets,
\* quotes and elements of its own.
Near == Few \cup Array({Long(1), <<Str(<<EscapedQuote>>)>>}) \cup Object({<<m>> : m \in Members({Str(<<Plain("}")>>)})})
Paired(all, near) == {<< >>} \cup {<<x>> : x \in all} \cup {<<x, y>> : x \in all, y \in near}
                             \cup {<<x, y>> : x \in near, y \in all}
Documents == Object(Paired(Members(Values), Members(Near))) \cup Array(Paired(Values, Near))

-----------------------------------------------------------------------------
VARIABLE part

LibraryInit ==
    /\ part \in {"wire", "json", "segment", "policy", "manifest"}
    /\ WireInit /\ JsonInit /\ SegmentInit /\ PolicyInit /\ Init
    /\ part # "policy" => table = BrokerTable

LibraryNext ==
    \/ part = "wire" /\ WireNext /\ UNCHANGED <<part, call, segmentVars, policyVars, vars>>
    \/ part = "json" /\ JsonNext /\ UNCHANGED <<part, wireVars, segmentVars, policyVars, vars>>
    \/ part = "segment" /\ SegmentNext /\ UNCHANGED <<part, wireVars, call, policyVars, vars>>
    \/ part = "policy" /\ PolicyNext /\ UNCHANGED <<part, wireVars, call, segmentVars, vars>>
    \/ part = "manifest" /\ Next /\ UNCHANGED <<part, wireVars, call, segmentVars, policyVars>>

LibrarySpec == LibraryInit /\ [][LibraryNext]_<<part, wireVars, call, segmentVars, policyVars, vars>>
=============================================================================
