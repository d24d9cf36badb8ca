-------------------------------- MODULE Json --------------------------------
(***************************************************************************)
(* The JSON reader of src/core/json_min.c, which builds no tree but finds  *)
(* members and elements by scanning the text, and the lookups of           *)
(* src/supervisor/pipeline_config.c that are made of it.                   *)
(*                                                                         *)
(* A text is a sequence of symbols: brackets, a quote, a backslash, comma, *)
(* colon, space, letters and digits.  true, false and null are the one     *)
(* symbol "true", a number is a run of digits.  Positions count from 1, so *)
(* a span [off, len) of the code is off + 1 .. off + len here, and 0 is    *)
(* the code's -1.  A text the scan would leave has no symbol to read there *)
(* and ends the run.                                                       *)
(***************************************************************************)
EXTENDS Integers, Sequences, SequencesExt, TLC

CONSTANTS
    StringCap,   \* out_cap of the caller that decodes a string
    NumberCap,   \* a number this long is refused (64)
    ListCap,     \* sizeof sensor_ids_csv (256)
    Document     \* the trees that are written out and read

Quote == "quote"
Backslash == "backslash"

-----------------------------------------------------------------------------
\* The position behind the whitespace at p.
SkipSpace(text, p) ==
    LET skip[i \in 1..(Len(text) + 1)] ==
            IF i <= Len(text) /\ text[i] = " " THEN skip[i + 1] ELSE i
    IN  skip[p]

\* The symbol at p, if any.
At(text, p, symbol) == p <= Len(text) /\ text[p] = symbol

\* Mutant of SkipString: a backslash is skipped, not what it escapes.
SkipString_NoEscape(text, p) ==
    LET end[i \in 1..(Len(text) + 1)] ==
            CASE i > Len(text) -> 0
              [] At(text, i, Quote) -> i + 1
              [] OTHER -> end[i + 1]
    IN  IF At(text, p, Quote) THEN end[p + 1] ELSE 0

\* skip_string: the position behind the string at p.
SkipString(text, p) ==
    LET end[i \in 1..(Len(text) + 1)] ==
            CASE i > Len(text) -> 0
              [] At(text, i, Quote) -> i + 1
              [] At(text, i, Backslash) ->
                    IF i = Len(text) THEN 0
                    ELSE IF text[i + 1] # "u" THEN end[i + 2]
                    ELSE IF i + 5 > Len(text) THEN 0 ELSE end[i + 6]
              [] OTHER -> end[i + 1]
    IN  IF At(text, p, Quote) THEN end[p + 1] ELSE 0

\* The position behind the object or array at p: only brackets of its own kind
\* count, and none in a string.
SkipNested(text, p) ==
    LET open == text[p]
        close == IF open = "{" THEN "}" ELSE "]"
        walk[i \in 1..(Len(text) + 1), depth \in 0..Len(text)] ==
            IF depth = 0 THEN i
            ELSE IF i > Len(text) THEN 0
            ELSE CASE text[i] = Quote ->
                        LET after == SkipString(text, i) IN IF after = 0 THEN 0 ELSE walk[after, depth]
                   [] text[i] = open -> walk[i + 1, depth + 1]
                   [] text[i] = close -> walk[i + 1, depth - 1]
                   [] OTHER -> walk[i + 1, depth]
    IN  walk[p + 1, 1]

\* The position behind the digits at p.
SkipNumber(text, p) ==
    LET end[i \in 1..(Len(text) + 1)] == IF At(text, i, "1") THEN end[i + 1] ELSE i
    IN  end[p]

\* scan_value: the position behind the value at p, or behind the whitespace at p.
ScanValue(text, p) ==
    LET q == SkipSpace(text, p)
    IN  IF q > Len(text) THEN 0
        ELSE CASE text[q] = Quote -> SkipString(text, q)
               [] text[q] \in {"{", "["} -> SkipNested(text, q)
               [] text[q] = "true" -> q + 1
               [] text[q] = "1" -> SkipNumber(text, q)
               [] OTHER -> 0

NotFound == [found |-> FALSE, string |-> FALSE, body |-> << >>]

\* span_from_value: a string without its quotes, anything else as it is.
Span(text, start, end) ==
    IF At(text, start, Quote)
    THEN [found |-> TRUE, string |-> TRUE, body |-> SubSeq(text, start + 1, end - 2)]
    ELSE [found |-> TRUE, string |-> FALSE, body |-> SubSeq(text, start, end - 1)]

\* json_object_find: member by member, each with its value scanned, up to the
\* first whose name is key.
ObjectFind(text, key) ==
    LET first == SkipSpace(text, 1)
        member[i \in 1..(Len(text) + 1)] ==
            LET name == SkipSpace(text, i)
                colon == SkipSpace(text, SkipString(text, name))
                start == SkipSpace(text, colon + 1)
                end == ScanValue(text, start)
                next == SkipSpace(text, end)
            IN  IF ~At(text, name, Quote) \/ SkipString(text, name) = 0 THEN NotFound
                ELSE IF ~At(text, colon, ":") \/ end = 0 THEN NotFound
                ELSE IF SubSeq(text, name + 1, SkipString(text, name) - 2) = key
                     THEN Span(text, start, end)
                ELSE IF At(text, next, ",") THEN member[next + 1] ELSE NotFound
    IN  IF At(text, first, "{") THEN member[first + 1] ELSE NotFound

\* The spans of an array's elements up to its end or to what is no element,
\* and whether it was closed.
ElementSpans(text) ==
    LET first == SkipSpace(text, 1)
        from[i \in 1..(Len(text) + 1)] ==
            LET start == SkipSpace(text, i)
                end == ScanValue(text, start)
                next == SkipSpace(text, end)
                rest == from[next + 1]
            IN  IF start > Len(text) THEN [spans |-> << >>, closed |-> FALSE]
                ELSE IF text[start] = "]" THEN [spans |-> << >>, closed |-> TRUE]
                ELSE IF end = 0 THEN [spans |-> << >>, closed |-> FALSE]
                ELSE IF At(text, next, ",")
                     THEN [rest EXCEPT !.spans = <<Span(text, start, end)>> \o rest.spans]
                ELSE [spans |-> <<Span(text, start, end)>>, closed |-> At(text, next, "]")]
    IN  IF At(text, first, "[") THEN from[first + 1] ELSE [spans |-> << >>, closed |-> FALSE]

\* json_array_count, -1 for what is no complete array, and json_array_get.
ArrayCount(text) == IF ElementSpans(text).closed THEN Len(ElementSpans(text).spans) ELSE -1
ArrayGet(text, index) ==
    LET spans == ElementSpans(text).spans IN IF index < Len(spans) THEN spans[index + 1] ELSE NotFound

\* What follows a backslash, and the symbol it stands for.
Escape == (Quote :> Quote) @@ (Backslash :> Backslash) @@ ("/" :> "/") @@ ("n" :> "newline")

Undecodable == <<"undecodable">>

\* json_decode_string: an unknown or unfinished escape fails, as does a string
\* that leaves no room for its terminator.
DecodeString(body) ==
    LET decode[i \in 1..(Len(body) + 1)] ==
            IF i > Len(body) THEN << >>
            ELSE IF body[i] # Backslash THEN <<body[i]>> \o decode[i + 1]
            ELSE IF At(body, i + 1, "u") /\ i + 5 <= Len(body) THEN <<"?">> \o decode[i + 6]
            ELSE IF i < Len(body) /\ body[i + 1] \in DOMAIN Escape
                 THEN <<Escape[body[i + 1]]>> \o decode[i + 2]
            ELSE Undecodable
    IN  IF Last(<<"">> \o decode[1]) # "undecodable" /\ Len(decode[1]) < StringCap
        THEN decode[1] ELSE Undecodable

\* json_parse_number on a span that is no string: 0 unless it starts as a
\* number, and when it is too long for its buffer.
Parses(body) == At(body, 1, "1") /\ Len(body) < NumberCap

\* pipeline_config.c: what a name stands for in a section, if that is there and
\* is no string; and a number, the default unless it is found, of that type and
\* accepted.
Within(section, key) ==
    IF section.found /\ ~section.string THEN ObjectFind(section.body, key) ELSE NotFound
NumberOr(default, span) ==
    IF span.found /\ ~span.string /\ Parses(span.body) THEN Len(span.body) ELSE default
GetNum(text, section, key, default) == NumberOr(default, Within(ObjectFind(text, section), key))

\* The elements of a list, if it is one; its strings, those that cannot be
\* decoded left out.
Listed(span) == IF span.found /\ ~span.string /\ ArrayCount(span.body) > 0
                THEN ElementSpans(span.body).spans ELSE << >>
Decoded(spans) == SelectSeq([i \in DOMAIN spans |->
                               IF spans[i].string THEN DecodeString(spans[i].body) ELSE Undecodable],
                            LAMBDA s : s # Undecodable)

\* The names one behind the other, a comma before each but at the start.
Joined(names) ==
    FoldLeft(LAMBDA csv, name : csv \o (IF csv = << >> THEN << >> ELSE <<",">>) \o name, << >>, names)

\* The names in an array of ListCap: snprintf cuts what does not fit, but the
\* offset moves on by the length uncut, and past the end of the array anything
\* may happen.
Overrun == <<"overrun">>
Cut(csv) == IF Len(csv) < ListCap THEN csv ELSE SubSeq(csv, 1, ListCap - 1)
InArray(names) ==
    IF names # << >> /\ Len(Joined(Front(names))) > ListCap THEN Overrun ELSE Cut(Joined(names))
GetList(text, key) == InArray(Decoded(Listed(ObjectFind(text, key))))

-----------------------------------------------------------------------------
\* Documents as trees: [is, ...] with is "number" (n digits), "true", "string"
\* (units, each with its raw form and what it stands for), "array" (of values)
\* and "object" (of members); and how they are written, with or without spaces.
RECURSIVE Written(_, _)
Written(tree, space) ==
    LET flat(parts) == FlattenSeq(parts)
        between(parts) == flat([i \in DOMAIN parts |->
                                  parts[i] \o space \o IF i < Len(parts) THEN <<",">> \o space ELSE << >>])
    IN  CASE tree.is = "number" -> [i \in 1..tree.n |-> "1"]
          [] tree.is = "true" -> <<"true">>
          [] tree.is = "string" -> <<Quote>> \o flat([i \in DOMAIN tree.units |-> tree.units[i].raw]) \o <<Quote>>
          [] tree.is = "array" ->
                <<"[">> \o space \o between([i \in DOMAIN tree.of |-> Written(tree.of[i], space)]) \o <<"]">>
          [] tree.is = "object" ->
                <<"{">> \o space
                \o between([i \in DOMAIN tree.of |->
                              <<Quote, tree.of[i].name, Quote>> \o space \o <<":">> \o space
                              \o Written(tree.of[i].value, space)])
                \o <<"}">>

VARIABLE call   \* the last call: the document, how it was written, what was asked and answered

NoCall == [asks |-> "nothing"]

JsonInit == call = NoCall

Questions == [asks : {"find", "list"}, key : {"a", "b"}] \cup [asks : {"number"}, section : {"a"}, key : {"b"}]
             \cup [asks : {"get"}, index : 0..2] \cup {[asks |-> "count"]}

Lookup(text, q) ==
    CASE q.asks = "find" -> ObjectFind(text, <<q.key>>)
      [] q.asks = "number" -> GetNum(text, <<q.section>>, <<q.key>>, 0)
      [] q.asks = "list" -> GetList(text, <<q.key>>)
      [] q.asks = "count" -> ArrayCount(text)
      [] q.asks = "get" -> ArrayGet(text, q.index)

\* One lookup in a document.
Ask ==
    /\ call = NoCall
    /\ \E tree \in Document, space \in {<< >>, <<" ">>}, q \in Questions :
         call' = [asks |-> q.asks, question |-> q, tree |-> tree, space |-> space,
                  answer |-> Lookup(Written(tree, space), q)]

Return == call # NoCall /\ call' = NoCall

JsonNext == Ask \/ Return

-----------------------------------------------------------------------------
\* What the question asks for in the tree.
Member(tree, key) ==
    LET hits == {i \in DOMAIN tree.of : tree.of[i].name = key}
    IN  IF tree.is # "object" \/ hits = {} THEN {}
        ELSE {tree.of[CHOOSE i \in hits : \A j \in hits : i <= j].value}

SpanOf(tree, space) ==
    [found |-> TRUE, string |-> tree.is = "string",
     body |-> LET text == Written(tree, space)
              IN  IF tree.is = "string" THEN SubSeq(text, 2, Len(text) - 1) ELSE text]

Meaning(tree) == [i \in DOMAIN tree.units |-> tree.units[i].means]

Wanted(tree, q, space) ==
    LET value == IF q.asks \in {"find", "list"} THEN Member(tree, q.key)
                 ELSE IF q.asks = "number" THEN UNION {Member(v, q.key) : v \in Member(tree, q.section)}
                 ELSE IF q.asks = "get" /\ tree.is = "array" /\ q.index < Len(tree.of)
                 THEN {tree.of[q.index + 1]} ELSE {}
        one == CHOOSE v \in value : TRUE
        fits(v) == v.is = "string" /\ Len(v.units) < StringCap
    IN  CASE q.asks = "count" -> IF tree.is = "array" THEN Len(tree.of) ELSE -1
          [] q.asks \in {"find", "get"} -> IF value = {} THEN NotFound ELSE SpanOf(one, space)
          [] q.asks = "number" -> IF value = {} \/ one.is # "number" \/ one.n >= NumberCap THEN 0
                                  ELSE one.n
          [] q.asks = "list" -> IF value = {} \/ one.is # "array" THEN << >>
                                ELSE LET kept == SelectSeq(one.of, fits)
                                     IN  Joined([i \in DOMAIN kept |-> Meaning(kept[i])])

\* Scanning a well-formed document finds what a parser would: the first member
\* of that name and no member of a nested object, whatever brackets, quotes and
\* commas the strings before it hold; the elements and their number; the
\* configured numbers, and the lists that fit, with their strings decoded.
ScanningIsParsing ==
    call # NoCall =>
        LET wanted == Wanted(call.tree, call.question, call.space)
        IN  (call.asks = "list" => Len(wanted) < ListCap) => call.answer = wanted
=============================================================================
