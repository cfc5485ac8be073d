------------------------------ MODULE Redaction ------------------------------
(***************************************************************************)
(* The redaction of observed text (prog-core/src/redaction.rs) as a capture *)
(* of a command uses it (redact_run_chunks and redact_run_output_bytes of   *)
(* prog-cli/src/commands/run.rs).                                          *)
(*                                                                         *)
(* A text is a sequence of tokens: a sensitive name ("key"), one that       *)
(* redacts to the end of its line ("auth") or is a flag ("flag"), a name or *)
(* value of no interest ("word", "number"), a token of a vendor's format    *)
(* ("vendor"), separators, quotes, spaces, line ends, and the marker.       *)
(* Positions in a text stand for byte offsets; a range is [from, to).       *)
(* Backslash escapes and nested JSON values are abstracted.  A scan or a    *)
(* walk goes on in turns, as many as the text has positions or ranges.      *)
(***************************************************************************)
EXTENDS Naturals, Sequences, FiniteSets, SequencesExt

CONSTANTS
    Pieces,         \* what the command may write at once, sequences of tokens
    MaxWrites,      \* bound: the pieces written
    OtherStream     \* what it writes to standard error meanwhile

(* Characters. *)
TextMarker == "[REDACTED:observed_text_secret]"

TextKeys == {"key", "auth", "flag", "word", "number", "vendor"}
Whitespace == {" ", "newline"}
Tokens == TextKeys \union Whitespace \union {"=", ":", "quote", TextMarker}

ASSUME RedactionAssumption ==
    Pieces \subseteq Seq(Tokens) /\ OtherStream \in Seq(Tokens) /\ MaxWrites \in Nat

VARIABLES chunks, views

redactionVars == <<chunks, views>>

-----------------------------------------------------------------------------
IsSensitiveKey(key) == \E i \in DOMAIN key : key[i] \in {"key", "auth", "flag"}

(* consume_while: the first position from index on that has another token,   *)
(* or that has one of them.                                                  *)
ConsumeWhile(text, index, tokens) ==
    Min({i \in index .. Len(text) : text[i] \notin tokens} \union {Len(text) + 1})
ConsumeTo(text, index, tokens) ==
    Min({i \in index .. Len(text) : text[i] \in tokens} \union {Len(text) + 1})

Quote(text, i) == i <= Len(text) /\ text[i] = "quote"

(* quoted_token_end: behind the closing quote, or 0 when nothing closes it.  *)
QuotedTokenEnd(text, start) ==
    LET close == ConsumeTo(text, start + 1, {"quote"})
    IN  IF close > Len(text) THEN 0 ELSE close + 1

-----------------------------------------------------------------------------
(* Ranges of sensitive values. *)
NoRange == [from |-> 0, to |-> 0, wrap |-> FALSE]
Secret(from, to, wrap) == [from |-> from, to |-> to, wrap |-> wrap]

QuotedValueRange(text, start) ==
    LET end == QuotedTokenEnd(text, start)
    IN  Secret(start + 1, IF end = 0 THEN Len(text) + 1 ELSE end - 1, FALSE)

(* A JSON value, or all that is left when none can be read.                  *)
JsonValueRange(text, start) ==
    LET ended == start = Len(text) \/ text[start + 1] \in {" ", "newline", "quote", ":"}
        whole == text[start] = "number" /\ ended
    IN  Secret(start, IF whole THEN start + 1 ELSE Len(text) + 1, TRUE)

(* Markers that are there already are values too.                             *)
CountsUnlessMarked(text, range) ==                             \* faulty
    range.to > range.from /\ SubSeq(text, range.from, range.to - 1) # <<TextMarker>>
Counts(text, range) == range.to > range.from

(* A scan for a value: the position it is at, and what it has found.          *)
Scan(index, range) == [index |-> index, range |-> range]

(* next_quoted_sensitive_value: the next value of a quoted sensitive name.    *)
QuotedTurn(text, scan) ==
    LET index == scan.index
        end == QuotedTokenEnd(text, index)
        separator == ConsumeWhile(text, end, Whitespace)
        key == SubSeq(text, index + 1, end - 2)
        value == ConsumeWhile(text, separator + 1, Whitespace)
        range == IF Quote(text, value) THEN QuotedValueRange(text, value)
                                       ELSE JsonValueRange(text, value)
        next == IF Quote(text, value) /\ range.to <= Len(text)
                THEN range.to + 1 ELSE range.to
    IN  IF index > Len(text) \/ scan.range # NoRange THEN scan
        ELSE IF text[index] # "quote" \/ end = 0 THEN Scan(index + 1, NoRange)
        ELSE IF separator > Len(text) \/ text[separator] \notin {":", "="}
        THEN Scan(index + 1, NoRange)
        ELSE IF "newline" \in ToSet(key) \/ ~IsSensitiveKey(key) THEN Scan(end, NoRange)
        ELSE IF value > Len(text) THEN Scan(value, NoRange)
        ELSE IF Counts(text, range) THEN Scan(next, range)
        ELSE Scan(next, NoRange)

NextQuoted(text, search) ==
    LET scan[n \in Nat] ==
            IF n = 0 THEN Scan(search, NoRange) ELSE QuotedTurn(text, scan[n - 1])
    IN  scan[Len(text)].range

(* text_secret_separator: where the value starts after the name, 0 if it is   *)
(* the name of no value.                                                     *)
AfterSeparator(text, start, end) ==
    LET after == ConsumeWhile(text, end, {" "})
    IN  IF after > Len(text) THEN 0
        ELSE IF text[after] \in {"=", ":"} THEN after + 1
        ELSE IF text[start] = "flag" /\ after > end /\ text[after] # "newline" THEN after
        ELSE 0

(* redacts_to_line_end, otherwise to the next whitespace.                     *)
UnquotedRange(text, start, end, value) ==
    LET toLineEnd == /\ text[AfterSeparator(text, start, end) - 1] = ":"
                     /\ "auth" \in ToSet(SubSeq(text, start, end - 1))
    IN  Secret(value, ConsumeTo(text, value, IF toLineEnd THEN {"newline"} ELSE Whitespace),
               FALSE)

(* next_sensitive_text_value: the next value of any sensitive name, or the    *)
(* quoted one when the scan reaches it first.                                *)
ValueTurn(text, quoted, scan) ==
    LET index == scan.index
        end == ConsumeWhile(text, index + 1, TextKeys)
        after == AfterSeparator(text, index, end)
        value == ConsumeWhile(text, after, {" "})
        range == IF Quote(text, value) THEN QuotedValueRange(text, value)
                 ELSE UnquotedRange(text, index, end, value)
    IN  IF index > Len(text) \/ scan.range # NoRange THEN scan
        ELSE IF quoted # NoRange /\ index >= quoted.from THEN Scan(index, quoted)
        ELSE IF text[index] \notin TextKeys \/ (index > 1 /\ text[index - 1] \in TextKeys)
        THEN Scan(index + 1, NoRange)
        ELSE IF ~IsSensitiveKey(SubSeq(text, index, end - 1)) \/ after = 0
        THEN Scan(end, NoRange)
        ELSE IF value > Len(text) \/ text[value] = "newline" THEN Scan(end, NoRange)
        ELSE IF range.to > range.from THEN Scan(range.to, range)
        ELSE Scan(IF range.to > end THEN range.to ELSE end, NoRange)

OrQuoted(range, quoted) == IF range # NoRange THEN range ELSE quoted

NextValue(text, search, quoted) ==
    LET scan[n \in Nat] ==
            IF n = 0 THEN Scan(search, NoRange) ELSE ValueTurn(text, quoted, scan[n - 1])
    IN  OrQuoted(scan[Len(text)].range, quoted)

(* name_value_text_ranges: each turn adds the next range.                     *)
TakeRange(text, done, range) ==
    LET next == IF Quote(text, range.to) THEN range.to + 1 ELSE range.to
        isPassed == done.quoted # NoRange /\ done.quoted.from < next
    IN  IF range = NoRange THEN done
        ELSE [ranges |-> done.ranges \union {range}, search |-> next,
              quoted |-> IF isPassed THEN NextQuoted(text, next) ELSE done.quoted]

NameValueTurn(text, done) ==
    IF done.search > Len(text) THEN done
    ELSE TakeRange(text, done, NextValue(text, done.search, done.quoted))

NameValueRanges(text) ==
    LET done[n \in Nat] ==
            IF n = 0 THEN [ranges |-> {}, search |-> 1, quoted |-> NextQuoted(text, 1)]
            ELSE NameValueTurn(text, done[n - 1])
    IN  done[Len(text)].ranges

(* vendor_token_ranges: formats that are recognized by themselves.            *)
VendorRanges(text) ==
    {Secret(i, i + 1, FALSE) : i \in
        {j \in DOMAIN text : /\ text[j] = "vendor"
                             /\ j > 1 => text[j - 1] \notin TextKeys
                             /\ j < Len(text) => text[j + 1] \notin TextKeys}}

(* merge_text_ranges: those that overlap made one, position by position.  The *)
(* first of them says whether its marker is wrapped in quotes.               *)
Comes(range, other) ==
    range.to < other.to \/ (range.to = other.to /\ (other.wrap => range.wrap))

MergeRanges(merged, here) ==
    LET first == CHOOSE range \in here : \A other \in here : Comes(range, other)
        to == Max({range.to : range \in here})
        last == merged[Len(merged)]
    IN  IF here = {} THEN merged
        ELSE IF merged # <<>> /\ first.from < last.to
        THEN [merged EXCEPT ![Len(merged)].to = Max({@, to})]
        ELSE Append(merged, Secret(first.from, to, first.wrap))

SensitiveRanges(text) ==
    LET ranges == NameValueRanges(text) \union VendorRanges(text)
        merged[i \in Nat] ==
            IF i = 0 THEN <<>>
            ELSE MergeRanges(merged[i - 1], {range \in ranges : range.from = i})
    IN  merged[Len(text)]

-----------------------------------------------------------------------------
(* redact_sensitive_text_fragments: the fragments of a stream, its ranges     *)
(* walked once.  A range leaves a marker in every fragment it is in.          *)
Cut(text, cursor, from, range, start, end) ==
    SubSeq(text, cursor, from - 1)
    \o (IF range.wrap /\ range.from >= start THEN <<"quote">> ELSE <<>>)
    \o <<TextMarker>>
    \o (IF range.wrap /\ range.to <= end THEN <<"quote">> ELSE <<>>)

NextAlways(range, end, next) == next + 1                       \* faulty
NextUnlessCrossing(range, end, next) == IF range.to > end THEN next ELSE next + 1

(* A range that crosses the end takes the rest of the fragment [start, end).  *)
RedactRange(text, ranges, start, end, walk) ==
    LET range == ranges[walk.next]
        from == Max({range.from, start})
    IN  IF walk.next > Len(ranges) \/ walk.cursor = end THEN walk
        ELSE IF range.from >= end THEN walk
        ELSE IF range.to <= start THEN [walk EXCEPT !.next = @ + 1]
        ELSE [text |-> walk.text \o Cut(text, walk.cursor, from, range, start, end),
              next |-> NextUnlessCrossing(range, end, walk.next),
              cursor |-> Min({range.to, end})]

RedactFragment(text, ranges, next, start, end) ==
    LET walk[n \in Nat] ==
            IF n = 0 THEN [text |-> <<>>, next |-> next, cursor |-> start]
            ELSE RedactRange(text, ranges, start, end, walk[n - 1])
        last == walk[Len(ranges)]
    IN  [last EXCEPT !.text = @ \o SubSeq(text, last.cursor, end - 1)]

RedactNext(text, ranges, fragment, done) ==
    LET end == done.start + Len(fragment)
        here == RedactFragment(text, ranges, done.next, done.start, end)
    IN  IF fragment = <<>> THEN [done EXCEPT !.texts = Append(@, <<>>)]
        ELSE [texts |-> Append(done.texts, here.text), next |-> here.next, start |-> end]

Redacted(text, ranges, fragments) ==
    LET done[n \in 0 .. Len(fragments)] ==
            IF n = 0 THEN [texts |-> <<>>, next |-> 1, start |-> 1]
            ELSE RedactNext(text, ranges, fragments[n], done[n - 1])
    IN  done[Len(fragments)].texts

-----------------------------------------------------------------------------
(* A capture: the chunks of both streams as they came.                        *)
RedactionInit == chunks = <<>> /\ views = <<>>

Write ==
    /\ views = <<>> /\ Len(chunks) < MaxWrites
    /\ \E chunk \in {<<"stdout", piece>> : piece \in Pieces} \union {<<"stderr", OtherStream>>} :
           chunks' = Append(chunks, chunk)
    /\ UNCHANGED views

TextsOf(stream) ==
    LET texts[i \in 0 .. Len(chunks)] ==
            IF i = 0 THEN <<>>
            ELSE IF chunks[i][1] # stream THEN texts[i - 1]
            ELSE Append(texts[i - 1], chunks[i][2])
    IN  texts[Len(chunks)]

\* A view of a text, and of the fragments it came in.
ViewOfText(text, ranges, fragments) ==
    [whole |-> [text |-> Redacted(text, ranges, <<text>>)[1], redactions |-> Len(ranges)],
     combined |-> Redacted(text, ranges, fragments)]

(* The stream by itself, and its chunks in the combined view.                 *)
CaptureStream ==
    /\ views = <<>> /\ chunks # <<>>
    /\ \E fragments \in {TextsOf("stdout")} :
           \E text \in {FlattenSeq(fragments)} : \E ranges \in {SensitiveRanges(text)} :
               views' = <<ViewOfText(text, ranges, fragments)>>
    /\ UNCHANGED chunks

(* What prog stored is printed, and that is captured.                         *)
CaptureAgain ==
    /\ Len(views) = 1
    /\ \E text \in {views[1].whole.text} : \E ranges \in {SensitiveRanges(text)} :
           views' = Append(views, ViewOfText(text, ranges, <<text>>))
    /\ UNCHANGED chunks

RedactionNext == Write \/ CaptureStream \/ CaptureAgain

RedactionSpec == RedactionInit /\ [][RedactionNext]_redactionVars

-----------------------------------------------------------------------------
(* Markers next to each other tell a reader no more than one.                *)
JoinNext(text, token) ==
    IF text # <<>> /\ Last(text) = TextMarker /\ token = TextMarker THEN text
    ELSE Append(text, token)

Joined(text) ==
    LET joined[n \in Nat] == IF n = 0 THEN <<>> ELSE JoinNext(joined[n - 1], text[n])
    IN  joined[Len(text)]

(* However a stream is cut into chunks, and whatever the other stream writes  *)
(* in between, the combined view keeps of it what its own view keeps, in the  *)
(* same order: a value cut by a chunk's end is not shown.  run.rs, redact_    *)
(* run_chunks: "A key/value split by output on the other stream must not      *)
(* expose a secret that was removed from the complete stdout/stderr view."    *)
ViewsAgree ==
    \A i \in DOMAIN views :
        Joined(FlattenSeq(views[i].combined)) = Joined(views[i].whole.text)

(* If a text lost a value to its sensitive name, or shows that it had lost   *)
(* one before, its capture cannot prove absence; nor can a capture of what   *)
(* was stored of it: something is found to redact in it again, also where    *)
(* vendors' tokens were taken out next to it.  redaction.rs, name_value_     *)
(* text_ranges: "Count existing sensitive-value markers as redaction         *)
(* evidence as well."                                                        *)
RedactedStaysEvidence ==
    Len(views) = 2 =>
        \A text \in {FlattenSeq(TextsOf("stdout"))} : NameValueRanges(text) # {} =>
            views[1].whole.redactions > 0 /\ views[2].whole.redactions > 0

(* The same of whatever was redacted, a vendor's token by itself included.   *)
(* redaction.rs, name_value_text_ranges: "A capture of an already-redacted   *)
(* log must not regain absence-proof rights."                                *)
AnyRedactionStaysEvidence ==
    Len(views) = 2 => (views[1].whole.redactions > 0 => views[2].whole.redactions > 0)
=============================================================================
