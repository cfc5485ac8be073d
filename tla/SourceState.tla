----------------------------- MODULE SourceState -----------------------------
(***************************************************************************)
(* The change tokens of a source (prog-core/src/source_state.rs), the      *)
(* conditional refresh that uses one (prog-cli/src/commands/call.rs), and  *)
(* the comparison of the tokens of two captures (delta.rs).                *)
(*                                                                         *)
(* A source has a content that is edited as time passes.  Its answers, the *)
(* errors it answers with among them, may carry validators of several      *)
(* kinds, absent, malformed or true: an entity tag and a field of the body *)
(* name the version, a modification date names the second of the last      *)
(* edit.  Text, hashes and formats of tokens are abstracted; that a value  *)
(* is malformed, redacted or expired is not.                               *)
(***************************************************************************)
EXTENDS Naturals, Sequences, Absent

CONSTANTS
    Malformed,      \* a value that is no token, date or time: redacted, too long
    CutShort,        \* metadata that was cut before it could be read
    Kinds,          \* kinds of source: "http", "cli", "mcp"
    Selectors,      \* what a profile may declare: None, or whether with expiry
    Answers,        \* the validators an answer may carry, see AnswerOf
    MaxVersion,     \* bounds: edits,
    MaxSecond,      \* seconds,
    MaxCaptures     \* captures

ASSUME SourceStateAssumption ==
    /\ MaxVersion \in Nat /\ MaxSecond \in Nat /\ MaxCaptures \in Nat
    /\ \A form \in Answers :
          /\ {form.etag, form.modified, form.field} \subseteq {None, Malformed, "true"}
          /\ form.notes \in {None, Malformed, CutShort, "true", "several"}

VARIABLES
    origin,         \* [kind, selector, version, edited, second, scope]
    entry,          \* the capture the cache entry of the call names, or None
    observed        \* the captures made: what each kept (content, None for
                    \* an error), and of which source (version, edited)

sourceVars == <<origin, entry, observed>>

-----------------------------------------------------------------------------
(* What an answer's validators give. *)

Token(kind, value, validity) == [kind |-> kind, value |-> value, validity |-> validity]
Captured(token, validity) == [token |-> token, validity |-> validity]
Nothing == Captured(None, "unknown")
NoValidator == Captured(None, "validator_unavailable")
OfToken(token) == Captured(token, token.validity)

(* capture_http_source_state: the tag comes before the date, and a malformed *)
(* one is never persisted, nor replaced by the other.                        *)
HttpState(answer) ==
    IF answer.etag # None
    THEN IF answer.etag = Malformed THEN NoValidator
         ELSE OfToken(Token("etag", answer.etag, "unknown"))
    ELSE IF answer.modified = None THEN Nothing
    ELSE IF answer.modified = Malformed THEN NoValidator
    ELSE OfToken(Token("last_modified", answer.modified, "unknown"))

(* capture_profile_source_state: a field that is missing, redacted or no     *)
(* scalar gives no token; a doubtful expiry gives a token that says so.      *)
ProfileState(selector, answer) ==
    IF answer.field \in {None, Malformed} THEN NoValidator
    ELSE OfToken(Token("change_token", answer.field,
            IF ~selector.expires THEN "unknown"
            ELSE CASE answer.expiry \in {None, Malformed} -> "validator_unavailable"
                   [] answer.expiry = "past" -> "validator_expired"
                   [] OTHER -> "unknown"))

(* capture_mcp_source_state: one date for all blocks, or none.               *)
McpState(answer) ==
    CASE answer.notes = CutShort -> NoValidator
      [] answer.notes = {} -> Nothing
      [] OTHER -> LET date == CHOOSE date \in answer.notes : TRUE
                  IN  IF answer.notes = {date} /\ date # Malformed
                      THEN OfToken(Token("mcp_modified", date, "unknown"))
                      ELSE NoValidator

(* source_state_from_response: the first of them that gives a token.         *)
SourceStateOf(kind, selector, answer) ==
    LET http == IF kind = "http" THEN HttpState(answer) ELSE Nothing
        profile == IF selector # None THEN ProfileState(selector, answer) ELSE Nothing
        mcp == IF kind = "mcp" THEN McpState(answer) ELSE Nothing
    IN  IF http.token # None THEN http
        ELSE IF profile.token # None THEN profile
        ELSE IF mcp.token # None THEN mcp
        ELSE IF NoValidator \in {http, profile, mcp} THEN NoValidator ELSE Nothing

-----------------------------------------------------------------------------
(* What two captures say of the source between them: what the later says     *)
(* against itself wins, tokens of one kind are compared, and with a token on *)
(* one side only nothing is known.                                           *)
PairValidityOfAnyKind(before, after) ==                        \* faulty
    IF after.validity \notin {"unknown", "confirmed_unchanged"} THEN after.validity
    ELSE CASE before.token = None /\ after.token = None -> after.validity
           [] before.token # None /\ after.token # None ->
                 IF before.token.value = after.token.value
                 THEN "confirmed_unchanged" ELSE "source_changed"
           [] OTHER -> "unknown"

PairValidity(before, after) ==
    IF after.validity \notin {"unknown", "confirmed_unchanged"} THEN after.validity
    ELSE CASE before.token = None /\ after.token = None -> after.validity
           [] before.token # None /\ after.token # None ->
                 IF before.token.kind # after.token.kind THEN "unknown"
                 ELSE IF before.token.value = after.token.value
                 THEN "confirmed_unchanged" ELSE "source_changed"
           [] OTHER -> "unknown"

(* source_state_is_revalidatable, under the credentials and effects of now.  *)
Revalidatable(capture, scope) ==
    /\ capture.token # None
    /\ capture.token.kind \in {"etag", "last_modified"}
    /\ capture.scope = scope
    /\ capture.token.validity \in {"unknown", "confirmed_unchanged"}

-----------------------------------------------------------------------------
(* The source. *)

SourceInit ==
    /\ origin \in [kind : Kinds, selector : Selectors, version : {1},
                   edited : {1}, second : {1}, scope : {1}]
    /\ entry = None
    /\ observed = <<>>

Edit ==
    /\ origin.version < MaxVersion
    /\ origin' = [origin EXCEPT !.version = @ + 1, !.edited = origin.second]
    /\ UNCHANGED <<entry, observed>>

Pass ==
    /\ origin.second < MaxSecond
    /\ origin' = [origin EXCEPT !.second = @ + 1]
    /\ UNCHANGED <<entry, observed>>

(* Other credentials or other effects: another source for all prog knows.    *)
Rescope ==
    /\ origin.scope = 1
    /\ origin' = [origin EXCEPT !.scope = 2]
    /\ UNCHANGED <<entry, observed>>

(* An answer that carries what the form says, truly.                         *)
AnswerOf(form) ==
    [etag |-> IF form.etag = "true" THEN origin.version ELSE form.etag,
     modified |-> IF form.modified = "true" THEN origin.edited ELSE form.modified,
     field |-> IF form.field = "true" THEN origin.version ELSE form.field,
     expiry |-> form.expiry,
     notes |-> CASE form.notes = None -> {}
                 [] form.notes = "true" -> {origin.edited}
                 [] form.notes = "several" -> {origin.edited, 0}
                 [] form.notes = Malformed -> {Malformed}
                 [] OTHER -> CutShort]

(* Whether the source still has the content a validator stands for.          *)
StillValid(token) ==
    token.value = IF token.kind = "etag" THEN origin.version ELSE origin.edited

-----------------------------------------------------------------------------
(* prog call, of one invocation. *)

Observe(content, token, validity) ==
    observed' = Append(observed, [content |-> content,
                                  version |-> origin.version,
                                  edited |-> origin.edited,
                                  token |-> token, validity |-> validity,
                                  scope |-> origin.scope])

Validator(refresh) ==
    IF refresh /\ entry # None /\ Revalidatable(observed[entry], origin.scope)
    THEN observed[entry].token ELSE None

(* 304: the observation has the payload and the token of the prior one.      *)
NotModified ==
    /\ Len(observed) < MaxCaptures
    /\ Validator(TRUE) # None /\ StillValid(Validator(TRUE))
    /\ Observe(observed[entry].content, Validator(TRUE), "confirmed_unchanged")
    /\ entry' = Len(observed) + 1
    /\ UNCHANGED origin

(* An answer with a body, as a server may also send to a conditional request *)
(* that holds, or with an error, which may repeat the validators of the      *)
(* content.  Only a refresh says something of the change; one that failed    *)
(* keeps the entry.                                                          *)
Respond(refresh, failed, form) ==
    LET state == SourceStateOf(origin.kind, origin.selector, AnswerOf(form))
    IN  /\ Len(observed) < MaxCaptures
        /\ Observe(IF failed THEN None ELSE origin.version, state.token,
                   IF ~refresh THEN state.validity
                   ELSE IF failed THEN "refresh_failed"
                   ELSE IF Validator(refresh) # None THEN "source_changed"
                   ELSE "validator_unavailable")
        /\ entry' = IF refresh /\ failed /\ entry # None THEN entry
                    ELSE Len(observed) + 1
        /\ UNCHANGED origin

CallSource ==
    \E refresh, failed \in BOOLEAN, form \in Answers : Respond(refresh, failed, form)

SourceNext == Edit \/ Pass \/ Rescope \/ NotModified \/ CallSource
SourceSpec == SourceInit /\ [][SourceNext]_sourceVars

-----------------------------------------------------------------------------
(* What the later captures rest on: a token names the version or the second  *)
(* of the source it was given by; what is kept with one that names a version *)
(* is that version, or an error; and an unchanged source is confirmed only   *)
(* with a token.                                                             *)

TokenKind == {"etag", "change_token", "last_modified", "mcp_modified"}
TokenValidity == {"unknown", "validator_unavailable", "validator_expired"}
SourceToken == [kind : TokenKind, value : Nat, validity : TokenValidity]
SourceCapture ==
    [content : Nat \union {None}, version : Nat, edited : Nat,
     token : SourceToken \union {None},
     validity : TokenValidity \union {"confirmed_unchanged", "source_changed",
                                      "refresh_failed"},
     scope : {1, 2}]

SourceTypeOK ==
    /\ origin \in [kind : Kinds, selector : Selectors, version : Nat,
                   edited : Nat \ {0}, second : Nat \ {0}, scope : {1, 2}]
    /\ observed \in Seq(SourceCapture)
    /\ entry # None => entry \in DOMAIN observed

TokenNamesSource(capture) ==
    capture.token # None =>
        IF capture.token.kind \in {"etag", "change_token"}
        THEN /\ capture.token.value = capture.version
             /\ capture.content \in {None, capture.version}
        ELSE capture.token.value = capture.edited

ConfirmedByToken(capture) ==
    capture.validity = "confirmed_unchanged" => capture.token # None

SourceInv ==
    /\ SourceTypeOK
    /\ \A i \in DOMAIN observed :
          TokenNamesSource(observed[i]) /\ ConfirmedByToken(observed[i])

-----------------------------------------------------------------------------
(* Properties. *)

(* A date cannot tell the edits of one second apart. *)
SameSecond(before, after) ==
    /\ after.token # None /\ after.token.kind \in {"last_modified", "mcp_modified"}
    /\ before.edited = after.edited

(* If two captures of one invocation are said to be of an unchanged source,  *)
(* the source was the same at both, up to the second a date names, however   *)
(* it was edited, refreshed and failed in between, and also if one of them   *)
(* is an error that repeats the validator of the content; two contents kept  *)
(* by them are the same; and the later was no refresh that failed.           *)
ConfirmedIsUnchanged ==
    \A i, j \in DOMAIN observed :
        /\ i < j /\ observed[i].scope = observed[j].scope
        /\ PairValidity(observed[i], observed[j]) = "confirmed_unchanged"
        => /\ observed[j].validity # "refresh_failed"
           /\ \/ SameSecond(observed[i], observed[j])
              \/ /\ observed[i].version = observed[j].version
                 /\ None \in {observed[i].content, observed[j].content}
                       \/ observed[i].content = observed[j].content
=============================================================================
