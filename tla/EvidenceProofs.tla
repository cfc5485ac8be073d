--------------------------- MODULE EvidenceProofs ---------------------------
(***************************************************************************)
(* What prog says of the evidence it keeps, proved for every value of the  *)
(* constants: that a source it calls unchanged is unchanged (SourceState), *)
(* that a comparison of collections accounts for every record              *)
(* (RecordDelta), that a failure it calls resolved is of a test that ran   *)
(* again (Delta), and that the pages of a collection are all of it, and    *)
(* those counted as returned were given or had a place (Coverage).  Of the *)
(* sources it asks: for any number of callers, any declared effects and    *)
(* any declared trust, calls are grounded in what the adapter knows,       *)
(* probes only read, and learning lifts no gate (Trust): the argument is   *)
(* TrustInv, what a call may do is settled by CallIsGrounded and           *)
(* PageIsGrounded, for every profile.                                      *)
(* And of what it shows of a text: however a stream came in chunks, and    *)
(* whatever is secret in it, the chunks keep what the whole keeps, in the  *)
(* same order (Redaction): every walk over the ranges keeps KeptTo, what   *)
(* the ranges leave of the text read so far, and joined markers are one.   *)
(***************************************************************************)
EXTENDS Delta, RecordDelta, Redaction, SourceState, Coverage, Trust,
        FoldLemmas, SequenceTheorems, TLAPS

-----------------------------------------------------------------------------
(* SourceState: what an answer's validators give. *)

(* What the first validator that gives a token may give: none, or one whose  *)
(* value is the version or the date, and which says nothing of a change.     *)
GivenBy(state, version, edited) ==
    /\ state.validity \in TokenValidity
    /\ state.token # None =>
          /\ state.token \in SourceToken
          /\ state.token.value = IF state.token.kind \in {"etag", "change_token"}
                                 THEN version ELSE edited

LEMMA NothingIsGiven ==
  ASSUME NEW v, NEW e
  PROVE  GivenBy(Nothing, v, e) /\ GivenBy(NoValidator, v, e)
  BY DEF GivenBy, Nothing, NoValidator, Captured, TokenValidity

LEMMA TokenIsGiven ==
  ASSUME NEW v \in Nat, NEW e \in Nat, NEW kind \in TokenKind, NEW value \in Nat,
         NEW validity \in TokenValidity,
         value = IF kind \in {"etag", "change_token"} THEN v ELSE e
  PROVE  GivenBy(OfToken(Token(kind, value, validity)), v, e)
  BY DEF GivenBy, OfToken, Captured, Token, SourceToken

(* The answers of AnswerOf: with the version or the date, or with nothing.   *)
TrueAnswer(answer, version, edited) ==
    /\ answer.etag \in {None, Malformed, version}
    /\ answer.modified \in {None, Malformed, edited}
    /\ answer.field \in {None, Malformed, version}
    /\ answer.notes \in {{}, {edited}, {edited, 0}, {Malformed}, CutShort}

LEMMA HttpGives ==
  ASSUME NEW a, NEW v \in Nat, NEW e \in Nat, TrueAnswer(a, v, e)
  PROVE  GivenBy(HttpState(a), v, e)
<1> USE NothingIsGiven
<1>1. CASE a.etag # None /\ a.etag # Malformed
  <2>1. a.etag = v
    BY <1>1 DEF TrueAnswer
  <2>2. GivenBy(OfToken(Token("etag", a.etag, "unknown")), v, e)
    BY <2>1, TokenIsGiven DEF TokenKind, TokenValidity
  <2> QED  BY <1>1, <2>2 DEF HttpState
<1>2. CASE a.etag = None /\ a.modified # None /\ a.modified # Malformed
  <2>1. a.modified = e
    BY <1>2 DEF TrueAnswer
  <2>2. GivenBy(OfToken(Token("last_modified", a.modified, "unknown")), v, e)
    BY <2>1, TokenIsGiven DEF TokenKind, TokenValidity
  <2> QED  BY <1>2, <2>2 DEF HttpState
<1> QED  BY <1>1, <1>2 DEF HttpState

LEMMA ProfileGives ==
  ASSUME NEW a, NEW s, NEW v \in Nat, NEW e \in Nat, TrueAnswer(a, v, e)
  PROVE  GivenBy(ProfileState(s, a), v, e)
<1> USE NothingIsGiven
<1> DEFINE said == IF ~s.expires THEN "unknown"
                   ELSE CASE a.expiry \in {None, Malformed} -> "validator_unavailable"
                          [] a.expiry = "past" -> "validator_expired"
                          [] OTHER -> "unknown"
<1>1. said \in TokenValidity
  BY DEF TokenValidity
<1>2. CASE a.field \notin {None, Malformed}
  <2>1. a.field = v
    BY <1>2 DEF TrueAnswer
  <2>2. GivenBy(OfToken(Token("change_token", a.field, said)), v, e)
    BY <2>1, <1>1, TokenIsGiven DEF TokenKind
  <2> QED  BY <1>2, <2>2 DEF ProfileState
<1> QED  BY <1>2 DEF ProfileState

LEMMA McpGives ==
  ASSUME NEW a, NEW v \in Nat, NEW e \in Nat \ {0}, TrueAnswer(a, v, e)
  PROVE  GivenBy(McpState(a), v, e)
<1> USE NothingIsGiven
<1> DEFINE date == CHOOSE d \in a.notes : TRUE
<1>1. CASE /\ a.notes # CutShort /\ a.notes # {}
           /\ a.notes = {date} /\ date # Malformed
  <2>1. date = e
    BY <1>1 DEF TrueAnswer
  <2>2. GivenBy(OfToken(Token("mcp_modified", e, "unknown")), v, e)
    BY TokenIsGiven DEF TokenKind, TokenValidity
  <2> QED  BY <1>1, <2>1, <2>2 DEF McpState
<1> QED  BY <1>1 DEF McpState

LEMMA AnswerGives ==
  ASSUME NEW a, NEW k, NEW s, NEW v \in Nat, NEW e \in Nat \ {0}, TrueAnswer(a, v, e)
  PROVE  GivenBy(SourceStateOf(k, s, a), v, e)
  BY NothingIsGiven, HttpGives, ProfileGives, McpGives DEF SourceStateOf

-----------------------------------------------------------------------------
(* SourceState: the invariant. *)

LEMMA AnswersAreTrue ==
  ASSUME NEW form \in Answers
  PROVE  TrueAnswer(AnswerOf(form), origin.version, origin.edited)
<1>1. /\ form.etag \in {None, Malformed, "true"} /\ form.modified \in {None, Malformed, "true"}
      /\ form.field \in {None, Malformed, "true"}
      /\ form.notes \in {None, Malformed, CutShort, "true", "several"}
  BY SourceStateAssumption
<1>2. AnswerOf(form).notes \in {{}, {origin.edited}, {origin.edited, 0}, {Malformed}, CutShort}
  BY DEF AnswerOf
<1> QED  BY <1>1, <1>2 DEF AnswerOf, TrueAnswer

LEMMA SourceInvInit == SourceInit => SourceInv
  BY EmptySeq DEF SourceInit, SourceInv, SourceTypeOK

(* Another capture with a token that names its source.                       *)
LEMMA OneMoreCapture ==
  ASSUME SourceInv, NEW content \in Nat \union {None},
         NEW token \in SourceToken \union {None},
         NEW validity \in TokenValidity \union {"confirmed_unchanged", "source_changed",
                                                "refresh_failed"},
         token # None =>
            IF token.kind \in {"etag", "change_token"}
            THEN token.value = origin.version /\ content \in {None, origin.version}
            ELSE token.value = origin.edited,
         validity = "confirmed_unchanged" => token # None,
         Observe(content, token, validity),
         UNCHANGED origin,
         entry' \in {entry, Len(observed) + 1}
  PROVE  SourceInv'
<1> DEFINE made == [content |-> content, version |-> origin.version,
                    edited |-> origin.edited, token |-> token, validity |-> validity, scope |-> origin.scope]
<1>1. /\ observed \in Seq(SourceCapture) /\ origin.edited \in Nat
      /\ origin.version \in Nat /\ origin.scope \in {1, 2}
      /\ entry # None => entry \in DOMAIN observed
  BY DEF SourceInv, SourceTypeOK
<1>2. made \in SourceCapture
  BY <1>1 DEF SourceCapture
<1>3. observed' = Append(observed, made)
  BY DEF Observe
<1> HIDE DEF made
<1>4. /\ observed' \in Seq(SourceCapture) /\ DOMAIN observed' = 1..(Len(observed) + 1)
      /\ \A i \in 1..Len(observed) : observed'[i] = observed[i]
      /\ observed'[Len(observed) + 1] = made /\ DOMAIN observed = 1..Len(observed)
      /\ Len(observed) \in Nat
  BY <1>1, <1>2, <1>3, AppendProperties, LenProperties
<1>5. TokenNamesSource(made) /\ ConfirmedByToken(made)
  BY DEF made, TokenNamesSource, ConfirmedByToken
<1>6. entry' # None => entry' \in DOMAIN observed'
  BY <1>1, <1>4
<1>7. SourceTypeOK'
  BY <1>4, <1>6 DEF SourceInv, SourceTypeOK
<1>8. ASSUME NEW i \in DOMAIN observed'
      PROVE  TokenNamesSource(observed'[i]) /\ ConfirmedByToken(observed'[i])
  <2>1. CASE i = Len(observed) + 1
    BY <1>4, <1>5, <2>1
  <2>2. CASE i \in 1..Len(observed)
    <3>1. TokenNamesSource(observed[i]) /\ ConfirmedByToken(observed[i])
      BY <1>4, <2>2 DEF SourceInv
    <3> QED  BY <1>4, <2>2, <3>1
  <2> QED  BY <1>4, <2>1, <2>2
<1> QED  BY <1>7, <1>8 DEF SourceInv, TokenNamesSource, ConfirmedByToken

LEMMA SourceInvNext ==
  ASSUME SourceInv, [SourceNext]_sourceVars
  PROVE  SourceInv'
<1>1. /\ origin \in [kind : Kinds, selector : Selectors, version : Nat,
                    edited : Nat \ {0}, second : Nat \ {0}, scope : {1, 2}]
      /\ observed \in Seq(SourceCapture) /\ (entry # None => entry \in DOMAIN observed)
  BY DEF SourceInv, SourceTypeOK
<1>2. ASSUME UNCHANGED <<entry, observed>>,
             origin' \in [kind : Kinds, selector : Selectors, version : Nat,
                          edited : Nat \ {0}, second : Nat \ {0}, scope : {1, 2}]
      PROVE  SourceInv'
  BY <1>2 DEF SourceInv, SourceTypeOK, TokenNamesSource, ConfirmedByToken
<1>3. CASE Edit
  <2>1. /\ origin.version + 1 \in Nat /\ origin.second \in Nat \ {0}
        /\ origin' = [[origin EXCEPT !.version = origin.version + 1]
                         EXCEPT !.edited = origin.second]
    BY <1>1, <1>3 DEF Edit
  <2> QED  BY <1>1, <1>2, <1>3, <2>1 DEF Edit
<1>4. CASE Pass
  BY <1>1, <1>2, <1>4 DEF Pass
<1>5. CASE Rescope
  BY <1>1, <1>2, <1>5 DEF Rescope
<1>6. CASE NotModified
  <2>1. /\ entry # None /\ entry \in DOMAIN observed /\ observed[entry].token # None
        /\ observed[entry].token.kind \in {"etag", "last_modified"}
        /\ Validator(TRUE) = observed[entry].token
        /\ entry' = Len(observed) + 1 /\ UNCHANGED origin
        /\ StillValid(observed[entry].token)
        /\ Observe(observed[entry].content, observed[entry].token, "confirmed_unchanged")
    BY <1>1, <1>6 DEF NotModified, Validator, Revalidatable
  <2>2. observed[entry] \in SourceCapture
    BY <1>1, <2>1, ElementOfSeq
  <2>3. TokenNamesSource(observed[entry])
    BY <2>1 DEF SourceInv
  <2>4. /\ observed[entry].content \in Nat \union {None}
        /\ observed[entry].token \in SourceToken \union {None}
    BY <2>2 DEF SourceCapture
  <2>5. IF observed[entry].token.kind \in {"etag", "change_token"}
        THEN /\ observed[entry].token.value = origin.version
             /\ observed[entry].content \in {None, origin.version}
        ELSE observed[entry].token.value = origin.edited
    BY <2>1, <2>3 DEF TokenNamesSource, StillValid
  <2> QED  BY <2>1, <2>4, <2>5, OneMoreCapture
<1>7. CASE CallSource
  <2>1. PICK refresh \in BOOLEAN, failed \in BOOLEAN, form \in Answers :
             Respond(refresh, failed, form)
    BY <1>7 DEF CallSource
  <2> DEFINE state == SourceStateOf(origin.kind, origin.selector, AnswerOf(form))
             content == IF failed THEN None ELSE origin.version
             validity == IF ~refresh THEN state.validity
                         ELSE IF failed THEN "refresh_failed"
                         ELSE IF Validator(refresh) # None THEN "source_changed"
                         ELSE "validator_unavailable"
  <2>2. /\ Observe(content, state.token, validity) /\ UNCHANGED origin
        /\ entry' \in {entry, Len(observed) + 1}
    BY <2>1 DEF Respond
  <2>3. GivenBy(state, origin.version, origin.edited)
    BY <1>1, AnswersAreTrue, AnswerGives
  <2>4. content \in {None, origin.version}
    OBVIOUS
  <2>5. /\ state.token \in SourceToken \union {None}
        /\ state.token # None =>
              IF state.token.kind \in {"etag", "change_token"}
              THEN state.token.value = origin.version /\ content \in {None, origin.version}
              ELSE state.token.value = origin.edited
    BY <2>3, <2>4 DEF GivenBy
  <2>6. validity \in TokenValidity \union {"source_changed", "refresh_failed"}
    BY <2>3 DEF GivenBy, TokenValidity
  <2>7. content \in Nat \union {None}
    BY <1>1
  <2>8. validity # "confirmed_unchanged"
    BY <2>6 DEF TokenValidity
  <2> HIDE DEF state, content, validity
  <2> QED  BY <2>2, <2>5, <2>6, <2>7, <2>8, OneMoreCapture
<1>8. CASE UNCHANGED sourceVars
  BY <1>1, <1>2, <1>8 DEF sourceVars
<1> QED  BY <1>3, <1>4, <1>5, <1>6, <1>7, <1>8 DEF SourceNext

(* Whatever validators the answers of a source carry, those of its errors     *)
(* among them, a token names the version or the date of the source that gave  *)
(* it: SourceInv is what every pair of captures is compared by.               *)
THEOREM SourceInvariant == SourceSpec => []SourceInv
<1>1. SourceInv /\ [SourceNext]_sourceVars => SourceInv'
  BY SourceInvNext
<1> QED  BY <1>1, SourceInvInit, PTL DEF SourceSpec

(* source_validity in delta.rs: whatever is edited, refreshed, answered with  *)
(* an error or confirmed between two captures, if prog calls their source     *)
(* unchanged then it was, and both have the same content unless one of them   *)
(* is an error's, or they were taken in one second of a source that tells its *)
(* date only; and the later is no refresh that failed.                        *)
THEOREM ConfirmedMeansUnchanged == SourceSpec => []ConfirmedIsUnchanged
<1>1. ASSUME SourceInv PROVE ConfirmedIsUnchanged
  <2> SUFFICES ASSUME NEW i \in DOMAIN observed, NEW j \in DOMAIN observed,
                      PairValidity(observed[i], observed[j]) = "confirmed_unchanged"
               PROVE  /\ observed[j].validity # "refresh_failed"
                      /\ \/ SameSecond(observed[i], observed[j])
                         \/ /\ observed[i].version = observed[j].version
                            /\ None \in {observed[i].content, observed[j].content}
                                  \/ observed[i].content = observed[j].content
    BY DEF ConfirmedIsUnchanged
  <2> DEFINE b == observed[i]
             a == observed[j]
  <2>1. /\ b \in SourceCapture /\ a \in SourceCapture
        /\ TokenNamesSource(b) /\ TokenNamesSource(a) /\ ConfirmedByToken(a)
    BY <1>1, ElementOfSeq DEF SourceInv, SourceTypeOK
  <2> HIDE DEF b, a
  <2>2. PairValidity(b, a) = "confirmed_unchanged"
    BY DEF a, b
  <2>3. a.validity \in {"unknown", "confirmed_unchanged"}
    BY <2>2 DEF PairValidity
  <2>4. b.token # None /\ a.token # None
    BY <2>2, <2>3, <2>1 DEF PairValidity, ConfirmedByToken
  <2>5. b.token.kind = a.token.kind /\ b.token.value = a.token.value
    BY <2>2, <2>3, <2>4 DEF PairValidity
  <2>6. a.token.kind \in TokenKind
    BY <2>1, <2>4 DEF SourceCapture, SourceToken
  <2>7. CASE a.token.kind \in {"etag", "change_token"}
    <3>1. /\ b.version = a.version
          /\ b.content \in {None, a.version} /\ a.content \in {None, a.version}
      BY <2>1, <2>4, <2>5, <2>7 DEF TokenNamesSource
    <3> QED  BY <2>3, <3>1 DEF a, b
  <2>8. CASE a.token.kind \notin {"etag", "change_token"}
    <3>1. SameSecond(b, a)
      BY <2>1, <2>4, <2>5, <2>6, <2>8 DEF TokenNamesSource, SameSecond, TokenKind
    <3> QED  BY <2>3, <3>1 DEF a, b
  <2> QED  BY <2>7, <2>8
<1> QED  BY <1>1, SourceInvariant, PTL

-----------------------------------------------------------------------------
(* RecordDelta: one side of a matching. *)

(* A matching that uses no element of S twice uses as many as it has pairs.  *)
LEMMA MatchedOnce ==
  ASSUME NEW S, IsFiniteSet(S), NEW P, NEW side \in [P -> S],
         \A p, q \in P : side[p] = side[q] => p = q
  PROVE  /\ IsFiniteSet(P)
         /\ Cardinality(P) + Cardinality({s \in S : \A p \in P : side[p] # s})
               = Cardinality(S)
<1> DEFINE used == {side[p] : p \in P}
           rest == {s \in S : \A p \in P : side[p] # s}
<1>1. used \in SUBSET S /\ IsFiniteSet(used)
  BY FS_Subset
<1>2. side \in Injection(P, S)
  BY DEF Injection, IsInjective
<1>3. IsFiniteSet(P)
  BY <1>2, FS_Injection
<1>4. side \in Bijection(P, used)
  <2>1. side \in [P -> used]
    OBVIOUS
  <2> QED  BY <2>1 DEF Bijection, Injection, Surjection, IsInjective
<1>5. Cardinality(P) = Cardinality(used)
  BY <1>3, <1>4, FS_Bijection DEF ExistsBijection
<1>6. rest = S \ used /\ S \cap used = used
  BY <1>1
<1>7. Cardinality(rest) = Cardinality(S) - Cardinality(used)
  BY <1>6, FS_Difference
<1>8. Cardinality(S) \in Nat /\ Cardinality(used) \in Nat
  BY <1>1, FS_CardinalityType
<1> QED  BY <1>3, <1>5, <1>7, <1>8

-----------------------------------------------------------------------------
(* RecordDelta: the records of a collection, and what is stored of them. *)

LEMMA RecordsOfList ==
  ASSUME NEW items, IsRecordList(items)
  PROVE  /\ Len(items) \in Nat /\ DOMAIN items = 1..Len(items)
         /\ IsFiniteSet(DOMAIN items) /\ Cardinality(DOMAIN items) = Len(items)
<1>1. Len(items) \in Nat /\ DOMAIN items = 1..Len(items)
  BY LenProperties DEF IsRecordList
<1>2. \A n \in Nat : IsFiniteSet(1..n) /\ Cardinality(1..n) = n
  <2> TAKE n \in Nat
  <2>1. 1 \in Int /\ n \in Int
    OBVIOUS
  <2>2. IsFiniteSet(1..n) /\ Cardinality(1..n) = IF 1 > n THEN 0 ELSE n - 1 + 1
    BY <2>1, FS_Interval, Zenon
  <2> QED  BY <2>2
<1> QED  BY <1>1, <1>2

(* What is stored of two different values is different, or a marker.         *)
LEMMA StoredTellsApart ==
  ASSUME NEW r, NEW s, NEW f \in DOMAIN r, f \in DOMAIN s,
         Stored(r)[f] = Stored(s)[f], r[f] # s[f]
  PROVE  ContainsRedaction(Stored(r)) \/ ContainsRedaction(Stored(s))
<1>1. /\ DOMAIN Stored(r) = DOMAIN r
      /\ DOMAIN Stored(s) = DOMAIN s
  BY DEF Stored
<1>2. Stored(r)[f] \in {Marker, Embedded} \/ Stored(s)[f] \in {Marker, Embedded}
  <2>1. Stored(r)[f] \in {Marker, Embedded} \/ Stored(r)[f] = r[f]
    BY RecordDeltaAssumption DEF Stored
  <2>2. Stored(s)[f] \in {Marker, Embedded} \/ Stored(s)[f] = s[f]
    BY RecordDeltaAssumption DEF Stored
  <2> QED  BY <2>1, <2>2
<1> QED  BY <1>1, <1>2 DEF ContainsRedaction

(* What is stored of one value is one value.                                 *)
LEMMA StoredAlike ==
  ASSUME NEW r, NEW s, NEW f \in DOMAIN r, f \in DOMAIN s, r[f] = s[f]
  PROVE  Stored(r)[f] = Stored(s)[f]
  BY DEF Stored

(* Different records stored alike have a value that is stored as a marker.   *)
LEMMA StoredRecordsTellApart ==
  ASSUME NEW r, NEW s, r = [f \in DOMAIN r |-> r[f]], s = [f \in DOMAIN s |-> s[f]],
         Stored(r) = Stored(s), r # s
  PROVE  ContainsRedaction(Stored(r)) \/ ContainsRedaction(Stored(s))
<1>1. DOMAIN r = DOMAIN s
  <2>1. DOMAIN Stored(r) = DOMAIN r /\ DOMAIN Stored(s) = DOMAIN s
    BY DEF Stored
  <2> QED  BY <2>1
<1>2. PICK f \in DOMAIN r : r[f] # s[f]
  BY <1>1
<1> QED  BY <1>1, <1>2, StoredTellsApart

-----------------------------------------------------------------------------
(* RecordDelta: the comparison. *)

(* What RecordsAreAccounted says of one comparison of two lists.             *)
Accounts(delta, before, after) ==
    LET matched == delta.changed \union delta.unchanged
        key == delta.key
    IN  /\ Cardinality(matched) + Cardinality(delta.removed) = Len(before)
        /\ Cardinality(matched) + Cardinality(delta.added) = Len(after)
        /\ \A i \in delta.removed, j \in DOMAIN after : before[i][key] # after[j][key]
        /\ \A p \in matched :
              before[p[1]][key] # after[p[2]][key] => delta.hidden > 0
        /\ \A p \in delta.unchanged :
              before[p[1]] # after[p[2]] => delta.hidden > 0

(* A key that identifies the stored records is a field of the original ones. *)
LEMMA KeysOfStored ==
  ASSUME NEW items, IsRecordList(items), NEW key, Identifies(StoredItems(items), key)
  PROVE  /\ DOMAIN StoredItems(items) = DOMAIN items
         /\ \A i \in DOMAIN items : /\ key \in DOMAIN items[i]
                                    /\ StoredItems(items)[i] = Stored(items[i])
         /\ \A i, j \in DOMAIN items :
               StoredItems(items)[i][key] = StoredItems(items)[j][key] => i = j
<1>1. /\ DOMAIN StoredItems(items) = DOMAIN items
      /\ \A i \in DOMAIN items : StoredItems(items)[i] = Stored(items[i])
  BY DEF StoredItems
<1>2. \A i \in DOMAIN items : key \in DOMAIN Stored(items[i])
  BY <1>1 DEF Identifies, HasKey
<1>3. \A r : DOMAIN Stored(r) = DOMAIN r
  BY DEF Stored
<1> QED  BY <1>1, <1>2, <1>3 DEF Identifies

LEMMA ComparedAccounts ==
  ASSUME NEW before, NEW after, NEW key,
         IsRecordList(before), IsRecordList(after),
         Identifies(StoredItems(before), key), Identifies(StoredItems(after), key)
  PROVE  Accounts(Compared(StoredItems(before), StoredItems(after), key), before, after)
<1> DEFINE b == StoredItems(before)
           a == StoredItems(after)
           pairs == Pairs(b, a, key)
           added == {j \in DOMAIN a : \A i \in DOMAIN b : <<i, j>> \notin pairs}
           removed == {i \in DOMAIN b : \A j \in DOMAIN a : <<i, j>> \notin pairs}
           changed == {p \in pairs : b[p[1]] # a[p[2]]}
           hidden == {p \in pairs : \/ ContainsRedaction(b[p[1]])
                                    \/ ContainsRedaction(a[p[2]])}
           delta == Compared(b, a, key)
<1>1. /\ DOMAIN b = DOMAIN before /\ DOMAIN a = DOMAIN after
      /\ \A i \in DOMAIN before : key \in DOMAIN before[i] /\ b[i] = Stored(before[i])
      /\ \A i \in DOMAIN after : key \in DOMAIN after[i] /\ a[i] = Stored(after[i])
      /\ \A i, j \in DOMAIN before : b[i][key] = b[j][key] => i = j
      /\ \A i, j \in DOMAIN after : a[i][key] = a[j][key] => i = j
  BY KeysOfStored
<1>2. /\ delta.key = key /\ delta.added = added /\ delta.removed = removed
      /\ delta.changed = changed /\ delta.unchanged = pairs \ changed
      /\ delta.hidden = Cardinality(hidden)
  BY DEF Compared
<1> HIDE DEF b, a, delta
<1>3. \A p : p \in pairs <=> /\ p \in (DOMAIN before) \X (DOMAIN after)
                             /\ b[p[1]][key] = a[p[2]][key]
  BY <1>1 DEF Pairs
<1>4. \A i \in DOMAIN before, j \in DOMAIN after :
         <<i, j>> \in pairs <=> b[i][key] = a[j][key]
  BY <1>3
<1> HIDE DEF pairs
<1>5. /\ IsFiniteSet(pairs)
      /\ Cardinality(pairs) + Cardinality(removed) = Len(before)
  <2> DEFINE side == [p \in pairs |-> p[1]]
  <2>1. side \in [pairs -> DOMAIN before]
    BY <1>3
  <2>2. \A p, q \in pairs : side[p] = side[q] => p = q
    <3> SUFFICES ASSUME NEW p \in pairs, NEW q \in pairs, p[1] = q[1] PROVE p = q
      OBVIOUS
    <3>1. /\ p \in (DOMAIN before) \X (DOMAIN after) /\ q \in (DOMAIN before) \X (DOMAIN after)
          /\ a[p[2]][key] = a[q[2]][key]
      BY <1>3
    <3>2. p[2] = q[2]
      BY <1>1, <3>1
    <3> QED  BY <3>1, <3>2
  <2>3. removed = {i \in DOMAIN before : \A p \in pairs : side[p] # i}
    <3>1. ASSUME NEW i \in DOMAIN before
          PROVE  (\A j \in DOMAIN after : <<i, j>> \notin pairs)
                    <=> (\A p \in pairs : side[p] # i)
      <4>1. ASSUME NEW p \in pairs, side[p] = i
            PROVE  \E j \in DOMAIN after : <<i, j>> \in pairs
        <5>1. p \in (DOMAIN before) \X (DOMAIN after) /\ p[1] = i
          BY <1>3, <4>1
        <5>2. p = <<i, p[2]>> /\ p[2] \in DOMAIN after
          BY <5>1
        <5> QED  BY <4>1, <5>2
      <4>2. ASSUME NEW j \in DOMAIN after, <<i, j>> \in pairs
            PROVE  side[<<i, j>>] = i
        BY <4>2
      <4> QED  BY <4>1, <4>2
    <3> QED  BY <1>1, <3>1
  <2>4. IsFiniteSet(DOMAIN before) /\ Cardinality(DOMAIN before) = Len(before)
    BY RecordsOfList
  <2> HIDE DEF side, removed
  <2> QED  BY <2>1, <2>2, <2>3, <2>4, MatchedOnce
<1>6. Cardinality(pairs) + Cardinality(added) = Len(after)
  <2> DEFINE side == [p \in pairs |-> p[2]]
  <2>1. side \in [pairs -> DOMAIN after]
    BY <1>3
  <2>2. \A p, q \in pairs : side[p] = side[q] => p = q
    <3> SUFFICES ASSUME NEW p \in pairs, NEW q \in pairs, p[2] = q[2] PROVE p = q
      OBVIOUS
    <3>1. /\ p \in (DOMAIN before) \X (DOMAIN after) /\ q \in (DOMAIN before) \X (DOMAIN after)
          /\ b[p[1]][key] = b[q[1]][key]
      BY <1>3
    <3>2. p[1] = q[1]
      BY <1>1, <3>1
    <3> QED  BY <3>1, <3>2
  <2>3. added = {j \in DOMAIN after : \A p \in pairs : side[p] # j}
    <3>1. ASSUME NEW j \in DOMAIN after
          PROVE  (\A i \in DOMAIN before : <<i, j>> \notin pairs)
                    <=> (\A p \in pairs : side[p] # j)
      <4>1. ASSUME NEW p \in pairs, side[p] = j
            PROVE  \E i \in DOMAIN before : <<i, j>> \in pairs
        <5>1. p \in (DOMAIN before) \X (DOMAIN after) /\ p[2] = j
          BY <1>3, <4>1
        <5>2. p = <<p[1], j>> /\ p[1] \in DOMAIN before
          BY <5>1
        <5> QED  BY <4>1, <5>2
      <4>2. ASSUME NEW i \in DOMAIN before, <<i, j>> \in pairs
            PROVE  side[<<i, j>>] = j
        BY <4>2
      <4> QED  BY <4>1, <4>2
    <3> QED  BY <1>1, <3>1
  <2>4. IsFiniteSet(DOMAIN after) /\ Cardinality(DOMAIN after) = Len(after)
    BY RecordsOfList
  <2> HIDE DEF side, added
  <2> QED  BY <2>1, <2>2, <2>3, <2>4, MatchedOnce
<1>7. changed \union (pairs \ changed) = pairs
  OBVIOUS
<1>8. ASSUME NEW i \in removed, NEW j \in DOMAIN after
      PROVE  before[i][key] # after[j][key]
  <2>1. i \in DOMAIN before /\ b[i][key] # a[j][key]
    BY <1>1, <1>4
  <2>2. b[i] = Stored(before[i]) /\ a[j] = Stored(after[j])
        /\ key \in DOMAIN before[i] /\ key \in DOMAIN after[j]
    BY <1>1, <2>1
  <2> QED  BY <2>1, <2>2, StoredAlike
<1>9. ASSUME NEW p \in pairs,
             ContainsRedaction(b[p[1]]) \/ ContainsRedaction(a[p[2]])
      PROVE  delta.hidden > 0
  <2>1. hidden \in SUBSET pairs /\ hidden # {}
    BY <1>9
  <2>2. IsFiniteSet(hidden)
    BY <1>5, <2>1, FS_Subset
  <2>3. Cardinality(hidden) \in Nat /\ Cardinality(hidden) # 0
    BY <2>1, <2>2, FS_CardinalityType, FS_EmptySet
  <2> QED  BY <1>2, <2>3
<1>10. ASSUME NEW p \in pairs
       PROVE  /\ p[1] \in DOMAIN before /\ p[2] \in DOMAIN after
              /\ b[p[1]] = Stored(before[p[1]]) /\ a[p[2]] = Stored(after[p[2]])
              /\ key \in DOMAIN before[p[1]] /\ key \in DOMAIN after[p[2]]
  BY <1>1, <1>3
<1>11. ASSUME NEW p \in pairs, before[p[1]][key] # after[p[2]][key]
       PROVE  delta.hidden > 0
  <2>1. b[p[1]][key] = a[p[2]][key]
    BY <1>3
  <2> QED  BY <1>9, <1>10, <1>11, <2>1, StoredTellsApart
<1>12. ASSUME NEW p \in pairs \ changed, before[p[1]] # after[p[2]]
       PROVE  delta.hidden > 0
  <2>1. b[p[1]] = a[p[2]]
    OBVIOUS
  <2>2. /\ before[p[1]] = [f \in DOMAIN before[p[1]] |-> before[p[1]][f]]
        /\ after[p[2]] = [f \in DOMAIN after[p[2]] |-> after[p[2]][f]]
    BY <1>10 DEF IsRecordList
  <2> QED  BY <1>9, <1>10, <1>12, <2>1, <2>2, StoredRecordsTellApart
<1> HIDE DEF changed, added, removed, hidden
<1>13. Accounts(delta, before, after)
  BY <1>2, <1>5, <1>6, <1>7, <1>8, <1>11, <1>12 DEF Accounts
<1> QED  BY <1>13 DEF delta, b, a

(* The search for a collection finds a path, or none.                        *)
LEMMA FoundIsAPath ==
  ASSUME NEW payload
  PROVE  FindCollection(payload) \in ToSet(PathOrder) \union {None}
<1>1. PICK wanted : FindCollection(payload) = FirstIn(PathOrder, wanted)
  BY DEF FindCollection
<1> DEFINE I == {i \in 1..Len(PathOrder) : PathOrder[i] \in wanted}
           first == IF I # {} THEN Min(I) ELSE 0
<1>2. FirstIn(PathOrder, wanted) = IF first = 0 THEN None ELSE PathOrder[first]
  BY DEF FirstIn, SelectInSeq
<1>3. PathOrder \in Seq(ToSet(PathOrder))
  BY RecordDeltaAssumption
<1>4. /\ Len(PathOrder) \in Nat
      /\ \A i \in 1..Len(PathOrder) : PathOrder[i] \in ToSet(PathOrder)
  BY <1>3, LenProperties, ElementOfSeq
<1>5. I \in SUBSET (1..Len(PathOrder))
  OBVIOUS
<1> HIDE DEF I
<1>6. CASE I # {}
  <2>1. PICK n \in I : \A m \in I : n <= m
    <3>1. I \in SUBSET Nat
      BY <1>4, <1>5
    <3> QED  BY <1>6, <3>1, LeastNumber, Zenon
  <2>2. Min(I) \in I
    BY <2>1, Zenon DEF Min
  <2> QED  BY <1>1, <1>2, <1>4, <1>5, <1>6, <2>2
<1>7. CASE I = {}
  BY <1>1, <1>2, <1>7
<1> QED  BY <1>6, <1>7

LEMMA RecordInvNext == RecordInv /\ [RecordNext]_recordVars => RecordInv'
  BY DEF RecordInv, RecordNext, CompareCollections, recordVars

LEMMA AccountedFor == RecordInv => RecordsAreAccounted
<1> SUFFICES ASSUME RecordInv, recordDelta # None, recordDelta.status = "compared"
             PROVE  RecordsAreAccounted
  BY DEF RecordsAreAccounted
<1> DEFINE path == ComparedPath
           before == Originals(sides.before)
           after == Originals(sides.after)
           key == IF recordRequest.key # None THEN recordRequest.key
                  ELSE InferKey(StoredItems(before), StoredItems(after))
           gapless == Gapless(sides.before.capture) /\ Gapless(sides.after.capture)
<1>1. \A status : Unavailable(status).status = status
  BY DEF Unavailable
<1>2. recordDelta = CompareRecords(sides.before, sides.after, recordRequest)
  BY DEF RecordInv
<1>3. /\ path # None /\ before # None /\ after # None
      /\ recordDelta = CompareItems(StoredItems(before), StoredItems(after),
                                    recordRequest, gapless)
  BY <1>1, <1>2 DEF CompareRecords, ComparedPath, Originals
<1>4. /\ gapless /\ Identifies(StoredItems(before), key)
      /\ Identifies(StoredItems(after), key)
      /\ recordDelta = Compared(StoredItems(before), StoredItems(after), key)
  BY <1>1, <1>3 DEF CompareItems
<1>5. path \in ToSet(PathOrder)
  BY <1>3, FoundIsAPath, RecordDeltaAssumption DEF RecordInv, ComparedPath
<1>6. IsRecordList(before) /\ IsRecordList(after)
  BY <1>3, <1>5, RecordDeltaAssumption DEF RecordInv, Originals
<1>7. Accounts(recordDelta, before, after)
  <2> HIDE DEF before, after, key
  <2> QED  BY <1>4, <1>6, ComparedAccounts
<1>8. sides.before.capture.whole /\ sides.after.capture.whole
  BY <1>4 DEF Gapless
<1> QED  BY <1>7, <1>8 DEF RecordsAreAccounted, Accounts

(* records.rs: whatever records two complete captures hold and whichever key  *)
(* is used, the comparison counts each of them once, calls none removed that  *)
(* is still there, and says when redaction hid a difference from it.          *)
THEOREM ComparisonAccounts == RecordSpec => []RecordsAreAccounted
<1>1. RecordInit => RecordInv
  BY DEF RecordInit, RecordInv
<1> QED  BY <1>1, RecordInvNext, AccountedFor, PTL DEF RecordSpec

-----------------------------------------------------------------------------
(* Delta: what the runner's summary says of the tests that failed. *)

(* Every outcome is reported with at most one failing status.                *)
LEMMA FailsOnce ==
  ASSUME NEW tool, NEW outcome
  PROVE  ~("failed" \in Reported(tool, outcome) /\ "error" \in Reported(tool, outcome))
  BY DEF Reported, Status

(* The tests of a run that are reported as failing.                          *)
FailingTests(run) ==
    {t \in Test : \E status \in Failing : status \in Reported(run.tool, run.outcome[t])}

LEMMA FailingCount ==
  ASSUME NEW run, Summary(run) # None
  PROVE  /\ IsFiniteSet(FailingTests(run))
         /\ Summary(run)["failed"] + Summary(run)["error"] = Cardinality(FailingTests(run))
<1> DEFINE with(status) == {t \in Test : status \in Reported(run.tool, run.outcome[t])}
<1>1. IsFiniteSet(with("failed")) /\ IsFiniteSet(with("error"))
  <2>1. with("failed") \in SUBSET Test /\ with("error") \in SUBSET Test
    OBVIOUS
  <2> HIDE DEF with
  <2> QED  BY <2>1, TestRunsAssumption, FS_Subset
<1>2. with("failed") \cap with("error") = {}
  BY FailsOnce
<1>3. FailingTests(run) = with("failed") \cup with("error")
  BY DEF FailingTests, Failing
<1>4. /\ Summary(run)["failed"] = Cardinality(with("failed"))
      /\ Summary(run)["error"] = Cardinality(with("error"))
  BY DEF Summary, Status
<1> HIDE DEF with
<1>5. /\ IsFiniteSet(FailingTests(run))
      /\ Cardinality(FailingTests(run))
            = Cardinality(with("failed")) + Cardinality(with("error")) - Cardinality({})
  BY <1>1, <1>2, <1>3, FS_Union
<1>6. Cardinality({}) = 0
  BY FS_EmptySet
<1>7. Cardinality(with("failed")) \in Nat /\ Cardinality(with("error")) \in Nat
  BY <1>1, FS_CardinalityType
<1> QED  BY <1>4, <1>5, <1>6, <1>7

(* A name that is kept failing is of a test that was reported as failing.    *)
LEMMA NamedFailed ==
  ASSUME NEW run, Normalized(run)
  PROVE  /\ Records(run) = Lines(run)
         /\ DOMAIN Named(run) = {line.test : line \in Lines(run)}
         /\ \A t \in DOMAIN Named(run) :
               /\ Named(run)[t] \in Status
               /\ \E line \in Lines(run) : line.test = t /\ line.status = Named(run)[t]
<1>1. Records(run) = Lines(run)
  BY DEF Normalized, Records
<1>2. DOMAIN Named(run) = {line.test : line \in Lines(run)}
  BY <1>1 DEF Named
<1>3. ASSUME NEW t \in {line.test : line \in Lines(run)}
      PROVE  /\ Named(run)[t] \in Status
             /\ \E line \in Lines(run) : line.test = t /\ line.status = Named(run)[t]
  <2> DEFINE statuses == {line.status : line \in {l \in Lines(run) : l.test = t}}
  <2>1. Named(run)[t] = IF "skipped" \in statuses THEN "skipped"
                        ELSE IF "passed" \in statuses THEN "passed"
                        ELSE IF "failed" \in statuses THEN "failed" ELSE "error"
    BY <1>1 DEF Named
  <2>2. \A line \in Lines(run) : line.status \in Status
    BY DEF Lines
  <2>3. statuses # {} /\ statuses \subseteq Status
    BY <2>2
  <2>4. Named(run)[t] \in statuses
    BY <2>1, <2>3 DEF Status
  <2> QED  BY <2>3, <2>4
<1> QED  BY <1>1, <1>2, <1>3

(* If as many names are kept failing as the summary counts, every test that  *)
(* was reported as failing is one of them.                                   *)
LEMMA EveryFailureIsNamed ==
  ASSUME NEW run, Normalized(run), Summary(run) # None,
         Population(run).failing <= Cardinality(FailingNames(Population(run)))
  PROVE  FailingTests(run) \subseteq FailingNames(Population(run))
<1> DEFINE names == FailingNames(Population(run))
<1>1. names = {t \in DOMAIN Named(run) : Named(run)[t] \in Failing}
  BY DEF FailingNames, Population
<1>2. names \in SUBSET FailingTests(run)
  <2>1. ASSUME NEW t \in DOMAIN Named(run), Named(run)[t] \in Failing
        PROVE  t \in FailingTests(run)
    <3>1. PICK line \in Lines(run) : line.test = t /\ line.status = Named(run)[t]
      BY NamedFailed
    <3>2. t \in Test /\ line.status \in Reported(run.tool, run.outcome[t])
      BY <3>1 DEF Lines
    <3> QED  BY <2>1, <3>1, <3>2 DEF FailingTests
  <2> QED  BY <1>1, <2>1
<1>3. Population(run).failing = Cardinality(FailingTests(run))
  BY FailingCount DEF Population
<1>4. IsFiniteSet(FailingTests(run))
  BY FailingCount
<1> HIDE DEF names
<1>5. /\ Cardinality(names) <= Cardinality(FailingTests(run))
      /\ Cardinality(names) \in Nat /\ Cardinality(FailingTests(run)) \in Nat
      /\ Cardinality(FailingTests(run)) = Cardinality(names) => FailingTests(run) = names
  BY <1>2, <1>4, FS_Subset, FS_CardinalityType
<1>6. Cardinality(FailingTests(run)) <= Cardinality(names)
  BY <1>3 DEF names
<1> QED  BY <1>5, <1>6 DEF names

(* A test that is named with a status other than skipped was executed.       *)
LEMMA NamedRan ==
  ASSUME NEW run, Normalized(run), NEW t \in DOMAIN Named(run),
         Named(run)[t] \in {"passed", "failed", "error"}
  PROVE  run.outcome[t] \in Executed
<1>1. PICK line \in Lines(run) : line.test = t /\ line.status = Named(run)[t]
  BY NamedFailed
<1>2. line.status \in Reported(run.tool, run.outcome[t])
  BY <1>1 DEF Lines
<1> QED  BY <1>1, <1>2 DEF Reported, Status, Executed

-----------------------------------------------------------------------------
(* Delta: when an absence is proved. *)

(* All that a claim of exhaustiveness by a provider says here: the runner    *)
(* came to its summary.                                                      *)
LEMMA ExhaustiveIsCounted ==
  ASSUME NEW run, run.tool \in Providers,
         Selection(run).exhaustive \/ Selection(run).onlySkips
  PROVE  Summary(run) # None
<1>1. ProviderSelection(run).exhaustive \/ ProviderSelection(run).onlySkips
  BY DEF Selection
<1>2. Completion(run) \in {"consistent", "skipped"}
  BY <1>1 DEF ProviderSelection
<1> QED  BY <1>2 DEF Completion

(* What a comparison that proves absence has of its two captures.            *)
Proves(before, after) ==
    /\ before.run.tool = after.run.tool /\ before.run.scopes = after.run.scopes
    /\ CanProve(before.run) /\ CanProve(after.run)
    /\ before.run.tool \in Providers =>
          /\ Summary(before.run) # None
          /\ SamePopulation(Population(before.run), Population(after.run))
    /\ before.run.tool \notin Providers => before.run.declared /\ after.run.declared

LEMMA ProvenProves ==
  ASSUME NEW before, NEW after, NEW hasBefore, NEW hasAfter,
         before = Observation(before.run, before), after = Observation(after.run, after),
         LET oldTests == PopulationOf(before, hasBefore)
             newTests == PopulationOf(after, hasAfter)
         IN  /\ Comparable(before, after, hasBefore /\ hasAfter,
                           SharedSkips(before, after, oldTests, newTests))
             /\ SamePopulation(oldTests, newTests)
  PROVE  hasBefore /\ hasAfter /\ Proves(before, after)
<1> DEFINE oldTests == PopulationOf(before, hasBefore)
           newTests == PopulationOf(after, hasAfter)
           shared == SharedSkips(before, after, oldTests, newTests)
<1>1. /\ before.selection = Selection(before.run) /\ after.selection = Selection(after.run)
      /\ before.canProve = CanProve(before.run) /\ after.canProve = CanProve(after.run)
  BY DEF Observation
<1>2. /\ hasBefore /\ hasAfter /\ SameInvocation(before, after)
      /\ before.canProve /\ after.canProve
      /\ Exhaustive(before, shared) /\ Exhaustive(after, shared)
  BY DEF Comparable
<1>3. /\ before.run.tool = after.run.tool /\ before.run.scopes = after.run.scopes
      /\ CanProve(before.run) /\ CanProve(after.run)
  BY <1>1, <1>2 DEF SameInvocation
<1>4. ASSUME before.run.tool \in Providers
      PROVE  /\ Summary(before.run) # None
             /\ SamePopulation(Population(before.run), Population(after.run))
  <2>1. Selection(before.run).exhaustive \/ Selection(before.run).onlySkips
    BY <1>1, <1>2 DEF Exhaustive
  <2>2. oldTests = Population(before.run) /\ newTests = Population(after.run)
    BY <1>2, <1>3, <1>4 DEF PopulationOf
  <2> QED  BY <1>4, <2>1, <2>2, ExhaustiveIsCounted
<1>5. ASSUME before.run.tool \notin Providers
      PROVE  before.run.declared /\ after.run.declared
  <2>1. /\ Selection(before.run).exhaustive = before.run.declared
        /\ Selection(after.run).exhaustive = after.run.declared
        /\ ~Selection(before.run).onlySkips
    BY <1>3, <1>5 DEF Selection
  <2>2. ~shared
    BY <1>1, <2>1 DEF SharedSkips
  <2> QED  BY <1>1, <1>2, <2>1, <2>2 DEF Exhaustive
<1> QED  BY <1>2, <1>3, <1>4, <1>5 DEF Proves

(* A failing test of the earlier run has run again in the later one.         *)
LEMMA ProvedRanAgain ==
  ASSUME NEW before, NEW after, before.run \in Runs, after.run \in Runs,
         Proves(before, after),
         NEW line \in Lines(before.run), line.status \in Failing
  PROVE  RanAgain(after.run, line.test)
<1>1. line.test \in Test /\ line.status \in Reported(before.run.tool, before.run.outcome[line.test])
  BY DEF Lines
<1>2. CASE before.run.tool \in Providers
  <2>1. Normalized(before.run) /\ Normalized(after.run) /\ after.run.tool \in Providers
    BY <1>2 DEF Proves, CanProve, ProviderComplete
  <2>2. line.test \in FailingTests(before.run)
    BY <1>1 DEF FailingTests
  <2>3. Summary(before.run) # None /\ SamePopulation(Population(before.run), Population(after.run))
    BY <1>2 DEF Proves
  <2>4. Population(before.run) # None /\ Population(after.run) # None
    BY DeltaAssumption
  <2>5. Population(before.run).counted
    BY <2>3 DEF Population
  <2>6. /\ Population(before.run).failing <= Cardinality(FailingNames(Population(before.run)))
        /\ \A t \in FailingNames(Population(before.run)) :
              /\ t \in DOMAIN Population(after.run).tests
              /\ Population(after.run).tests[t] \in {"passed", "failed", "error"}
    BY <2>3, <2>4, <2>5 DEF SamePopulation
  <2>7. line.test \in FailingNames(Population(before.run))
    BY <2>1, <2>2, <2>3, <2>6, EveryFailureIsNamed
  <2>8. Population(after.run).tests = Named(after.run)
    BY DEF Population
  <2>9. after.run.outcome[line.test] \in Executed
    BY <2>1, <2>6, <2>7, <2>8, NamedRan
  <2> QED  BY <2>1, <2>9 DEF RanAgain
<1>3. CASE before.run.tool \notin Providers
  <2>1. before.run.outcome[line.test] # "filtered"
    BY <1>1 DEF Reported, Status
  <2>2. /\ before.run.declared /\ after.run.declared /\ after.run.tool \notin Providers
        /\ before.run.scopes = after.run.scopes
    BY <1>3 DEF Proves
  <2>3. after.run.outcome[line.test] # "filtered"
    BY <1>1, <1>3, <2>1, <2>2, DeltaAssumption
  <2> QED  BY <2>2, <2>3 DEF RanAgain
<1> QED  BY <1>2, <1>3

-----------------------------------------------------------------------------
(* Delta: the invariant. *)

IsObservation(capture) ==
    capture.run \in Runs /\ capture = Observation(capture.run, capture)

LEMMA ObservationIsOne ==
  ASSUME NEW run \in Runs, NEW fetched
  PROVE  IsObservation(Observation(run, fetched))
  BY DEF IsObservation, Observation

LEMMA DeltaInvInit == DeltaInit => DeltaInv
  BY EmptySeq DEF DeltaInit, DeltaInv

LEMMA DeltaInvNext == DeltaInv /\ [DeltaNext]_deltaVars => DeltaInv'
<1> SUFFICES ASSUME DeltaInv, [DeltaNext]_deltaVars PROVE DeltaInv'
  OBVIOUS
<1> DEFINE kept == {captures[i] : i \in DOMAIN captures}
<1>1. captures \in Seq(kept) /\ \A i \in DOMAIN captures : IsObservation(captures[i])
  BY DEF DeltaInv, IsObservation
<1>2. CASE Capture
  <2>1. PICK run \in Runs, fetched \in SourceStates :
             captures' = Append(captures, Observation(run, fetched))
    BY <1>2 DEF Capture
  <2> DEFINE made == Observation(run, fetched)
             more == kept \union {made}
  <2>2. IsObservation(made)
    BY ObservationIsOne
  <2>3. /\ captures \in Seq(more) /\ made \in more
    BY <1>1, SeqMonotonic
  <2>4. captures' = Append(captures, made)
    BY <2>1
  <2> HIDE DEF made, more, kept
  <2>5. /\ captures' \in Seq(more)
        /\ DOMAIN captures' = 1..(Len(captures) + 1) /\ DOMAIN captures = 1..Len(captures)
        /\ \A i \in 1..Len(captures) : captures'[i] = captures[i]
        /\ captures'[Len(captures) + 1] = made /\ Len(captures) \in Nat
    BY <2>3, <2>4, AppendProperties, LenProperties
  <2>6. captures' \in Seq(Range(captures'))
    BY <2>5, SeqOfRange
  <2>7. Range(captures') = {captures'[i] : i \in DOMAIN captures'}
    BY DEF Range
  <2>8. \A i \in DOMAIN captures' : IsObservation(captures'[i])
    <3> TAKE i \in DOMAIN captures'
    <3>1. i \in 1..Len(captures) \/ i = Len(captures) + 1
      BY <2>5
    <3> QED  BY <1>1, <2>2, <2>5, <3>1
  <2>9. report' = None
    BY <1>2 DEF Capture
  <2> QED  BY <2>6, <2>7, <2>8, <2>9 DEF DeltaInv, IsObservation
<1>3. CASE LoseCapture
  BY <1>3 DEF LoseCapture, DeltaInv
<1>4. CASE CompareCaptures
  <2>1. PICK i \in DOMAIN captures, j \in DOMAIN captures :
             /\ report' = [before |-> i, after |-> j,
                           delta |-> Compare(captures[i], captures[j],
                                             i \in available, j \in available)]
             /\ UNCHANGED <<captures, available>>
    BY <1>4 DEF CompareCaptures
  <2> HIDE DEF kept
  <2>2. \E m, n \in DOMAIN captures' :
           report' = [before |-> m, after |-> n,
                      delta |-> Compare(captures'[m], captures'[n],
                                        m \in available', n \in available')]
    BY <2>1, Zenon
  <2> QED  BY <2>1, <2>2 DEF DeltaInv
<1>5. CASE UNCHANGED deltaVars
  BY <1>5 DEF deltaVars, DeltaInv
<1> QED  BY <1>2, <1>3, <1>4, <1>5 DEF DeltaNext

LEMMA ResolvedOfInv == DeltaInv => ResolvedRanAgain
<1> SUFFICES ASSUME DeltaInv, report # None, NEW finding \in WithStatus("resolved")
             PROVE  LET run == captures[report.after].run
                    IN  /\ RanAgain(run, finding.test)
                        /\ finding.status \notin
                             Reported(run.tool, run.outcome[finding.test])
  BY DEF ResolvedRanAgain
<1>1. PICK i \in DOMAIN captures, j \in DOMAIN captures :
           report = [before |-> i, after |-> j,
                     delta |-> Compare(captures[i], captures[j],
                                       i \in available, j \in available)]
  BY DEF DeltaInv
<1> DEFINE before == captures[i]
           after == captures[j]
           hasBefore == i \in available
           hasAfter == j \in available
           old == Findings(before, hasBefore)
           new == Findings(after, hasAfter)
           oldTests == PopulationOf(before, hasBefore)
           newTests == PopulationOf(after, hasAfter)
           proven == /\ Comparable(before, after, hasBefore /\ hasAfter,
                                   SharedSkips(before, after, oldTests, newTests))
                     /\ SamePopulation(oldTests, newTests)
<1>2. /\ before.run \in Runs /\ before = Observation(before.run, before)
      /\ after.run \in Runs /\ after = Observation(after.run, after)
  BY DEF DeltaInv
<1> HIDE DEF before, after, hasBefore, hasAfter
<1>3. report.delta = Compare(before, after, hasBefore, hasAfter) /\ captures[report.after] = after
  BY <1>1 DEF before, after, hasBefore, hasAfter
<1>4. finding \in old \union new /\ StatusOf(finding, before, after, old, new, proven) = "resolved"
  <2> DEFINE names == old \union new
  <2>1. report.delta.status = [f \in names |-> StatusOf(f, before, after, old, new, proven)]
    BY <1>3 DEF Compare
  <2>2. finding \in DOMAIN report.delta.status /\ report.delta.status[finding] = "resolved"
    BY DEF WithStatus
  <2> HIDE DEF names, old, new, proven
  <2>3. finding \in names /\ StatusOf(finding, before, after, old, new, proven) = "resolved"
    BY <2>1, <2>2
  <2> QED  BY <2>3 DEF names
<1>5. finding \in old /\ finding \notin new /\ proven
  BY <1>4 DEF StatusOf
<1>6. hasBefore /\ hasAfter /\ Proves(before, after)
  BY <1>2, <1>5, ProvenProves
<1>7. finding \in Lines(before.run) /\ finding.status \in Failing
  BY <1>5, <1>6 DEF Findings
<1>8. RanAgain(after.run, finding.test)
  BY <1>2, <1>6, <1>7, ProvedRanAgain
<1>9. finding.status \notin Reported(after.run.tool, after.run.outcome[finding.test])
  <2>1. finding \in [test : Test, status : Status]
    BY <1>7 DEF Lines
  <2>2. finding \notin Lines(after.run)
    BY <1>5, <1>6, <1>7 DEF Findings
  <2>3. after.run.ending # "truncated"
    BY <1>6 DEF Proves, CanProve
  <2> QED  BY <1>7, <2>1, <2>2, <2>3 DEF Lines
<1> QED  BY <1>3, <1>8, <1>9

(* What a delta rests on: every capture records what its run gives, and a     *)
(* report compares two captures as they are.                                  *)
THEOREM DeltaInvariant == DeltaSpec => []DeltaInv
  BY DeltaInvInit, DeltaInvNext, PTL DEF DeltaSpec

(* delta.rs, test_population_reasons: however the runs between two captures   *)
(* ended and whatever was selected, a failure is called resolved only if its  *)
(* test ran again to its end and did not fail so.                             *)
THEOREM ResolvedMeansRanAgain == DeltaSpec => []ResolvedRanAgain
  BY DeltaInvariant, ResolvedOfInv, PTL

-----------------------------------------------------------------------------
(* Coverage: the records that match, by their position.                      *)

LEMMA PositionFacts ==
  ASSUME NEW N \in Nat, NEW M \in SUBSET (1 .. N)
  PROVE  /\ IsFiniteSet(M) /\ Cardinality(M) \in Nat
         /\ \A i \in M : Position(M, i) \in 0 .. Cardinality(M) - 1
         /\ \A i, j \in M : i < j => Position(M, i) < Position(M, j)
         /\ \A q \in 0 .. Cardinality(M) - 1 : \E i \in M : Position(M, i) = q
<1> DEFINE Before(i) == {j \in M : j < i}
<1>1. IsFiniteSet(M) /\ Cardinality(M) \in Nat
  <2>1. IsFiniteSet(1 .. N)
    BY FS_Interval
  <2>2. IsFiniteSet(M)
    BY <2>1, FS_Subset
  <2> QED  BY <2>2, FS_CardinalityType
<1>2. ASSUME NEW i \in M, NEW T \in SUBSET M, Before(i) \union {i} \subseteq T
      PROVE  /\ Position(M, i) \in Nat
             /\ Position(M, i) < Cardinality(T)
  <2>1. IsFiniteSet(T) /\ IsFiniteSet(Before(i))
    BY <1>1, FS_Subset
  <2>2. Cardinality(T) \in Nat /\ Cardinality(Before(i)) \in Nat
    BY <2>1, FS_CardinalityType
  <2>3. i \notin Before(i)
    OBVIOUS
  <2> HIDE DEF Before
  <2>4. Cardinality(Before(i) \union {i}) = Cardinality(Before(i)) + 1
    BY <2>1, <2>3, FS_AddElement
  <2>5. Cardinality(Before(i) \union {i}) <= Cardinality(T)
    BY <1>2, <2>1, FS_Subset
  <2>6. Position(M, i) = Cardinality(Before(i))
    BY DEF Position, Before
  <2> QED  BY <2>2, <2>4, <2>5, <2>6
<1>3. \A i \in M : Position(M, i) \in 0 .. Cardinality(M) - 1
  <2> TAKE i \in M
  <2>1. Before(i) \union {i} \subseteq M
    OBVIOUS
  <2> QED  BY <1>1, <1>2, <2>1
<1>4. \A i, j \in M : i < j => Position(M, i) < Position(M, j)
  <2> SUFFICES ASSUME NEW i \in M, NEW j \in M, i < j
               PROVE  Position(M, i) < Position(M, j)
    OBVIOUS
  <2>1. Before(i) \union {i} \subseteq Before(j) /\ Before(j) \subseteq M
    <3>1. \A k \in M : k \in Nat
      OBVIOUS
    <3>2. \A k \in M : k < i => k < j
      BY <3>1
    <3> QED  BY <3>2
  <2>2. Position(M, j) = Cardinality(Before(j))
    BY DEF Position
  <2> HIDE DEF Before
  <2> QED  BY <1>2, <2>1, <2>2
<1>5. \A q \in 0 .. Cardinality(M) - 1 : \E i \in M : Position(M, i) = q
  <2> DEFINE place == [i \in M |-> Position(M, i)]
             Q == 0 .. Cardinality(M) - 1
  <2>1. place \in [M -> Q]
    BY <1>3
  <2>2. \A i, j \in M : Position(M, i) = Position(M, j) => i = j
    <3> SUFFICES ASSUME NEW i \in M, NEW j \in M, Position(M, i) = Position(M, j)
                 PROVE  i = j
      OBVIOUS
    <3>1. Position(M, i) \in Nat
      BY <1>1, <1>3
    <3> QED  BY <1>4, <3>1
  <2>3. place \in Injection(M, Q)
    BY <2>1, <2>2 DEF Injection, IsInjective
  <2>4. IsFiniteSet(Q) /\ Cardinality(Q) = Cardinality(M)
    BY <1>1, FS_Interval, SMTT(30)
  <2>5. place \in Surjection(M, Q)
    <3> HIDE DEF place, Q
    <3> QED  BY <2>3, <2>4, FS_Injection
  <2> QED  BY <2>5 DEF Surjection
<1> QED  BY <1>1, <1>3, <1>4, <1>5

LEMMA MinOfTwo ==
  ASSUME NEW a \in Int, NEW b \in Int
  PROVE  Min({a, b}) = IF a <= b THEN a ELSE b
  BY DEF Min

(* A page has the records at the next positions, as many as it has room for.  *)
LEMMA PageFacts ==
  ASSUME NEW N \in Nat, NEW M \in SUBSET (1 .. N),
         NEW offset \in 0 .. Cardinality(M), NEW limit \in Nat \ {0}
  PROVE  /\ Page(M, offset, limit) \in Seq(M)
         /\ Len(Page(M, offset, limit)) =
               IF limit <= Cardinality(M) - offset THEN limit ELSE Cardinality(M) - offset
         /\ \A n \in DOMAIN Page(M, offset, limit) :
               Position(M, Page(M, offset, limit)[n]) = offset + n - 1
<1> DEFINE room == Min({limit, Cardinality(M) - offset})
           at(n) == CHOOSE i \in M : Position(M, i) = offset + n - 1
<1>1. Cardinality(M) \in Nat
  BY PositionFacts
<1>2. room = IF limit <= Cardinality(M) - offset THEN limit ELSE Cardinality(M) - offset
  BY <1>1, MinOfTwo
<1>3. room \in Nat
  BY <1>1, <1>2
<1>4. \A n \in 1 .. room : at(n) \in M /\ Position(M, at(n)) = offset + n - 1
  <2> SUFFICES ASSUME NEW n \in 1 .. room
               PROVE  \E i \in M : Position(M, i) = offset + n - 1
    OBVIOUS
  <2>1. offset + n - 1 \in 0 .. Cardinality(M) - 1
    BY <1>1, <1>2
  <2> QED  BY <2>1, PositionFacts
<1>5. Page(M, offset, limit) = [n \in 1 .. room |-> at(n)]
  BY DEF Page
<1> HIDE DEF room, at
<1>6. Page(M, offset, limit) \in Seq(M)
  BY <1>3, <1>4, <1>5, SeqDef
<1>7. DOMAIN Page(M, offset, limit) = 1 .. room /\ Len(Page(M, offset, limit)) = room
  BY <1>3, <1>5, <1>6
<1> QED  BY <1>2, <1>4, <1>5, <1>6, <1>7

-----------------------------------------------------------------------------
(* Coverage: what a reader has, and what the trail says.                     *)

LEMMA MatchingRecords ==
  ASSUME records \in Collections, NEW filters
  PROVE  /\ Len(records.items) \in Nat
         /\ DOMAIN records.items = 1 .. Len(records.items)
         /\ Matching(filters) \in SUBSET (1 .. Len(records.items))
<1>1. records.items \in Seq(ToSet(records.items))
  BY CoverageAssumption
<1> QED  BY <1>1, LenProperties DEF Matching

(* Of ranges only records that were given are read back.                     *)
LEMMA NoMoreIsReadBack ==
  ASSUME NEW indices
  PROVE  ReadBack(IndexRanges(indices)) \subseteq indices
<1> SUFFICES ASSUME NEW i \in ReadBack(IndexRanges(indices))
             PROVE  i \in indices
  OBVIOUS
<1>1. PICK r \in IndexRanges(indices) : i \in r[1] .. r[2]
  BY DEF ReadBack
<1> QED  BY <1>1 DEF IndexRanges

LEMMA RangesAreRanges ==
  ASSUME NEW indices \in SUBSET Nat
  PROVE  IndexRanges(indices) \in SUBSET (Nat \X Nat)
  BY DEF IndexRanges

LEMMA CoverageInvInit == CoverageInit => CoverageInv
<1> SUFFICES ASSUME CoverageInit PROVE CoverageInv
  OBVIOUS
<1>1. trail \in Seq(SessionEvent) /\ DOMAIN trail = {}
  BY DEF CoverageInit
<1> QED  BY <1>1 DEF CoverageInit, CoverageInv, TrailIsTrue

(* A page that follows what was read leaves the reader with all of both.      *)
LEMMA OnePageMore ==
  ASSUME records \in Collections, NEW p, ReadSoFar(p), p.offset # NoOffset,
         NEW limit \in Nat \ {0}
  PROVE  LET matching == Matching(p.filters)
             page == Page(matching, Len(p.rows), limit)
         IN  /\ ReadSoFar([filters |-> p.filters,
                            offset |-> NextOffset(matching, Len(p.rows), limit),
                            rows |-> p.rows \o page])
             /\ ToSet(page) \in SUBSET Nat
<1> DEFINE matching == Matching(p.filters)
           rows == p.rows
           offset == Len(rows)
           page == Page(matching, offset, limit)
           count == Cardinality(matching)
           q == [filters |-> p.filters, offset |-> NextOffset(matching, offset, limit),
                 rows |-> rows \o page]
<1>1. /\ matching \in SUBSET (1 .. Len(records.items)) /\ Len(records.items) \in Nat
  BY MatchingRecords
<1>2. /\ p = [filters |-> p.filters, offset |-> p.offset, rows |-> rows]
      /\ rows \in Seq(matching)
      /\ \A n \in DOMAIN rows : Position(matching, rows[n]) = n - 1
      /\ offset <= count
  BY DEF ReadSoFar
<1>4. count \in Nat /\ offset \in 0 .. count
  <2>1. count \in Nat
    BY <1>1, PositionFacts
  <2>2. offset \in Nat
    BY <1>2, LenProperties
  <2> QED  BY <1>2, <2>1, <2>2
<1> HIDE DEF matching, rows, offset, page, count
<1>5. /\ page \in Seq(matching)
      /\ Len(page) = IF limit <= count - offset THEN limit ELSE count - offset
      /\ \A n \in DOMAIN page : Position(matching, page[n]) = offset + n - 1
  <2> USE DEF page, count
  <2> QED  BY <1>1, <1>4, PageFacts
<1>6. /\ rows \o page \in Seq(matching) /\ Len(rows \o page) = offset + Len(page)
      /\ \A n \in 1 .. offset + Len(page) :
            (rows \o page)[n] = IF n <= offset THEN rows[n] ELSE page[n - offset]
  BY <1>2, <1>5, ConcatProperties DEF offset
<1>7. Len(page) \in Nat /\ DOMAIN page = 1 .. Len(page) /\ DOMAIN rows = 1 .. offset
      /\ DOMAIN (rows \o page) = 1 .. offset + Len(page)
  BY <1>2, <1>5, <1>6, LenProperties DEF offset
<1>8. \A n \in DOMAIN (rows \o page) : Position(matching, (rows \o page)[n]) = n - 1
  <2> TAKE n \in DOMAIN (rows \o page)
  <2>1. CASE n <= offset
    BY <1>2, <1>4, <1>6, <1>7, <2>1
  <2>2. CASE n > offset
    <3>1. n - offset \in DOMAIN page /\ (rows \o page)[n] = page[n - offset]
      BY <1>4, <1>6, <1>7, <2>2
    <3>2. Position(matching, page[n - offset]) = offset + (n - offset) - 1
      BY <1>5, <3>1
    <3> QED  BY <1>4, <1>7, <3>1, <3>2
  <2> QED  BY <1>4, <1>7, <2>1, <2>2
<1>9. IF q.offset = NoOffset THEN Len(q.rows) = count
      ELSE q.offset = {Len(q.rows)} /\ Len(q.rows) <= count
  <2>1. q.offset = IF count > offset + limit THEN {offset + limit} ELSE {}
    BY DEF NextOffset, NoOffset, count
  <2>2. Len(q.rows) = offset + Len(page)
    BY <1>6
  <2> HIDE DEF q
  <2>3. CASE count > offset + limit
    <3>1. Len(page) = limit /\ q.offset = {offset + limit}
      BY <1>4, <1>5, <2>1, <2>3
    <3> QED  BY <1>4, <2>2, <2>3, <3>1 DEF NoOffset
  <2>4. CASE ~(count > offset + limit)
    <3>1. Len(page) = count - offset /\ q.offset = {}
      BY <1>4, <1>5, <2>1, <2>4
    <3> QED  BY <1>4, <2>2, <3>1 DEF NoOffset
  <2> QED  BY <2>3, <2>4
<1>10. ReadSoFar(q)
  BY <1>6, <1>8, <1>9 DEF ReadSoFar, matching, count
<1>11. ToSet(page) \in SUBSET Nat
  <2>1. \A n \in DOMAIN page : page[n] \in matching
    BY <1>5, ElementOfSeq
  <2>2. matching \subseteq Nat
    BY <1>1
  <2> QED  BY <2>1, <2>2 DEF ToSet
<1> QED  BY <1>10, <1>11 DEF matching, rows, offset, page, count

(* What is recorded: the events kept are of those before, or the new one.    *)
LEMMA RecordedKeeps ==
  ASSUME trail \in Seq(SessionEvent), NEW event \in SessionEvent
  PROVE  /\ Recorded(event) \in Seq(SessionEvent)
         /\ \A n \in DOMAIN Recorded(event) :
               \/ Recorded(event)[n] = event
               \/ \E m \in DOMAIN trail : Recorded(event)[n] = trail[m]
<1> DEFINE longer == Append(trail, event)
           first == Max({1, Len(longer) - MaxEvents + 1})
<1>1. /\ longer \in Seq(SessionEvent) /\ Len(longer) = Len(trail) + 1
      /\ \A i \in 1 .. Len(trail) : longer[i] = trail[i]
      /\ longer[Len(trail) + 1] = event
  BY AppendProperties
<1>2. Len(trail) \in Nat /\ DOMAIN trail = 1 .. Len(trail)
  BY LenProperties
<1>3. first \in Nat /\ first >= 1 /\ first <= Len(longer)
  <2>1. MaxEvents \in Nat \ {0}
    BY CoverageAssumption
  <2>2. first = IF 1 >= Len(longer) - MaxEvents + 1 THEN 1
                ELSE Len(longer) - MaxEvents + 1
    BY <1>1, <1>2, <2>1 DEF Max
  <2> QED  BY <1>1, <1>2, <2>1, <2>2
<1>4. Recorded(event) = SubSeq(longer, first, Len(longer))
  BY DEF Recorded
<1> HIDE DEF longer, first
<1>5. \A i \in 1 .. Len(longer) : longer[i] \in SessionEvent
  BY <1>1, <1>2, ElementOfSeq
<1>6. /\ SubSeq(longer, first, Len(longer)) \in Seq(SessionEvent)
      /\ Len(SubSeq(longer, first, Len(longer))) = Len(longer) - first + 1
      /\ \A i \in 1 .. Len(longer) - first + 1 :
            SubSeq(longer, first, Len(longer))[i] = longer[first + i - 1]
  <2>1. first \in Int /\ Len(longer) \in Int
    BY <1>1, <1>2, <1>3
  <2>2. \A i \in first .. Len(longer) : longer[i] \in SessionEvent
    BY <1>1, <1>2, <1>3, <1>5
  <2> QED  BY <1>3, <2>1, <2>2, SubSeqProperties
<1>7. ASSUME NEW n \in DOMAIN Recorded(event)
      PROVE  \/ Recorded(event)[n] = event
             \/ \E m \in DOMAIN trail : Recorded(event)[n] = trail[m]
  <2>1. n \in 1 .. Len(longer) - first + 1
    BY <1>4, <1>6, LenProperties
  <2>2. Recorded(event)[n] = longer[first + n - 1]
    BY <1>4, <1>6, <2>1
  <2>3. first + n - 1 \in 1 .. Len(trail) + 1
    BY <1>1, <1>2, <1>3, <2>1
  <2> QED  BY <1>1, <1>2, <2>2, <2>3
<1> QED  BY <1>4, <1>6, <1>7

(* The trail after an event of what is given, or has its place, now.         *)
LEMMA TrailStaysTrue ==
  ASSUME TrailIsTrue, NEW cursor \in Cursors, NEW items,
         NEW kind \in {"select", "expand", "evidence"},
         NEW item \in SUBSET Nat, NEW shown \in SUBSET Nat,
         item \subseteq items, shown \subseteq items,
         trail' = Recorded(Event(kind, cursor, item, IndexRanges(shown))),
         given \union placed \subseteq (given \union placed)',
         \A i \in items : <<cursor, i>> \in (given \union placed)'
  PROVE  TrailIsTrue'
<1> DEFINE event == Event(kind, cursor, item, IndexRanges(shown))
<1>1. /\ trail \in Seq(SessionEvent)
      /\ \A n \in DOMAIN trail : \A i \in Counted(trail[n], trail[n].cursor) :
            <<trail[n].cursor, i>> \in given \union placed
  BY DEF TrailIsTrue
<1>2. /\ given \union placed \subseteq (given \union placed)'
      /\ \A i \in items : <<cursor, i>> \in (given \union placed)'
  OBVIOUS
<1>3. event \in SessionEvent /\ event.cursor = cursor
  BY RangesAreRanges DEF Event, SessionEvent
<1>4. event.item = item /\ event.covered = IndexRanges(shown)
  BY DEF Event
<1>5. trail' = Recorded(event)
  OBVIOUS
<1> HIDE DEF event
<1>6. Counted(event, cursor) \subseteq items
  BY <1>3, <1>4, NoMoreIsReadBack DEF Counted
<1>7. /\ trail' \in Seq(SessionEvent)
      /\ \A n \in DOMAIN trail' :
            trail'[n] = event \/ \E m \in DOMAIN trail : trail'[n] = trail[m]
  BY <1>1, <1>3, <1>5, RecordedKeeps
<1>8. \A n \in DOMAIN trail' : \A i \in Counted(trail'[n], trail'[n].cursor) :
         <<trail'[n].cursor, i>> \in (given \union placed)'
  BY <1>1, <1>2, <1>3, <1>6, <1>7
<1> QED  BY <1>7, <1>8 DEF TrailIsTrue, Counted, ReadBack

LEMMA CoverageInvNext == CoverageInv /\ [CoverageNext]_coverageVars => CoverageInv'
<1> SUFFICES ASSUME CoverageInv, [CoverageNext]_coverageVars
             PROVE  CoverageInv'
  OBVIOUS
<1>1. /\ records \in Collections /\ TrailIsTrue
      /\ \A p \in pages : ReadSoFar(p)
  BY DEF CoverageInv
<1>2. ASSUME records' = records
      PROVE  \A p : ReadSoFar(p)' <=> ReadSoFar(p)
  BY <1>2 DEF ReadSoFar, Matching
<1>3. Len(records.items) \in Nat /\ DOMAIN records.items = 1 .. Len(records.items)
  BY <1>1, MatchingRecords
<1>4. ASSUME NEW filters \in Filters, StartReading(filters)
      PROVE  CoverageInv'
  <2> DEFINE p == [filters |-> filters, offset |-> {0}, rows |-> <<>>]
  <2>1. UNCHANGED <<records, trail, given, placed>> /\ pages' = {p}
    BY <1>4 DEF StartReading
  <2>2. Cardinality(Matching(filters)) \in Nat
    BY <1>1, MatchingRecords, PositionFacts
  <2>3. ReadSoFar(p)
    <3>1. /\ p.filters = filters /\ p.offset = {0} /\ p.offset # NoOffset
          /\ p.rows = <<>> /\ p.rows \in Seq(Matching(filters))
          /\ DOMAIN p.rows = {} /\ Len(p.rows) = 0
      BY DEF NoOffset
    <3> QED  BY <2>2, <3>1 DEF ReadSoFar
  <2>4. TrailIsTrue'
    BY <1>1, <2>1 DEF TrailIsTrue, Counted, ReadBack
  <2> HIDE DEF p
  <2> QED  BY <1>1, <1>2, <2>1, <2>3, <2>4 DEF CoverageInv
<1>5. ASSUME NEW cursor \in Cursors, NEW limit \in PageLimits, SelectRows(cursor, limit)
      PROVE  CoverageInv'
  <2> DEFINE Gives(p, offset, fitting) ==
                LET matching == Matching(p.filters)
                    page == Page(matching, offset, fitting)
                IN  /\ pages' = {[filters |-> p.filters,
                                  offset |-> NextOffset(matching, offset, fitting),
                                  rows |-> p.rows \o page]}
                    /\ trail' = Recorded(Event("select", cursor, {},
                                               IndexRanges(ToSet(page))))
                    /\ Give(cursor, ToSet(page))
                    /\ UNCHANGED <<records, placed>>
  <2>0. PICK p \in pages : \E offset \in p.offset : \E fitting \in Halvings(limit) :
           Gives(p, offset, fitting)
    BY <1>5 DEF SelectRows
  <2>1. PICK offset \in p.offset, fitting \in Halvings(limit) : Gives(p, offset, fitting)
    BY <2>0
  <2>2. ReadSoFar(p) /\ p.offset # NoOffset /\ offset = Len(p.rows)
    <3>1. ReadSoFar(p) /\ p.offset # NoOffset
      BY <1>1 DEF NoOffset
    <3>2. p.offset = {Len(p.rows)}
      BY <3>1 DEF ReadSoFar
    <3> QED  BY <3>1, <3>2
  <2>3. fitting \in Nat \ {0}
    BY DEF Halvings
  <2> DEFINE page == Page(Matching(p.filters), offset, fitting)
             q == [filters |-> p.filters,
                   offset |-> NextOffset(Matching(p.filters), offset, fitting),
                   rows |-> p.rows \o page]
  <2>4. ReadSoFar(q) /\ ToSet(page) \in SUBSET Nat
    BY <1>1, <2>2, <2>3, OnePageMore
  <2>5. /\ pages' = {q} /\ records' = records
        /\ trail' = Recorded(Event("select", cursor, {}, IndexRanges(ToSet(page))))
        /\ Give(cursor, ToSet(page)) /\ placed' = placed
    BY <2>1
  <2> HIDE DEF page, q
  <2>6. /\ given \union placed \subseteq (given \union placed)'
        /\ \A i \in ToSet(page) : <<cursor, i>> \in (given \union placed)'
    BY <2>5 DEF Give
  <2>7. TrailIsTrue'
    <3> DEFINE items == ToSet(page)
    <3>1. /\ items \in SUBSET Nat
          /\ trail' = Recorded(Event("select", cursor, {}, IndexRanges(items)))
          /\ \A i \in items : <<cursor, i>> \in (given \union placed)'
      BY <2>4, <2>5, <2>6
    <3>2. /\ "select" \in {"select", "expand", "evidence"}
          /\ {} \in SUBSET Nat /\ {} \subseteq items /\ items \subseteq items
      OBVIOUS
    <3> HIDE DEF items
    <3> QED  BY <1>1, <2>6, <3>1, <3>2, TrailStaysTrue
  <2> QED  BY <1>1, <1>2, <2>4, <2>5, <2>7 DEF CoverageInv
<1>6. ASSUME NEW cursor \in Cursors, NEW limit \in PageLimits, ShowItems(cursor, limit)
      PROVE  CoverageInv'
  <2>1. PICK visible \in Nat, shown \in Nat, hasOverview \in BOOLEAN :
           /\ trail' = Recorded(Event("expand", cursor, {},
                                      IF hasOverview THEN IndexRanges(1 .. visible) ELSE {}))
           /\ Give(cursor, 1 .. shown)
           /\ GivePlace(cursor, (shown + 1) .. visible)
           /\ UNCHANGED <<records, pages>>
    <3>1. 0 .. Min({limit, Len(records.items)}) \subseteq Nat
          /\ \A n : 0 .. n \subseteq Nat
      OBVIOUS
    <3> QED  BY <1>6, <3>1 DEF ShowItems
  <2> DEFINE told == IF hasOverview THEN 1 .. visible ELSE {}
  <2>2. IndexRanges(told) = IF hasOverview THEN IndexRanges(1 .. visible) ELSE {}
    BY DEF IndexRanges
  <2>3. told \in SUBSET Nat /\ told \subseteq 1 .. visible
    OBVIOUS
  <2>4. trail' = Recorded(Event("expand", cursor, {}, IndexRanges(told)))
    BY <2>1, <2>2
  <2>5. /\ given \union placed \subseteq (given \union placed)'
        /\ \A i \in 1 .. visible : <<cursor, i>> \in (given \union placed)'
    <3>1. \A i \in 1 .. visible : i \in 1 .. shown \/ i \in (shown + 1) .. visible
      OBVIOUS
    <3> QED  BY <2>1, <3>1 DEF Give, GivePlace
  <2> HIDE DEF told
  <2>6. TrailIsTrue'
    <3> DEFINE items == 1 .. visible
    <3>1. /\ told \in SUBSET Nat /\ told \subseteq items
          /\ \A i \in items : <<cursor, i>> \in (given \union placed)'
      BY <2>3, <2>5
    <3>2. /\ "expand" \in {"select", "expand", "evidence"}
          /\ {} \in SUBSET Nat /\ {} \subseteq items
      OBVIOUS
    <3> HIDE DEF items
    <3> QED  BY <1>1, <2>4, <2>5, <3>1, <3>2, TrailStaysTrue
  <2> QED  BY <1>1, <1>2, <2>1, <2>6 DEF CoverageInv
<1>7. ASSUME NEW cursor \in Cursors, NEW i \in DOMAIN records.items,
             ExpandItem(cursor, i)
      PROVE  CoverageInv'
  <2>1. /\ trail' = Recorded(Event("expand", cursor, {}, {}))
        /\ Give(cursor, {i}) /\ UNCHANGED <<records, pages, placed>>
    BY <1>7 DEF ExpandItem
  <2>2. IndexRanges({}) = {}
    BY DEF IndexRanges
  <2>3. /\ given \union placed \subseteq (given \union placed)'
        /\ \A j \in {i} : <<cursor, j>> \in (given \union placed)'
    BY <2>1 DEF Give
  <2>4. TrailIsTrue'
    BY <1>1, TrailStaysTrue, <2>1, <2>2, <2>3
  <2> QED  BY <1>1, <1>2, <2>1, <2>4 DEF CoverageInv
<1>8. ASSUME NEW cursor \in Cursors, NEW i \in DOMAIN records.items,
             ReadEvidence(cursor, i)
      PROVE  CoverageInv'
  <2>1. /\ trail' = Recorded(Event("evidence", cursor, {i}, {}))
        /\ Give(cursor, {i}) /\ UNCHANGED <<records, pages, placed>>
    BY <1>8 DEF ReadEvidence
  <2>2. IndexRanges({}) = {} /\ {i} \in SUBSET Nat
    BY <1>3 DEF IndexRanges
  <2>3. /\ given \union placed \subseteq (given \union placed)'
        /\ \A j \in {i} : <<cursor, j>> \in (given \union placed)'
    BY <2>1 DEF Give
  <2>4. TrailIsTrue'
    BY <1>1, TrailStaysTrue, <2>1, <2>2, <2>3
  <2> QED  BY <1>1, <1>2, <2>1, <2>4 DEF CoverageInv
<1>9. ASSUME StartSession PROVE CoverageInv'
  <2>1. trail' = <<>> /\ UNCHANGED <<records, pages>>
    BY <1>9 DEF StartSession
  <2>2. trail' \in Seq(SessionEvent) /\ DOMAIN trail' = {}
    BY <2>1
  <2> QED  BY <1>1, <1>2, <2>1, <2>2 DEF CoverageInv, TrailIsTrue
<1>10. ASSUME UNCHANGED coverageVars PROVE CoverageInv'
  <2>1. UNCHANGED <<records, trail, pages, given, placed>>
    BY <1>10 DEF coverageVars
  <2>2. TrailIsTrue'
    BY <1>1, <2>1 DEF TrailIsTrue, Counted, ReadBack
  <2> QED  BY <1>1, <1>2, <2>1, <2>2 DEF CoverageInv
<1> QED  BY <1>4, <1>5, <1>6, <1>7, <1>8, <1>9, <1>10 DEF CoverageNext

LEMMA CoversOfInv == CoverageInv => SelectPagesCover
<1> SUFFICES ASSUME CoverageInv, NEW p \in pages, p.offset = NoOffset
             PROVE  /\ \A i \in DOMAIN p.rows :
                          Verdict(p.filters, records.items[p.rows[i]]) = "matching"
                    /\ \A i, j \in DOMAIN p.rows : i < j => p.rows[i] < p.rows[j]
                    /\ \A k \in DOMAIN records.items :
                          Verdict(p.filters, records.items[k]) = "matching" =>
                             k \in ToSet(p.rows)
  BY DEF SelectPagesCover
<1> DEFINE matching == Matching(p.filters)
           rows == p.rows
<1>1. /\ rows \in Seq(matching) /\ Len(rows) = Cardinality(matching)
      /\ \A n \in DOMAIN rows : Position(matching, rows[n]) = n - 1
  BY DEF CoverageInv, ReadSoFar
<1>2. matching \in SUBSET (1 .. Len(records.items)) /\ Len(records.items) \in Nat
  BY MatchingRecords DEF CoverageInv
<1>3. \A k : k \in matching <=>
         k \in DOMAIN records.items /\ Verdict(p.filters, records.items[k]) = "matching"
  BY DEF Matching
<1> HIDE DEF matching, rows
<1>4. /\ Cardinality(matching) \in Nat
      /\ \A i \in matching : Position(matching, i) \in 0 .. Cardinality(matching) - 1
      /\ \A i, j \in matching : i < j => Position(matching, i) < Position(matching, j)
  BY <1>2, PositionFacts
<1>5. DOMAIN rows = 1 .. Cardinality(matching) /\ \A n \in DOMAIN rows : rows[n] \in matching
  BY <1>1, LenProperties, ElementOfSeq
<1>6. \A i, j \in matching : Position(matching, i) = Position(matching, j) => i = j
  <2> SUFFICES ASSUME NEW i \in matching, NEW j \in matching, i # j
               PROVE  Position(matching, i) # Position(matching, j)
    OBVIOUS
  <2>1. i \in Nat /\ j \in Nat /\ (i < j \/ j < i)
    BY <1>2
  <2>2. Position(matching, i) \in Nat /\ Position(matching, j) \in Nat
    BY <1>4
  <2> QED  BY <1>4, <2>1, <2>2
<1>7. ASSUME NEW i \in DOMAIN rows, NEW j \in DOMAIN rows, i < j
      PROVE  rows[i] < rows[j]
  <2>1. rows[i] \in matching /\ rows[j] \in matching
    BY <1>5
  <2>2. rows[i] \in Nat /\ rows[j] \in Nat
    <3>1. \A k \in matching : k \in Nat
      BY <1>2
    <3> QED  BY <2>1, <3>1
  <2>3. Position(matching, rows[i]) = i - 1 /\ Position(matching, rows[j]) = j - 1
    BY <1>1
  <2>4. i \in Nat /\ j \in Nat
    BY <1>4, <1>5
  <2>5. ~(rows[j] < rows[i]) /\ rows[i] # rows[j]
    BY <1>4, <1>7, <2>1, <2>3, <2>4
  <2> QED  BY <2>2, <2>5
<1>8. ASSUME NEW k \in matching
      PROVE  k \in ToSet(rows)
  <2> DEFINE n == Position(matching, k) + 1
  <2>1. n \in DOMAIN rows /\ n - 1 = Position(matching, k)
    BY <1>4, <1>5
  <2>2. rows[n] \in matching /\ Position(matching, rows[n]) = Position(matching, k)
    BY <1>1, <1>5, <2>1
  <2> HIDE DEF n
  <2> QED  BY <1>6, <2>1, <2>2 DEF ToSet
<1> QED  BY <1>3, <1>5, <1>7, <1>8 DEF rows

LEMMA CountsOfInv == CoverageInv => NeverOvercounts
<1> SUFFICES ASSUME CoverageInv, NEW cursor \in Cursors, NEW i \in Returned(cursor)
             PROVE  <<cursor, i>> \in given \union placed
  BY DEF NeverOvercounts
<1>1. PICK n \in DOMAIN trail : i \in Counted(trail[n], cursor)
  BY DEF Returned
<1>2. trail[n].cursor = cursor
  BY <1>1 DEF Counted
<1> QED  BY <1>1, <1>2 DEF CoverageInv, TrailIsTrue

(* What select and coverage rest on: a reader has the first of the matching   *)
(* records, and the trail counts nothing for a cursor that no answer to it    *)
(* gave or had a place for.                                                  *)
THEOREM CoverageInvariant == CoverageSpec => []CoverageInv
  BY CoverageInvInit, CoverageInvNext, PTL DEF CoverageSpec

(* select.rs, select_rows and select_cursor: whatever limit each page fits    *)
(* its budget with, a reader who follows next_offset to the end has every     *)
(* matching record once and in order, and none that cannot be tested.         *)
THEOREM PagesCover == CoverageSpec => []SelectPagesCover
  BY CoverageInvariant, CoversOfInv, PTL

(* coverage_cursor: however records are given and however many events the     *)
(* trail drops, one counted as returned to a cursor was given to it, or had   *)
(* its place in an answer to it.                                             *)
THEOREM CoverageNeverOvercounts == CoverageSpec => []NeverOvercounts
  BY CoverageInvariant, CountsOfInv, PTL

-----------------------------------------------------------------------------
(* Grounded calls (Trust). *)

\* Tightening two statements gives a statement, at least as tight as both.
LEMMA TightenIsTighter ==
    ASSUME NEW left \in Effects, NEW right \in Effects
    PROVE  /\ Tighten(left, right) \in Effects
           /\ Tighten(left, right).mutating = (left.mutating \/ right.mutating)
           /\ Tighten(left, right).network = (left.network \/ right.network)
           /\ Tighten(left, right).shell = (left.shell \/ right.shell)
           /\ Tighten(left, right).sensitive = (left.sensitive \/ right.sensitive)
           /\ Tighten(left, right).requires_confirmation =
                 (left.requires_confirmation \/ right.requires_confirmation)
           /\ Tighten(left, right).read_only = (left.read_only /\ right.read_only)
           /\ left.grade # "none" => Tighten(left, right).grade = left.grade
           /\ left.grade = "none" => Tighten(left, right).grade = right.grade
  <1>1. /\ left.read_only \in BOOLEAN /\ left.mutating \in BOOLEAN
        /\ left.network \in BOOLEAN /\ left.shell \in BOOLEAN
        /\ left.sensitive \in BOOLEAN /\ left.cacheable \in BOOLEAN
        /\ left.requires_confirmation \in BOOLEAN /\ left.grade \in Grades
    BY DEF Effects
  <1>2. /\ right.read_only \in BOOLEAN /\ right.mutating \in BOOLEAN
        /\ right.network \in BOOLEAN /\ right.shell \in BOOLEAN
        /\ right.sensitive \in BOOLEAN /\ right.cacheable \in BOOLEAN
        /\ right.requires_confirmation \in BOOLEAN /\ right.grade \in Grades
    BY DEF Effects
  <1>3. Tighten(left, right) \in Effects
    BY <1>1, <1>2 DEF Tighten, Effects
  <1> QED  BY <1>3 DEF Tighten

\* Tightening forgets nothing of what either statement warns of.
LEMMA TightenForgetsNothing ==
    ASSUME NEW left \in Effects, NEW right \in Effects
    PROVE  /\ Tighten(left, right) \in Effects
           /\ left.mutating => Tighten(left, right).mutating
           /\ right.mutating => Tighten(left, right).mutating
           /\ left.sensitive => Tighten(left, right).sensitive
           /\ left.requires_confirmation => Tighten(left, right).requires_confirmation
           /\ right.network => Tighten(left, right).network
           /\ right.shell => Tighten(left, right).shell
           /\ right.grade = "none" /\ Tighten(left, right).grade = "proven" =>
                 left.grade = "proven"
  <1>1. /\ left.mutating \in BOOLEAN /\ right.mutating \in BOOLEAN
        /\ left.sensitive \in BOOLEAN /\ right.sensitive \in BOOLEAN
        /\ left.requires_confirmation \in BOOLEAN
        /\ right.requires_confirmation \in BOOLEAN
        /\ left.network \in BOOLEAN /\ right.network \in BOOLEAN
        /\ left.shell \in BOOLEAN /\ right.shell \in BOOLEAN
    BY DEF Effects
  <1> QED  BY <1>1, TightenIsTighter

\* What the adapters know is a statement about effects.
LEMMA HardeningsAreEffects ==
    /\ Identity \in Effects
    /\ \A n, s \in BOOLEAN : ReadEffects(n, s) \in Effects /\ UnsafeEffects(n, s) \in Effects
    /\ \A m : HttpHardening(m) \in Effects /\ HttpAdapterEffects(m) \in Effects
    /\ \A s \in BOOLEAN : CliHardening(s) \in Effects
    /\ \A h \in AllHints : ToolEffects(h) \in Effects
  <1>1. Identity \in Effects
    BY DEF Identity, Effects, Grades
  <1>2. \A n, s \in BOOLEAN : ReadEffects(n, s) \in Effects /\ UnsafeEffects(n, s) \in Effects
    BY DEF ReadEffects, UnsafeEffects, Identity, Effects, Grades
  <1>3. \A m : HttpHardening(m) \in Effects
    BY DEF HttpHardening, Identity, Effects, Grades
  <1>4. \A m : HttpAdapterEffects(m) \in Effects
    BY <1>2 DEF HttpAdapterEffects
  <1>5. \A s \in BOOLEAN : CliHardening(s) \in Effects
    BY DEF CliHardening, Identity, Effects, Grades
  <1>6. \A h \in AllHints : ToolEffects(h) \in Effects
    BY DEF ToolEffects, ReadEffects, UnsafeEffects, Identity, Effects, Grades
  <1> QED  BY <1>1, <1>2, <1>3, <1>4, <1>5, <1>6

\* The fields of a profile, each with its type.
LEMMA ProfileFields ==
    ASSUME NEW p \in Profiles
    PROVE  /\ p.kind \in {"http", "cli", "mcp"} /\ p.method \in Methods
           /\ p.shell \in Hints /\ p.effects \in Effects /\ p.trust \in Trusts
           /\ p.learned \in BOOLEAN /\ RunsInShell(p) \in BOOLEAN
  BY DEF Profiles, RunsInShell

\* Lifting a confirmation by proven evidence changes nothing else.
LEMMA UpgradeLiftsOnly ==
    ASSUME NEW effects \in Effects, NEW trust \in Trusts
    PROVE  /\ EffectiveEffects(effects, trust).mutating = effects.mutating
           /\ EffectiveEffects(effects, trust).read_only = effects.read_only
           /\ EffectiveEffects(effects, trust).shell = effects.shell
           /\ EffectiveEffects(effects, trust).network = effects.network
           /\ effects.requires_confirmation
              /\ ~EffectiveEffects(effects, trust).requires_confirmation =>
                 effects.grade = "proven" /\ ~effects.sensitive
  <1> DEFINE lifts == /\ trust.auto_upgrade /\ effects.grade = "proven"
                      /\ effects.read_only /\ ~effects.mutating
                      /\ ~effects.shell /\ ~effects.sensitive
  <1>1. CASE lifts
    <2>1. EffectiveEffects(effects, trust) =
              [effects EXCEPT !.requires_confirmation = FALSE]
      BY <1>1 DEF EffectiveEffects
    <2> QED  BY <1>1, <2>1 DEF Effects
  <1>2. CASE ~lifts
    <2>1. EffectiveEffects(effects, trust) = effects
      BY <1>2 DEF EffectiveEffects
    <2> QED  BY <2>1
  <1> QED  BY <1>1, <1>2

\* What an adapter knows of a profile's operation is at least what the profile
\* says, a request is over the network, and one that is no GET changes something.
LEMMA HardenIsTighter ==
    ASSUME NEW p \in Profiles
    PROVE  /\ Harden(p) \in Effects
           /\ p.effects.mutating => Harden(p).mutating
           /\ p.effects.sensitive => Harden(p).sensitive
           /\ p.effects.requires_confirmation => Harden(p).requires_confirmation
           /\ p.kind = "http" => Harden(p).network
           /\ p.kind = "http" /\ p.method # "GET" => Harden(p).mutating
           /\ RunsInShell(p) => Harden(p).shell
           /\ Harden(p).grade = "proven" => p.effects.grade = "proven"
  <1>1. p.effects \in Effects
    BY ProfileFields
  <1>2. CASE p.kind = "http"
    <2> DEFINE known == HttpHardening(p.method)
    <2>1. Harden(p) = Tighten(p.effects, known) /\ ~RunsInShell(p)
      BY <1>2 DEF Harden, RunsInShell
    <2>2. /\ known \in Effects /\ known.network /\ known.grade = "none"
          /\ p.method # "GET" => known.mutating
      BY HardeningsAreEffects DEF HttpHardening, Identity
    <2> HIDE DEF known
    <2>5. /\ Tighten(p.effects, known) \in Effects
          /\ p.effects.mutating => Tighten(p.effects, known).mutating
          /\ known.mutating => Tighten(p.effects, known).mutating
          /\ p.effects.sensitive => Tighten(p.effects, known).sensitive
          /\ p.effects.requires_confirmation =>
                Tighten(p.effects, known).requires_confirmation
          /\ known.network => Tighten(p.effects, known).network
          /\ known.shell => Tighten(p.effects, known).shell
          /\ known.grade = "none" /\ Tighten(p.effects, known).grade = "proven" =>
                p.effects.grade = "proven"
      BY <1>1, <2>2, TightenForgetsNothing, Zenon
    <2>3. /\ Harden(p) \in Effects
          /\ p.effects.mutating => Harden(p).mutating
          /\ p.effects.sensitive => Harden(p).sensitive
          /\ p.effects.requires_confirmation => Harden(p).requires_confirmation
          /\ Harden(p).network /\ (p.method # "GET" => Harden(p).mutating)
          /\ Harden(p).grade = "proven" => p.effects.grade = "proven"
      BY <2>1, <2>2, <2>5, Zenon
    <2> QED  BY <2>1, <2>3, Zenon
  <1>3. CASE p.kind = "cli"
    <2> DEFINE known == CliHardening(RunsInShell(p))
    <2>1. Harden(p) = Tighten(p.effects, known)
      BY <1>3 DEF Harden
    <2>2. /\ known \in Effects /\ known.grade = "none"
          /\ RunsInShell(p) => known.shell
      BY HardeningsAreEffects, ProfileFields DEF CliHardening, Identity
    <2> HIDE DEF known
    <2>5. /\ Tighten(p.effects, known) \in Effects
          /\ p.effects.mutating => Tighten(p.effects, known).mutating
          /\ known.mutating => Tighten(p.effects, known).mutating
          /\ p.effects.sensitive => Tighten(p.effects, known).sensitive
          /\ p.effects.requires_confirmation =>
                Tighten(p.effects, known).requires_confirmation
          /\ known.network => Tighten(p.effects, known).network
          /\ known.shell => Tighten(p.effects, known).shell
          /\ known.grade = "none" /\ Tighten(p.effects, known).grade = "proven" =>
                p.effects.grade = "proven"
      BY <1>1, <2>2, TightenForgetsNothing, Zenon
    <2>3. /\ Harden(p) \in Effects
          /\ p.effects.mutating => Harden(p).mutating
          /\ p.effects.sensitive => Harden(p).sensitive
          /\ p.effects.requires_confirmation => Harden(p).requires_confirmation
          /\ RunsInShell(p) => Harden(p).shell
          /\ Harden(p).grade = "proven" => p.effects.grade = "proven"
      BY <2>1, <2>2, <2>5, Zenon
    <2>4. p.kind # "http"
      BY <1>3
    <2> QED  BY <2>3, <2>4, Zenon
  <1>4. CASE p.kind = "mcp"
    BY <1>4, ProfileFields DEF Harden, RunsInShell
  <1> QED  BY <1>2, <1>3, <1>4, ProfileFields

\* What a call under a profile must have been given.
Grounded(p, yes) ==
    /\ p.kind = "http" => p.trust.allow_network
    /\ p.kind = "http" /\ p.method # "GET" => yes
    /\ RunsInShell(p) => p.trust.allow_shell
    /\ p.effects.mutating => yes
    /\ p.effects.requires_confirmation /\ ~yes =>
           p.effects.grade = "proven" /\ ~p.effects.sensitive

\* A call that is admitted is grounded.
LEMMA CallIsGrounded ==
    ASSUME NEW p \in Profiles, NEW yes \in BOOLEAN,
           CallAllowed(Harden(p), yes, p.trust), AdapterAgrees(p)
    PROVE  Grounded(p, yes)
  <1> DEFINE hardened == Harden(p)
  <1> DEFINE effective == EffectiveEffects(hardened, p.trust)
  <1>1. /\ p.trust \in Trusts /\ hardened \in Effects
        /\ p.effects.mutating => hardened.mutating
        /\ p.effects.sensitive => hardened.sensitive
        /\ p.effects.requires_confirmation => hardened.requires_confirmation
        /\ p.kind = "http" => hardened.network
        /\ p.kind = "http" /\ p.method # "GET" => hardened.mutating
        /\ hardened.grade = "proven" => p.effects.grade = "proven"
    BY HardenIsTighter, ProfileFields
  <1>2. /\ effective.mutating = hardened.mutating
        /\ effective.network = hardened.network
        /\ hardened.requires_confirmation /\ ~effective.requires_confirmation =>
              hardened.grade = "proven" /\ ~hardened.sensitive
    BY <1>1, UpgradeLiftsOnly
  <1>3. /\ effective.mutating \/ effective.requires_confirmation => yes
        /\ effective.network => p.trust.allow_network
    BY DEF CallAllowed
  <1> HIDE DEF effective, hardened
  <1>4. /\ p.kind = "http" => p.trust.allow_network
        /\ p.kind = "http" /\ p.method # "GET" => yes
        /\ p.effects.mutating => yes
        /\ p.effects.requires_confirmation /\ ~yes =>
               p.effects.grade = "proven" /\ ~p.effects.sensitive
    BY <1>1, <1>2, <1>3
  <1> QED  BY <1>4 DEF Grounded, AdapterAgrees

\* What is paged through is a plain read.
LEMMA PageIsGrounded ==
    ASSUME NEW p \in Profiles, PaginationAllowed(Harden(p))
    PROVE  /\ p.kind = "http" => p.method = "GET"
           /\ ~RunsInShell(p)
           /\ ~p.effects.sensitive
  BY HardenIsTighter DEF PaginationAllowed

\* A probe that is admitted reads only, by the statement of the profile.
LEMMA ProbeReads ==
    ASSUME NEW p \in Profiles, DiscoveryAllowed(p.effects, p.trust)
    PROVE  p.effects.read_only /\ ~p.effects.mutating
  BY ProfileFields, UpgradeLiftsOnly DEF DiscoveryAllowed

\* What a seed may be given as effects is a statement that forgets nothing of
\* what both its adapter states and its hardening knows.
LEMMA SeedEffects ==
    ASSUME NEW adapter \in Effects, NEW known \in Effects,
           NEW effects \in EffectsFromSeed(adapter, known)
    PROVE  /\ effects \in Effects
           /\ adapter.mutating /\ known.mutating => effects.mutating
  <1>1. CASE effects = adapter
    BY <1>1
  <1>2. CASE effects # adapter
    <2>1. PICK declared \in Declared : effects = Tighten(declared, known)
      BY <1>2 DEF EffectsFromSeed
    <2>2. declared \in Effects /\ declared.mutating \in BOOLEAN /\ known.mutating \in BOOLEAN
      BY TrustAssumption DEF Effects
    <2> QED  BY <2>1, <2>2, TightenIsTighter
  <1> QED  BY <1>1, <1>2

\* Seeds are profiles, and say of a request that is no GET that it changes
\* something.
LEMMA SeedsAreHonest ==
    ASSUME NEW said \in AllHints, NEW p \in Seeds(said)
    PROVE  p \in Profiles /\ Honest(p)
  <1>1. /\ DefaultTrust \in Trusts /\ NetworkTrust \in Trusts
        /\ SeedTrusts \subseteq Trusts /\ Declared \subseteq Effects
    BY TrustAssumption DEF DefaultTrust, NetworkTrust, Trusts
  <1>2. CASE p \in HttpSeeds
    <2> PICK method \in Methods \ {"none"} :
            p \in {Profile("http", method, "no", effects, NetworkTrust) :
                      effects \in EffectsFromSeed(HttpAdapterEffects(method),
                                                  HttpHardening(method))}
      BY <1>2 DEF HttpSeeds
    <2>1. PICK effects \in EffectsFromSeed(HttpAdapterEffects(method),
                                           HttpHardening(method)) :
              p = Profile("http", method, "no", effects, NetworkTrust)
      OBVIOUS
    <2>2. /\ HttpHardening(method) \in Effects /\ HttpAdapterEffects(method) \in Effects
          /\ method # "GET" => /\ HttpHardening(method).mutating
                               /\ HttpAdapterEffects(method).mutating
      BY HardeningsAreEffects DEF HttpHardening, HttpAdapterEffects, UnsafeEffects, Identity
    <2>3. effects \in Effects /\ (method # "GET" => effects.mutating)
      BY <2>2, SeedEffects
    <2> QED  BY <1>1, <2>1, <2>3 DEF Profile, Profiles, Honest, Hints
  <1>3. CASE p \in CliSeeds
    <2> PICK shell \in {"yes", "no"}, trust \in SeedTrusts \cup {DefaultTrust} :
            p \in {Profile("cli", "none", shell, effects, trust) :
                      effects \in CliEffects(shell)}
      BY <1>3 DEF CliSeeds
    <2>1. PICK effects \in CliEffects(shell) :
              p = Profile("cli", "none", shell, effects, trust)
      OBVIOUS
    <2> DEFINE adapter == UnsafeEffects(FALSE, shell = "yes")
    <2> DEFINE known == CliHardening(shell = "yes")
    <2>2. adapter \in Effects /\ known \in Effects
      <3>1. CASE shell = "yes"
        BY <3>1, HardeningsAreEffects
      <3>2. CASE shell = "no"
        BY <3>2, HardeningsAreEffects
      <3> QED  BY <3>1, <3>2
    <2>3. effects \in EffectsFromSeed(adapter, known)
      BY <2>1 DEF CliEffects
    <2> HIDE DEF adapter, known
    <2>4. effects \in Effects
      BY <2>2, <2>3, SeedEffects
    <2> QED  BY <1>1, <2>1, <2>4 DEF Profile, Profiles, Honest, Hints, Methods
  <1>4. CASE p = McpSeed(said)
    <2>1. ToolEffects(said) \in Effects
      BY HardeningsAreEffects
    <2> QED  BY <1>1, <1>4, <2>1 DEF McpSeed, Profile, Profiles, Honest, Hints, Methods
  <1> QED  BY <1>2, <1>3, <1>4 DEF Seeds

\* So is what an import reads and what the owner writes.
LEMMA StatementsAreProfiles ==
    \A p \in Imports \cup Authored : p \in Profiles
  <1>1. /\ DefaultTrust \in Trusts /\ NetworkTrust \in Trusts
        /\ SeedTrusts \subseteq Trusts /\ Declared \subseteq Effects
    BY TrustAssumption DEF DefaultTrust, NetworkTrust, Trusts
  <1>2. ASSUME NEW method \in Methods PROVE OpenApiImport(method) \in Profiles
    BY <1>1 DEF OpenApiImport, Profile, Profiles, Effects, Grades, Hints
  <1>3. JsonSchemaImport \in Profiles /\ CliHelpImport \in Profiles
    BY <1>1 DEF JsonSchemaImport, CliHelpImport, UnsafeEffects, Identity, Profile,
                Profiles, Effects, Grades, Hints, Methods
  <1>4. \A p \in Imports : p \in Profiles
    BY <1>2, <1>3 DEF Imports
  <1>5. \A p \in Authored : p \in Profiles
    <2>1. ASSUME NEW method \in Methods, NEW shell \in Hints, NEW effects \in Declared,
                 NEW trust \in SeedTrusts
          PROVE  /\ Profile("http", method, "no", effects, trust) \in Profiles
                 /\ Profile("cli", "none", shell, effects, trust) \in Profiles
                 /\ Profile("mcp", "none", "no", effects, trust) \in Profiles
      BY <1>1 DEF Profile, Profiles, Hints, Methods
    <2>2. "GET" \in Methods /\ "yes" \in Hints
      BY DEF Methods, Hints
    <2> QED  BY <2>1, <2>2 DEF Authored
  <1> QED  BY <1>4, <1>5

\* A stored profile is not the absent one.
LEMMA ProfilesAreThere == NoProfile \notin Profiles
  BY DEF NoProfile, Profiles

LEMMA MergedIsProfile ==
    ASSUME NEW current \in Profiles \cup {NoProfile}, NEW authored \in Profiles
    PROVE  MergeProfiles(current, authored) \in Profiles
  <1>1. CASE current = NoProfile
    BY <1>1 DEF MergeProfiles
  <1>2. CASE current # NoProfile
    <2>1. (authored.learned \/ current.learned) \in BOOLEAN
      BY <1>2 DEF Profiles
    <2>2. MergeProfiles(current, authored) =
              [authored EXCEPT !.learned = authored.learned \/ current.learned]
      BY <1>2 DEF MergeProfiles
    <2> QED  BY <2>1, <2>2 DEF Profiles
  <1> QED  BY <1>1, <1>2

\* What is learnt says nothing of what the operation does.
LEMMA LearningLiftsNothing ==
    ASSUME NEW current \in Profiles \cup {NoProfile}, NEW read \in Profiles
    PROVE  /\ Learn(current, read) \in Profiles
           /\ current # NoProfile => (Ungated(Learn(current, read)) <=> Ungated(current))
  <1> DEFINE learnt == Learn(current, read)
  <1>1. learnt \in Profiles
    BY DEF Learn, Profiles
  <1>2. ASSUME current # NoProfile PROVE Ungated(learnt) <=> Ungated(current)
    <2>1. current \in Profiles /\ learnt = [current EXCEPT !.learned = TRUE]
      BY <1>2 DEF Learn
    <2>2. /\ learnt.kind = current.kind /\ learnt.method = current.method
          /\ learnt.shell = current.shell /\ learnt.effects = current.effects
          /\ learnt.trust = current.trust
      BY <2>1 DEF Profiles
    <2>3. learnt # NoProfile
      BY <1>1, ProfilesAreThere
    <2> HIDE DEF learnt
    <2>4. RunsInShell(learnt) = RunsInShell(current)
      BY <2>2 DEF RunsInShell
    <2>5. Harden(learnt) = Harden(current)
      BY <2>2, <2>4 DEF Harden
    <2> QED  BY <1>2, <2>2, <2>3, <2>5 DEF Ungated
  <1> QED  BY <1>1, <1>2

-----------------------------------------------------------------------------
\* CallsAreGrounded and ProbesOnlyRead, of one call and one discovery.
CallOk(r) ==
    r.stage \in {"running", "paging"} =>
        /\ Grounded(r.profile, r.yes)
        /\ r.profile.kind = "http" /\ r.profile.method # "GET" => r.stage = "running"
        /\ RunsInShell(r.profile) => r.stage = "running"
        /\ r.profile.effects.sensitive => r.stage = "running"

ProbeOk(d) ==
    d.stage = "probing" =>
        /\ d.profile.kind = "http" => d.profile.method = "GET"
        /\ RunsInShell(d.profile) => d.profile.trust.allow_shell
        /\ d.profile.effects.read_only /\ ~d.profile.effects.mutating

LEMMA PropertiesByPart ==
    /\ CallsAreGrounded <=> \A c \in Callers : CallOk(call[c])
    /\ ProbesOnlyRead <=> ProbeOk(discovery)
  <1>1. ASSUME NEW c \in Callers
        PROVE  CallOk(call[c]) <=>
                 (call[c].stage \in {"running", "paging"} =>
                    LET p == call[c].profile IN
                    /\ p.kind = "http" => p.trust.allow_network
                    /\ p.kind = "http" /\ p.method # "GET" =>
                           call[c].yes /\ call[c].stage = "running"
                    /\ RunsInShell(p) => p.trust.allow_shell /\ call[c].stage = "running"
                    /\ p.effects.mutating => call[c].yes
                    /\ p.effects.requires_confirmation /\ ~call[c].yes =>
                           p.effects.grade = "proven" /\ ~p.effects.sensitive
                    /\ p.effects.sensitive => call[c].stage = "running")
    BY Zenon DEF CallOk, Grounded
  <1>2. CallsAreGrounded <=> \A c \in Callers : CallOk(call[c])
    BY <1>1, Zenon DEF CallsAreGrounded
  <1>3. ProbesOnlyRead <=> ProbeOk(discovery)
    BY Zenon DEF ProbesOnlyRead, ProbeOk
  <1> QED  BY <1>2, <1>3

Running == [stage : {"running", "paging"}, profile : Profiles, yes : BOOLEAN]
Discovering == [stage : {"prepared", "probing"}, profile : Profiles, probe : BOOLEAN]

LEMMA InitHolds == Init => TrustInv
  <1> SUFFICES ASSUME Init PROVE TrustInv  OBVIOUS
  <1>1. hints \in AllHints
    <2>1. Silent \in AllHints
      BY DEF Silent, AllHints, Hints
    <2> QED  BY <2>1 DEF Init
  <1>2. TypeOK
    BY <1>1 DEF Init, TypeOK
  <1>3. \A c \in Callers : call[c] = Idle
    BY DEF Init
  <1>4. CallOk(Idle) /\ ProbeOk(Idle)
    BY DEF CallOk, ProbeOk, Idle
  <1>5. discovery = Idle
    BY DEF Init
  <1> QED  BY <1>2, <1>3, <1>4, <1>5, PropertiesByPart DEF TrustInv

LEMMA NextKeeps == TrustInv /\ [Next]_vars => TrustInv'
  <1> SUFFICES ASSUME TrustInv, [Next]_vars PROVE TrustInv'  OBVIOUS
  <1> USE DEF Running, Discovering
  <1>1. /\ profile \in Profiles \cup {NoProfile} /\ hints \in AllHints
        /\ discovery \in {Idle} \cup Discovering
        /\ call \in [Callers -> {Idle} \cup Running]
        /\ discovery # Idle => Honest(discovery.profile)
        /\ \A c \in Callers : call[c] # Idle => profile # NoProfile
        /\ \A c \in Callers : CallOk(call[c])
        /\ ProbeOk(discovery)
    BY PropertiesByPart DEF TrustInv, TypeOK
  <1> HIDE DEF Running, Discovering
  <1> DEFINE Stays == /\ profile' \in Profiles \cup {NoProfile} /\ hints' \in AllHints
                      /\ discovery' \in {Idle} \cup Discovering
                      /\ call' \in [Callers -> {Idle} \cup Running]
                      /\ discovery' # Idle => Honest(discovery'.profile)
                      /\ \A c \in Callers : call'[c] # Idle => profile' # NoProfile
                      /\ \A c \in Callers : CallOk(call'[c])
                      /\ ProbeOk(discovery')
  <1>2. Stays => TrustInv'
    <2>1. Stays => TypeOK'
      BY DEF TypeOK, Running, Discovering
    <2>2. Stays => CallsAreGrounded' /\ ProbesOnlyRead'
      <3>1. /\ CallsAreGrounded' <=> (\A c \in Callers : CallOk(call[c]))'
            /\ ProbesOnlyRead' <=> ProbeOk(discovery)'
        BY PropertiesByPart, PTL
      <3>2. Stays => (\A c \in Callers : CallOk(call[c]))' /\ ProbeOk(discovery)'
        BY Zenon DEF CallOk, ProbeOk
      <3> QED  BY <3>1, <3>2
    <2> QED  BY <2>1, <2>2, Zenon DEF TrustInv
  <1>3. ASSUME Republish PROVE Stays
    BY <1>1, <1>3 DEF Republish
  <1>4. ASSUME Import PROVE Stays
    <2>1. PICK p \in Imports : profile' = MergeProfiles(profile, p)
      BY <1>4 DEF Import
    <2>2. profile' \in Profiles /\ profile' # NoProfile
      BY <1>1, <2>1, StatementsAreProfiles, MergedIsProfile, ProfilesAreThere
    <2> QED  BY <1>1, <1>4, <2>2 DEF Import
  <1>5. ASSUME Author PROVE Stays
    <2>1. PICK p \in Authored : profile' = MergeProfiles(profile, p)
      BY <1>5 DEF Author
    <2>2. profile' \in Profiles /\ profile' # NoProfile
      BY <1>1, <2>1, StatementsAreProfiles, MergedIsProfile, ProfilesAreThere
    <2> QED  BY <1>1, <1>5, <2>2 DEF Author
  <1>6. ASSUME Prepare PROVE Stays
    <2>1. PICK p \in Seeds(hints), probe \in BOOLEAN :
              discovery' = [stage |-> "prepared", profile |-> p, probe |-> probe]
      BY <1>6 DEF Prepare
    <2>2. p \in Profiles /\ Honest(p)
      BY <1>1, SeedsAreHonest
    <2>3. discovery' \in Discovering /\ discovery'.profile = p /\ ProbeOk(discovery')
      BY <2>1, <2>2 DEF Discovering, ProbeOk
    <2> QED  BY <1>1, <1>6, <2>2, <2>3 DEF Prepare
  <1>7. ASSUME Probe PROVE Stays
    <2> DEFINE p == discovery.profile
    <2>1. discovery \in Discovering
      BY <1>1, <1>7 DEF Probe, Idle
    <2>2. p \in Profiles /\ Honest(p)
      BY <1>1, <1>7, <2>1 DEF Probe, Discovering, Idle
    <2>3. p.effects.read_only /\ ~p.effects.mutating /\ AdapterAgrees(p)
      BY <1>7, <2>2, ProbeReads DEF Probe
    <2>4. /\ discovery' \in Discovering /\ discovery'.profile = p
          /\ discovery'.stage = "probing"
      BY <1>7, <2>1 DEF Probe, Discovering
    <2>5. ProbeOk(discovery')
      BY <2>2, <2>3, <2>4 DEF ProbeOk, Honest, AdapterAgrees
    <2> QED  BY <1>1, <1>7, <2>2, <2>4, <2>5 DEF Probe
  <1>8. ASSUME Merge PROVE Stays
    <2>1. discovery \in Discovering
      BY <1>1, <1>8 DEF Merge, Idle
    <2>2. PICK answered \in BOOLEAN :
              profile' = MergeProfiles(profile,
                            [discovery.profile EXCEPT !.learned = answered])
      BY <1>8 DEF Merge
    <2>3. [discovery.profile EXCEPT !.learned = answered] \in Profiles
      BY <2>1 DEF Discovering, Profiles
    <2>4. profile' \in Profiles /\ profile' # NoProfile
      BY <1>1, <2>2, <2>3, MergedIsProfile, ProfilesAreThere
    <2>5. discovery' = Idle /\ ProbeOk(Idle)
      BY <1>8 DEF Merge, ProbeOk, Idle
    <2> QED  BY <1>1, <1>8, <2>4, <2>5 DEF Merge
  <1>9. ASSUME NEW c \in Callers, NEW yes \in BOOLEAN, Execute(c, yes)
        PROVE  Stays
    <2> DEFINE r == [stage |-> "running", profile |-> profile, yes |-> yes]
    <2>1. profile \in Profiles
      BY <1>1, <1>9 DEF Execute
    <2>2. Grounded(profile, yes)
      BY <1>9, <2>1, CallIsGrounded DEF Execute
    <2>3. r \in Running /\ CallOk(r)
      BY <2>1, <2>2 DEF Running, CallOk
    <2> HIDE DEF r
    <2>4. call' = [call EXCEPT ![c] = r]
      BY <1>9 DEF Execute, r
    <2>5. profile' = profile /\ hints' = hints /\ discovery' = discovery
      BY <1>9 DEF Execute
    <2>6. profile # NoProfile
      BY <2>1, ProfilesAreThere
    <2>7. \A d \in Callers : call'[d] = IF d = c THEN r ELSE call[d]
      BY <1>1, <2>4
    <2>8. call' \in [Callers -> {Idle} \cup Running]
      BY <1>1, <2>3, <2>4
    <2> QED  BY <1>1, <2>3, <2>5, <2>6, <2>7, <2>8
  <1>10. ASSUME NEW c \in Callers, NextPage(c) PROVE Stays
    <2> DEFINE r == [call[c] EXCEPT !.stage = "paging"]
    <2>1. call[c] \in Running /\ call[c].stage = "running"
      BY <1>1, <1>10 DEF NextPage, Idle
    <2>2. r \in Running /\ r.profile = call[c].profile /\ r.yes = call[c].yes
      BY <2>1 DEF Running
    <2>3. Grounded(r.profile, r.yes)
      BY <1>1, <2>1, <2>2 DEF CallOk
    <2>4. /\ r.profile.kind = "http" => r.profile.method = "GET"
          /\ ~RunsInShell(r.profile) /\ ~r.profile.effects.sensitive
      BY <1>10, <2>1, <2>2, PageIsGrounded DEF NextPage, Running
    <2> HIDE DEF r
    <2>5. CallOk(r)
      BY <2>3, <2>4, Zenon DEF CallOk
    <2>6. call' = [call EXCEPT ![c] = r] /\ call[c] # Idle
      BY <1>10 DEF NextPage, Idle, r
    <2>7. profile' = profile /\ hints' = hints /\ discovery' = discovery
      BY <1>10 DEF NextPage
    <2>8. \A d \in Callers : call'[d] = IF d = c THEN r ELSE call[d]
      BY <1>1, <2>6
    <2>9. call' \in [Callers -> {Idle} \cup Running]
      BY <1>1, <2>2, <2>6
    <2> QED  BY <1>1, <2>5, <2>6, <2>7, <2>8, <2>9
  <1>11. ASSUME NEW c \in Callers, Finish(c) PROVE Stays
    <2>1. call[c] \in Running
      BY <1>1, <1>11 DEF Finish, Idle
    <2>2. profile' = profile \/ profile' = Learn(profile, call[c].profile)
      BY <1>11 DEF Finish
    <2>3. profile' \in Profiles \cup {NoProfile} /\ (profile # NoProfile => profile' # NoProfile)
      BY <1>1, <2>1, <2>2, LearningLiftsNothing, ProfilesAreThere DEF Running
    <2>4. call' = [call EXCEPT ![c] = Idle] /\ CallOk(Idle)
      BY <1>11 DEF Finish, CallOk, Idle
    <2>5. hints' = hints /\ discovery' = discovery
      BY <1>11 DEF Finish
    <2>6. \A d \in Callers : call'[d] = IF d = c THEN Idle ELSE call[d]
      BY <1>1, <2>4
    <2>7. call' \in [Callers -> {Idle} \cup Running]
      BY <1>1, <2>4
    <2> QED  BY <1>1, <2>3, <2>4, <2>5, <2>6, <2>7
  <1>12. ASSUME UNCHANGED vars PROVE Stays
    BY <1>1, <1>12 DEF vars
  <1> QED
    BY <1>2, <1>3, <1>4, <1>5, <1>6, <1>7, <1>8, <1>9, <1>10, <1>11, <1>12 DEF Next

\* In every state of every behaviour the invariant holds.
THEOREM TrustInvariant == Spec => []TrustInv
  BY InitHolds, NextKeeps, PTL DEF Spec

\* I7: every call that runs is grounded in what its adapter knows.
THEOREM CallsStayGrounded == Spec => []CallsAreGrounded
  <1>1. TrustInv => CallsAreGrounded
    BY DEF TrustInv
  <1> QED  BY <1>1, TrustInvariant, PTL

\* I6: every probe of a discovery only reads.
THEOREM ProbesStayReads == Spec => []ProbesOnlyRead
  <1>1. TrustInv => ProbesOnlyRead
    BY DEF TrustInv
  <1> QED  BY <1>1, TrustInvariant, PTL

\* No call lifts the gate of an operation by what it learns.
THEOREM CallsRelaxNothing == Spec => OnlyStatementsRelax
  <1>1. ASSUME TrustInv, [Next]_vars
        PROVE  [Ungated(profile') /\ ~Ungated(profile) => call' = call]_vars
    <2>1. CASE UNCHANGED vars
      BY <2>1 DEF vars
    <2>2. CASE Republish \/ Import \/ Author \/ Prepare \/ Probe \/ Merge
      BY <2>2, Zenon DEF Republish, Import, Author, Prepare, Probe, Merge
    <2>3. ASSUME NEW c \in Callers, NEW yes \in BOOLEAN, Execute(c, yes) \/ NextPage(c)
          PROVE  Ungated(profile') <=> Ungated(profile)
      BY <2>3, Zenon DEF Execute, NextPage
    <2>4. ASSUME NEW c \in Callers, Finish(c)
          PROVE  Ungated(profile') <=> Ungated(profile)
      <3>1. /\ call[c] \in Running /\ profile \in Profiles \cup {NoProfile}
            /\ profile # NoProfile
        BY <1>1, <2>4 DEF Finish, TrustInv, TypeOK, Running, Idle
      <3>2. profile' = profile \/ profile' = Learn(profile, call[c].profile)
        BY <2>4 DEF Finish
      <3>3. call[c].profile \in Profiles
        BY <3>1 DEF Running
      <3> QED  BY <3>1, <3>2, <3>3, LearningLiftsNothing
    <2> QED  BY <1>1, <2>1, <2>2, <2>3, <2>4 DEF Next
  <1> QED  BY <1>1, TrustInvariant, PTL DEF Spec, OnlyStatementsRelax

-----------------------------------------------------------------------------
(* Redaction: what is found of a text to redact are ranges of its positions. *)

Texts == Seq(Tokens)
AnySecret == [from : Nat, to : Nat, wrap : BOOLEAN]
RangesIn(text) ==
    {range \in AnySecret : 1 <= range.from /\ range.from < range.to /\ range.to <= Len(text) + 1}
AnyRange(text) == RangesIn(text) \union {NoRange}
Scans(text) == [index : Nat, range : AnyRange(text)]

LEMMA MinIsLeast ==
    ASSUME NEW N \in SUBSET Nat, N # {}
    PROVE  Min(N) \in N /\ \A n \in N : Min(N) <= n
  <1>1. PICK n \in N : \A m \in N : n <= m
    BY LeastNumber
  <1> QED  BY <1>1 DEF Min

LEMMA ConsumeBounds ==
    ASSUME NEW text \in Texts, NEW index \in Nat, NEW tokens
    PROVE  /\ ConsumeWhile(text, index, tokens) \in Nat
           /\ ConsumeWhile(text, index, tokens) <= Len(text) + 1
           /\ ConsumeWhile(text, index, tokens) # Len(text) + 1 =>
                 ConsumeWhile(text, index, tokens) >= index
           /\ ConsumeTo(text, index, tokens) \in Nat
           /\ ConsumeTo(text, index, tokens) <= Len(text) + 1
           /\ ConsumeTo(text, index, tokens) # Len(text) + 1 =>
                 ConsumeTo(text, index, tokens) >= index
  <1>1. Len(text) \in Nat
    BY DEF Texts
  <1> DEFINE A == {i \in index .. Len(text) : text[i] \notin tokens} \union {Len(text) + 1}
             B == {i \in index .. Len(text) : text[i] \in tokens} \union {Len(text) + 1}
  <1>2. /\ A \in SUBSET Nat /\ A # {} /\ B \in SUBSET Nat /\ B # {}
        /\ \A n \in A \union B : n = Len(text) + 1 \/ (index <= n /\ n <= Len(text))
    BY <1>1
  <1> HIDE DEF A, B
  <1>3. Min(A) \in A /\ Min(B) \in B
    BY <1>2, MinIsLeast
  <1>4. ConsumeWhile(text, index, tokens) = Min(A) /\ ConsumeTo(text, index, tokens) = Min(B)
    BY DEF ConsumeWhile, ConsumeTo, A, B
  <1>5. \A n \in {Min(A), Min(B)} :
            n \in Nat /\ (n = Len(text) + 1 \/ (index <= n /\ n <= Len(text)))
    BY <1>2, <1>3
  <1> QED  BY <1>1, <1>4, <1>5

LEMMA QuotedTokenEndBounds ==
    ASSUME NEW text \in Texts, NEW start \in Nat
    PROVE  /\ QuotedTokenEnd(text, start) \in Nat
           /\ QuotedTokenEnd(text, start) # 0 =>
                 /\ QuotedTokenEnd(text, start) >= start + 2
                 /\ QuotedTokenEnd(text, start) <= Len(text) + 1
  <1>1. Len(text) \in Nat
    BY DEF Texts
  <1> DEFINE close == ConsumeTo(text, start + 1, {"quote"})
  <1>2. close \in Nat /\ close <= Len(text) + 1 /\ (close # Len(text) + 1 => close >= start + 1)
    BY ConsumeBounds
  <1>3. QuotedTokenEnd(text, start) = IF close > Len(text) THEN 0 ELSE close + 1
    BY DEF QuotedTokenEnd
  <1> HIDE DEF close
  <1> QED  BY <1>1, <1>2, <1>3

LEMMA QuotedValueRangeTyped ==
    ASSUME NEW text \in Texts, NEW start \in Nat, Quote(text, start)
    PROVE  /\ QuotedValueRange(text, start) \in AnySecret
           /\ QuotedValueRange(text, start).from < QuotedValueRange(text, start).to =>
                 QuotedValueRange(text, start) \in RangesIn(text)
  <1>1. Len(text) \in Nat /\ start <= Len(text)
    BY DEF Texts, Quote
  <1> DEFINE end == QuotedTokenEnd(text, start)
             to == IF end = 0 THEN Len(text) + 1 ELSE end - 1
  <1>2. end \in Nat /\ (end # 0 => end >= start + 2 /\ end <= Len(text) + 1)
    BY QuotedTokenEndBounds
  <1>3. QuotedValueRange(text, start) = [from |-> start + 1, to |-> to, wrap |-> FALSE]
    BY DEF QuotedValueRange, Secret
  <1> HIDE DEF end
  <1>4. to \in Nat /\ to <= Len(text) + 1
    BY <1>1, <1>2
  <1> HIDE DEF to
  <1> QED  BY <1>1, <1>3, <1>4 DEF AnySecret, RangesIn

LEMMA JsonValueRangeTyped ==
    ASSUME NEW text \in Texts, NEW start \in Nat, 1 <= start, start <= Len(text)
    PROVE  JsonValueRange(text, start) \in RangesIn(text)
  <1>1. Len(text) \in Nat
    BY DEF Texts
  <1>2. PICK to \in {start + 1, Len(text) + 1} :
            JsonValueRange(text, start) = [from |-> start, to |-> to, wrap |-> TRUE]
    BY DEF JsonValueRange, Secret
  <1>3. to \in Nat /\ start < to /\ to <= Len(text) + 1
    BY <1>1
  <1> QED  BY <1>1, <1>2, <1>3 DEF AnySecret, RangesIn

LEMMA QuotedTurnTyped ==
    ASSUME NEW text \in Texts, NEW scan \in Scans(text)
    PROVE  QuotedTurn(text, scan) \in Scans(text)
  <1>1. /\ scan.index \in Nat /\ Len(text) \in Nat /\ NoRange \in AnyRange(text)
        /\ \A i \in Nat : \A range \in AnyRange(text) : Scan(i, range) \in Scans(text)
    BY DEF Texts, Scans, Scan, AnyRange
  <1> DEFINE index == scan.index
             end == QuotedTokenEnd(text, index)
             separator == ConsumeWhile(text, end, Whitespace)
             key == SubSeq(text, index + 1, end - 2)
             value == ConsumeWhile(text, separator + 1, Whitespace)
             range == IF Quote(text, value) THEN QuotedValueRange(text, value)
                                            ELSE JsonValueRange(text, value)
             next == IF Quote(text, value) /\ range.to <= Len(text)
                     THEN range.to + 1 ELSE range.to
  <1>2. end \in Nat
    BY <1>1, QuotedTokenEndBounds
  <1>3. separator \in Nat
    BY <1>2, ConsumeBounds
  <1>4. value \in Nat /\ (value <= Len(text) => 1 <= value)
    BY <1>1, <1>3, ConsumeBounds
  <1>5. ASSUME value <= Len(text)
        PROVE  range \in AnySecret /\ (Counts(text, range) => range \in RangesIn(text))
    <2>1. CASE Quote(text, value)
      BY <1>4, <2>1, QuotedValueRangeTyped DEF Counts, AnySecret
    <2>2. CASE ~Quote(text, value)
      BY <1>4, <1>5, <2>2, JsonValueRangeTyped DEF RangesIn
    <2> QED  BY <2>1, <2>2
  <1>6. QuotedTurn(text, scan) =
            IF index > Len(text) \/ scan.range # NoRange THEN scan
            ELSE IF text[index] # "quote" \/ end = 0 THEN Scan(index + 1, NoRange)
            ELSE IF separator > Len(text) \/ text[separator] \notin {":", "="}
            THEN Scan(index + 1, NoRange)
            ELSE IF "newline" \in ToSet(key) \/ ~IsSensitiveKey(key) THEN Scan(end, NoRange)
            ELSE IF value > Len(text) THEN Scan(value, NoRange)
            ELSE IF Counts(text, range) THEN Scan(next, range)
            ELSE Scan(next, NoRange)
    BY DEF QuotedTurn
  <1> HIDE DEF end, separator, key, value, range
  <1>7. value <= Len(text) => next \in Nat
    BY <1>5 DEF AnySecret
  <1> HIDE DEF next
  <1>8. value > Len(text) \/ value <= Len(text)
    BY <1>1, <1>4
  <1>9. range \in RangesIn(text) => range \in AnyRange(text)
    BY DEF AnyRange
  <1> HIDE DEF index
  <1>10. index \in Nat /\ index + 1 \in Nat
    BY <1>1 DEF index
  <1> QED  BY <1>1, <1>2, <1>4, <1>5, <1>6, <1>7, <1>8, <1>9, <1>10

\* Turns that stay within a set are defined.
IsTurns(f, X, first, turn) ==
    f = [n \in Nat |-> IF n = 0 THEN first ELSE turn[f[n - 1]]] /\ f \in [Nat -> X]

LEMMA TurnsOf ==
    ASSUME NEW X, NEW first \in X, NEW turn \in [X -> X]
    PROVE  \E f : IsTurns(f, X, first, turn)
  <1> DEFINE step == [nx \in Nat \X X |-> turn[nx[2]]]
  <1>1. step \in [Nat \X X -> X]
    OBVIOUS
  <1> HIDE DEF step
  <1>2. PICK f : IsRecursion(f, X, first, step)
    BY <1>1, Recursion, Zenon
  <1>3. ASSUME NEW n \in Nat, n # 0 PROVE step[<<n, f[n - 1]>>] = turn[f[n - 1]]
    <2>1. n - 1 \in Nat
      BY <1>3
    <2>2. f[n - 1] \in X
      BY <1>2, <2>1 DEF IsRecursion
    <2> QED  BY <2>2 DEF step
  <1>4. f = [n \in Nat |-> IF n = 0 THEN first ELSE turn[f[n - 1]]]
    BY <1>2, <1>3 DEF IsRecursion
  <1>5. IsTurns(f, X, first, turn)
    BY <1>2, <1>4 DEF IsRecursion, IsTurns
  <1> QED  BY <1>5

LEMMA NextQuotedTyped ==
    ASSUME NEW text \in Texts, NEW search \in Nat
    PROVE  NextQuoted(text, search) \in AnyRange(text)
  <1> DEFINE first == Scan(search, NoRange)
             turn == [scan \in Scans(text) |-> QuotedTurn(text, scan)]
             IsScan(f) == f = [n \in Nat |-> IF n = 0 THEN first ELSE QuotedTurn(text, f[n - 1])]
             scanned == CHOOSE f : IsScan(f)
  <1>1. first \in Scans(text) /\ turn \in [Scans(text) -> Scans(text)] /\ Len(text) \in Nat
    BY QuotedTurnTyped DEF Scan, Scans, AnyRange, Texts
  <1>2. NextQuoted(text, search) = scanned[Len(text)].range
    BY DEF NextQuoted
  <1> HIDE DEF first, turn
  <1>03. PICK f : IsTurns(f, Scans(text), first, turn)
    BY <1>1, TurnsOf, Zenon
  <1>3. f = [n \in Nat |-> IF n = 0 THEN first ELSE turn[f[n - 1]]] /\ f \in [Nat -> Scans(text)]
    BY <1>03 DEF IsTurns
  <1>4. IsScan(f)
    <2>1. ASSUME NEW n \in Nat, n # 0 PROVE turn[f[n - 1]] = QuotedTurn(text, f[n - 1])
      <3>1. f[n - 1] \in Scans(text)
        BY <1>3, <2>1
      <3> QED  BY <3>1 DEF turn
    <2> QED  BY <1>3, <2>1
  <1> HIDE DEF IsScan
  <1>5. IsScan(scanned)
    BY <1>4, Zenon
  <1> USE DEF IsScan
  <1> HIDE DEF scanned
  <1>6. scanned[0] = first /\ \A n \in Nat : scanned[n + 1] = QuotedTurn(text, scanned[n])
    <2>1. \A n \in Nat : n + 1 \in Nat /\ n + 1 # 0 /\ n + 1 - 1 = n
      OBVIOUS
    <2> QED  BY <1>5, <2>1
  <1> DEFINE S == {n \in Nat : scanned[n] \in Scans(text)}
  <1>7. 0 \in S
    BY <1>1, <1>6
  <1>8. \A n \in Nat : n \in S => n + 1 \in S
    BY <1>6, QuotedTurnTyped
  <1> HIDE DEF S
  <1>9. \A n \in Nat : n \in S
    BY <1>7, <1>8, EveryNumber
  <1>10. scanned[Len(text)] \in Scans(text)
    BY <1>1, <1>9 DEF S
  <1> QED  BY <1>2, <1>10 DEF Scans

\* What the scan for any sensitive name finds, with or without quotes.
LEMMA AfterSeparatorTyped ==
    ASSUME NEW text \in Texts, NEW start, NEW end \in Nat
    PROVE  AfterSeparator(text, start, end) \in Nat
  <1> DEFINE after == ConsumeWhile(text, end, {" "})
  <1>1. after \in Nat
    BY ConsumeBounds
  <1>2. AfterSeparator(text, start, end) \in {0, after, after + 1}
    BY DEF AfterSeparator
  <1> HIDE DEF after
  <1> QED  BY <1>1, <1>2

LEMMA ValueTurnTyped ==
    ASSUME NEW text \in Texts, NEW quoted \in AnyRange(text), NEW scan \in Scans(text)
    PROVE  ValueTurn(text, quoted, scan) \in Scans(text)
  <1>1. /\ scan.index \in Nat /\ Len(text) \in Nat /\ NoRange \in AnyRange(text)
        /\ \A i \in Nat : \A range \in AnyRange(text) : Scan(i, range) \in Scans(text)
    BY DEF Texts, Scans, Scan, AnyRange
  <1> DEFINE index == scan.index
             end == ConsumeWhile(text, index + 1, TextKeys)
             after == AfterSeparator(text, index, end)
             value == ConsumeWhile(text, after, {" "})
             range == IF Quote(text, value) THEN QuotedValueRange(text, value)
                      ELSE UnquotedRange(text, index, end, value)
  <1>2. end \in Nat
    BY <1>1, ConsumeBounds
  <1>3. after \in Nat
    BY <1>2, AfterSeparatorTyped
  <1>4. value \in Nat /\ (value <= Len(text) => value >= after)
    <2> HIDE DEF after
    <2>1. value \in Nat /\ (value # Len(text) + 1 => value >= after)
      BY <1>3, ConsumeBounds
    <2> HIDE DEF value
    <2> QED  BY <1>1, <1>3, <2>1
  <1>5. ASSUME value <= Len(text), after # 0
        PROVE  range \in AnySecret /\ (range.to > range.from => range \in RangesIn(text))
    <2>1. CASE Quote(text, value)
      BY <1>4, <2>1, QuotedValueRangeTyped DEF AnySecret
    <2>2. CASE ~Quote(text, value)
      <3>1. PICK tokens :
                range = [from |-> value, to |-> ConsumeTo(text, value, tokens), wrap |-> FALSE]
        BY <2>2 DEF UnquotedRange, Secret
      <3>2. /\ ConsumeTo(text, value, tokens) \in Nat
            /\ ConsumeTo(text, value, tokens) <= Len(text) + 1
        BY <1>4, ConsumeBounds
      <3> HIDE DEF range, value, after
      <3>3. 1 <= value
        BY <1>3, <1>4, <1>5
      <3> QED  BY <1>4, <3>1, <3>2, <3>3 DEF AnySecret, RangesIn
    <2> QED  BY <2>1, <2>2
  <1>6. ValueTurn(text, quoted, scan) =
            IF index > Len(text) \/ scan.range # NoRange THEN scan
            ELSE IF quoted # NoRange /\ index >= quoted.from THEN Scan(index, quoted)
            ELSE IF text[index] \notin TextKeys \/ (index > 1 /\ text[index - 1] \in TextKeys)
            THEN Scan(index + 1, NoRange)
            ELSE IF ~IsSensitiveKey(SubSeq(text, index, end - 1)) \/ after = 0
            THEN Scan(end, NoRange)
            ELSE IF value > Len(text) \/ text[value] = "newline" THEN Scan(end, NoRange)
            ELSE IF range.to > range.from THEN Scan(range.to, range)
            ELSE Scan(IF range.to > end THEN range.to ELSE end, NoRange)
    BY DEF ValueTurn
  <1> HIDE DEF end, after, value, range
  <1>7. value > Len(text) \/ value <= Len(text)
    BY <1>1, <1>4
  <1>8. /\ range \in RangesIn(text) => range \in AnyRange(text)
        /\ range \in AnySecret => range.to \in Nat
    BY DEF AnyRange, AnySecret
  <1> HIDE DEF index
  <1>9. index \in Nat /\ index + 1 \in Nat
    BY <1>1 DEF index
  <1> QED  BY <1>1, <1>2, <1>5, <1>6, <1>7, <1>8, <1>9

LEMMA NextValueTyped ==
    ASSUME NEW text \in Texts, NEW search \in Nat, NEW quoted \in AnyRange(text)
    PROVE  NextValue(text, search, quoted) \in AnyRange(text)
  <1> DEFINE first == Scan(search, NoRange)
             turn == [scan \in Scans(text) |-> ValueTurn(text, quoted, scan)]
             IsScan(f) == f = [n \in Nat |-> IF n = 0 THEN first
                                             ELSE ValueTurn(text, quoted, f[n - 1])]
             scanned == CHOOSE f : IsScan(f)
  <1>1. first \in Scans(text) /\ turn \in [Scans(text) -> Scans(text)] /\ Len(text) \in Nat
    BY ValueTurnTyped DEF Scan, Scans, AnyRange, Texts
  <1>2. NextValue(text, search, quoted) \in {scanned[Len(text)].range, quoted}
    BY DEF NextValue, OrQuoted
  <1> HIDE DEF first, turn
  <1>03. PICK f : IsTurns(f, Scans(text), first, turn)
    BY <1>1, TurnsOf, Zenon
  <1>3. f = [n \in Nat |-> IF n = 0 THEN first ELSE turn[f[n - 1]]] /\ f \in [Nat -> Scans(text)]
    BY <1>03 DEF IsTurns
  <1>4. IsScan(f)
    <2>1. ASSUME NEW n \in Nat, n # 0 PROVE turn[f[n - 1]] = ValueTurn(text, quoted, f[n - 1])
      <3>1. f[n - 1] \in Scans(text)
        BY <1>3, <2>1
      <3> QED  BY <3>1 DEF turn
    <2> QED  BY <1>3, <2>1
  <1> HIDE DEF IsScan
  <1>5. IsScan(scanned)
    BY <1>4, Zenon
  <1> USE DEF IsScan
  <1> HIDE DEF scanned
  <1>6. scanned[0] = first /\ \A n \in Nat : scanned[n + 1] = ValueTurn(text, quoted, scanned[n])
    <2>1. \A n \in Nat : n + 1 \in Nat /\ n + 1 # 0 /\ n + 1 - 1 = n
      OBVIOUS
    <2> QED  BY <1>5, <2>1
  <1> DEFINE S == {n \in Nat : scanned[n] \in Scans(text)}
  <1>7. 0 \in S
    BY <1>1, <1>6
  <1>8. \A n \in Nat : n \in S => n + 1 \in S
    BY <1>6, ValueTurnTyped
  <1> HIDE DEF S
  <1>9. \A n \in Nat : n \in S
    BY <1>7, <1>8, EveryNumber
  <1>10. scanned[Len(text)] \in Scans(text)
    BY <1>1, <1>9 DEF S
  <1> QED  BY <1>2, <1>10 DEF Scans

Founds(text) == [ranges : SUBSET RangesIn(text), search : Nat, quoted : AnyRange(text)]

LEMMA NameValueTurnTyped ==
    ASSUME NEW text \in Texts, NEW done \in Founds(text)
    PROVE  NameValueTurn(text, done) \in Founds(text)
  <1> DEFINE range == NextValue(text, done.search, done.quoted)
             next == IF Quote(text, range.to) THEN range.to + 1 ELSE range.to
             isPassed == done.quoted # NoRange /\ done.quoted.from < next
             again == IF isPassed THEN NextQuoted(text, next) ELSE done.quoted
  <1>1. /\ done.ranges \in SUBSET RangesIn(text) /\ done.search \in Nat
        /\ done.quoted \in AnyRange(text)
    BY DEF Founds
  <1>2. range \in AnyRange(text)
    BY <1>1, NextValueTyped
  <1>3. \/ NameValueTurn(text, done) = done
        \/ /\ range # NoRange
           /\ NameValueTurn(text, done) =
                [ranges |-> done.ranges \union {range}, search |-> next, quoted |-> again]
    BY DEF NameValueTurn, TakeRange
  <1> HIDE DEF range
  <1>4. CASE NameValueTurn(text, done) = done
    BY <1>4
  <1>5. CASE NameValueTurn(text, done) # done
    <2>1. range \in RangesIn(text)
      BY <1>2, <1>3, <1>5 DEF AnyRange
    <2>2. next \in Nat
      BY <2>1 DEF RangesIn, AnySecret
    <2> HIDE DEF next
    <2>3. again \in AnyRange(text)
      BY <1>1, <2>2, NextQuotedTyped
    <2> HIDE DEF again
    <2> QED  BY <1>1, <1>3, <1>5, <2>1, <2>2, <2>3 DEF Founds
  <1> QED  BY <1>4, <1>5

LEMMA NameValueRangesTyped ==
    ASSUME NEW text \in Texts
    PROVE  NameValueRanges(text) \subseteq RangesIn(text)
  <1> DEFINE first == [ranges |-> {}, search |-> 1, quoted |-> NextQuoted(text, 1)]
             turn == [done \in Founds(text) |-> NameValueTurn(text, done)]
             IsDone(f) == f = [n \in Nat |-> IF n = 0 THEN first ELSE NameValueTurn(text, f[n - 1])]
             done == CHOOSE f : IsDone(f)
  <1>1. first \in Founds(text) /\ turn \in [Founds(text) -> Founds(text)] /\ Len(text) \in Nat
    <2>1. NextQuoted(text, 1) \in AnyRange(text)
      BY NextQuotedTyped
    <2>2. first \in Founds(text)
      BY <2>1 DEF Founds
    <2> QED  BY <2>2, NameValueTurnTyped DEF Texts
  <1>2. NameValueRanges(text) = done[Len(text)].ranges
    BY DEF NameValueRanges
  <1> HIDE DEF first, turn
  <1>03. PICK f : IsTurns(f, Founds(text), first, turn)
    BY <1>1, TurnsOf, Zenon
  <1>3. f = [n \in Nat |-> IF n = 0 THEN first ELSE turn[f[n - 1]]] /\ f \in [Nat -> Founds(text)]
    BY <1>03 DEF IsTurns
  <1>4. IsDone(f)
    <2>1. ASSUME NEW n \in Nat, n # 0 PROVE turn[f[n - 1]] = NameValueTurn(text, f[n - 1])
      <3>1. f[n - 1] \in Founds(text)
        BY <1>3, <2>1
      <3> QED  BY <3>1 DEF turn
    <2> QED  BY <1>3, <2>1
  <1> HIDE DEF IsDone
  <1>5. IsDone(done)
    BY <1>4, Zenon
  <1> USE DEF IsDone
  <1> HIDE DEF done
  <1>6. done[0] = first /\ \A n \in Nat : done[n + 1] = NameValueTurn(text, done[n])
    <2>1. \A n \in Nat : n + 1 \in Nat /\ n + 1 # 0 /\ n + 1 - 1 = n
      OBVIOUS
    <2> QED  BY <1>5, <2>1
  <1> DEFINE S == {n \in Nat : done[n] \in Founds(text)}
  <1>7. 0 \in S
    BY <1>1, <1>6
  <1>8. \A n \in Nat : n \in S => n + 1 \in S
    BY <1>6, NameValueTurnTyped
  <1> HIDE DEF S
  <1>9. \A n \in Nat : n \in S
    BY <1>7, <1>8, EveryNumber
  <1>10. done[Len(text)] \in Founds(text)
    BY <1>1, <1>9 DEF S
  <1> QED  BY <1>2, <1>10 DEF Founds

LEMMA VendorRangesTyped ==
    ASSUME NEW text \in Texts
    PROVE  VendorRanges(text) \subseteq RangesIn(text)
  <1>1. Len(text) \in Nat /\ DOMAIN text = 1 .. Len(text)
    BY DEF Texts
  <1>2. ASSUME NEW range \in VendorRanges(text) PROVE range \in RangesIn(text)
    <2>1. PICK i \in 1 .. Len(text) : range = [from |-> i, to |-> i + 1, wrap |-> FALSE]
      BY <1>1, <1>2 DEF VendorRanges, Secret
    <2> QED  BY <1>1, <2>1 DEF RangesIn, AnySecret
  <1> QED  BY <1>2

-----------------------------------------------------------------------------
(* The ranges, merged, are in order and do not overlap.                      *)

InOrder(merged) ==
    \A j, k \in DOMAIN merged : j < k => merged[j].to <= merged[k].from
UpTo(text, merged, i) ==
    /\ merged \in Seq(RangesIn(text)) /\ InOrder(merged)
    /\ \A k \in DOMAIN merged : merged[k].from <= i

LEMMA FirstComes ==
    ASSUME NEW text \in Texts, NEW here \in SUBSET RangesIn(text), here # {}
    PROVE  \E range \in here : \A other \in here : Comes(range, other)
  <1> DEFINE ends == {range.to : range \in here}
  <1>1. \A range \in here : range.to \in Nat /\ range.wrap \in BOOLEAN
    BY DEF RangesIn, AnySecret
  <1>2. ends \in SUBSET Nat /\ ends # {}
    BY <1>1
  <1>3. PICK to \in ends : \A end \in ends : to <= end
    BY <1>2, LeastNumber
  <1>4. to \in Nat /\ \A range \in here : to <= range.to
    BY <1>2, <1>3
  <1>5. PICK first \in here : first.to = to
    BY <1>3
  <1>6. CASE \E range \in here : range.to = to /\ range.wrap
    <2>1. PICK range \in here : range.to = to /\ range.wrap
      BY <1>6
    <2>2. \A other \in here : range.to < other.to \/ (range.to = other.to /\ range.wrap)
      BY <1>1, <1>4, <2>1
    <2> QED  BY <2>2 DEF Comes
  <1>7. CASE ~\E range \in here : range.to = to /\ range.wrap
    <2>1. \A other \in here :
              first.to < other.to \/ (first.to = other.to /\ ~other.wrap)
      BY <1>1, <1>4, <1>5, <1>7
    <2> QED  BY <2>1 DEF Comes
  <1> QED  BY <1>6, <1>7

LEMMA MergeRangesInOrder ==
    ASSUME NEW text \in Texts, NEW i \in Nat, NEW merged, UpTo(text, merged, i),
           NEW here \in SUBSET RangesIn(text), \A range \in here : range.from = i + 1
    PROVE  UpTo(text, MergeRanges(merged, here), i + 1)
  <1>1. /\ Len(text) \in Nat /\ merged \in Seq(RangesIn(text)) /\ Len(merged) \in Nat
        /\ DOMAIN merged = 1 .. Len(merged)
        /\ \A k \in DOMAIN merged : /\ merged[k] \in RangesIn(text) /\ merged[k].from <= i
                                    /\ merged[k].from \in Nat /\ merged[k].to \in Nat
    BY DEF UpTo, Texts, RangesIn, AnySecret
  <1>2. CASE here = {}
    <2>1. MergeRanges(merged, here) = merged
      BY <1>2 DEF MergeRanges
    <2>2. \A k \in DOMAIN merged : merged[k].from <= i + 1
      BY <1>1
    <2> QED  BY <2>1, <2>2 DEF UpTo
  <1>3. CASE here # {}
    <2> DEFINE first == CHOOSE range \in here : \A other \in here : Comes(range, other)
               ends == {range.to : range \in here}
               to == Max(ends)
               last == merged[Len(merged)]
    <2>1. first \in here
      BY <1>3, FirstComes
    <2>2. /\ first.from = i + 1 /\ first.wrap \in BOOLEAN
          /\ first.to \in ends /\ first.to > i + 1
      BY <2>1 DEF RangesIn, AnySecret
    <2>3. ends \in SUBSET Nat /\ ends # {} /\ \A end \in ends : end <= Len(text) + 1
      BY <1>3 DEF RangesIn, AnySecret
    <2>4. to \in ends /\ \A end \in ends : end <= to
      <3>1. Len(text) + 1 \in Nat
        BY <1>1
      <3> HIDE DEF ends
      <3> QED  BY <2>3, <3>1, GreatestNumber
    <2>5. to \in Nat /\ to <= Len(text) + 1 /\ to > i + 1
      <3>1. to \in Nat /\ to <= Len(text) + 1 /\ first.to <= to /\ first.to \in Nat
        BY <2>2, <2>3, <2>4
      <3> HIDE DEF first, to
      <3> QED  BY <2>2, <3>1
    <2>6. MergeRanges(merged, here) =
              IF merged # <<>> /\ first.from < last.to
              THEN [merged EXCEPT ![Len(merged)].to = Max({last.to, to})]
              ELSE Append(merged, [from |-> first.from, to |-> to, wrap |-> first.wrap])
      BY <1>3 DEF MergeRanges, Secret
    <2> HIDE DEF first, to, ends
    <2>7. CASE merged # <<>> /\ first.from < last.to
      <3>1. Len(merged) \in DOMAIN merged /\ last \in RangesIn(text) /\ last.to \in Nat
        BY <1>1, <2>7
      <3>2. PICK end : end = Max({last.to, to}) /\ end \in Nat /\ end >= last.to
                       /\ end <= Len(text) + 1
        <4>1. {last.to, to} \in SUBSET Nat /\ last.to <= Len(text) + 1 /\ Len(text) + 1 \in Nat
          BY <1>1, <2>5, <3>1 DEF RangesIn
        <4>2. \A end \in {last.to, to} : end <= Len(text) + 1
          BY <2>5, <4>1
        <4>3. /\ Max({last.to, to}) \in {last.to, to}
              /\ \A end \in {last.to, to} : end <= Max({last.to, to})
          <5> DEFINE N == {last.to, to}
          <5>1. N # {} /\ N \in SUBSET Nat /\ \A end \in N : end <= Len(text) + 1
            BY <4>1, <4>2
          <5> HIDE DEF N
          <5>2. Max(N) \in N /\ \A n \in N : n <= Max(N)
            BY <4>1, <5>1, GreatestNumber
          <5> QED  BY <5>2 DEF N
        <4> QED  BY <2>5, <3>1, <4>2, <4>3
      <3> DEFINE longer == [last EXCEPT !.to = end]
                 new == [merged EXCEPT ![Len(merged)] = longer]
      <3>3. MergeRanges(merged, here) = new
        BY <2>6, <2>7, <3>2
      <3>4. longer \in RangesIn(text) /\ longer.from = last.from /\ longer.to = end
        BY <3>1, <3>2 DEF RangesIn, AnySecret
      <3> HIDE DEF longer
      <3>5. /\ new \in Seq(RangesIn(text)) /\ DOMAIN new = 1 .. Len(merged)
            /\ \A k \in DOMAIN merged : new[k] = IF k = Len(merged) THEN longer ELSE merged[k]
        BY <1>1, <3>1, <3>4
      <3>6. InOrder(new)
        <4>1. ASSUME NEW j \in 1 .. Len(merged), NEW k \in 1 .. Len(merged), j < k
              PROVE  new[j].to <= new[k].from
          <5>1. new[j] = merged[j] /\ new[k].from = merged[k].from
            BY <1>1, <3>4, <3>5, <4>1
          <5>2. merged[j].to <= merged[k].from
            BY <1>1, <4>1 DEF UpTo, InOrder
          <5> QED  BY <5>1, <5>2
        <4> QED  BY <3>5, <4>1 DEF InOrder
      <3>7. \A k \in DOMAIN new : new[k].from <= i + 1
        <4>1. \A k \in 1 .. Len(merged) : new[k].from = merged[k].from
          BY <1>1, <3>4, <3>5
        <4> QED  BY <1>1, <3>5, <4>1
      <3> HIDE DEF new
      <3> QED  BY <3>3, <3>5, <3>6, <3>7 DEF UpTo
    <2>8. CASE ~(merged # <<>> /\ first.from < last.to)
      <3> DEFINE more == [from |-> first.from, to |-> to, wrap |-> first.wrap]
                 new == Append(merged, more)
      <3>1. more \in RangesIn(text) /\ more.from = i + 1
        BY <2>2, <2>5 DEF RangesIn, AnySecret
      <3>2. MergeRanges(merged, here) = new
        BY <2>6, <2>8
      <3> HIDE DEF more
      <3>3. /\ new \in Seq(RangesIn(text)) /\ DOMAIN new = 1 .. Len(merged) + 1
            /\ new[Len(merged) + 1] = more
            /\ \A k \in 1 .. Len(merged) : new[k] = merged[k]
        BY <1>1, <3>1
      <3> HIDE DEF new
      <3>4. \A k \in 1 .. Len(merged) : merged[k].to <= i + 1
        <4>1. ASSUME NEW k \in 1 .. Len(merged) PROVE merged[k].to <= i + 1
          <5>1. Len(merged) \in DOMAIN merged /\ merged # <<>>
            BY <1>1, <4>1
          <5>2. last.to <= i + 1 /\ last \in RangesIn(text)
            BY <1>1, <2>2, <2>8, <5>1
          <5>3. last.from \in Nat /\ last.to \in Nat /\ last.from < last.to
            BY <5>2 DEF RangesIn, AnySecret
          <5>4. CASE k = Len(merged)
            BY <5>2, <5>4
          <5>5. CASE k # Len(merged)
            <6>1. k < Len(merged)
              <7>1. Len(merged) \in Nat
                BY <1>1
              <7> QED  BY <4>1, <5>5, <7>1
            <6>0. k \in DOMAIN merged /\ merged[k].to \in Nat
              BY <1>1, <4>1, Zenon
            <6>2. InOrder(merged)
              BY DEF UpTo
            <6>3. merged[k].to <= last.from
              BY <5>1, <6>1, <6>2, <6>0 DEF InOrder
            <6> HIDE DEF last
            <6> QED  BY <5>2, <5>3, <6>3, <6>0
          <5> QED  BY <5>4, <5>5
        <4> QED  BY <4>1
      <3>5. InOrder(new)
        <4>1. ASSUME NEW j \in 1 .. Len(merged) + 1, NEW k \in 1 .. Len(merged) + 1, j < k
              PROVE  new[j].to <= new[k].from
          <5>1. j \in 1 .. Len(merged) /\ new[j] = merged[j]
            <6>0. Len(merged) \in Nat
              BY <1>1
            <6>1. j \in 1 .. Len(merged)
              BY <4>1, <6>0
            <6> QED  BY <3>3, <6>1
          <5>2. CASE k = Len(merged) + 1
            BY <3>1, <3>3, <3>4, <5>1, <5>2
          <5>3. CASE k # Len(merged) + 1
            <6>1. k \in 1 .. Len(merged) /\ new[k] = merged[k]
              <7>0. Len(merged) \in Nat
                BY <1>1
              <7>1. k \in 1 .. Len(merged)
                BY <5>3, <7>0
              <7> QED  BY <3>3, <7>1
            <6>2. InOrder(merged) /\ DOMAIN merged = 1 .. Len(merged)
              BY DEF UpTo
            <6>3. merged[j].to <= merged[k].from
              BY <4>1, <5>1, <6>1, <6>2 DEF InOrder
            <6> QED  BY <5>1, <6>1, <6>3
          <5> QED  BY <5>2, <5>3
        <4> QED  BY <3>3, <4>1 DEF InOrder
      <3>6. \A k \in DOMAIN new : new[k].from <= i + 1
        <4>1. ASSUME NEW k \in 1 .. Len(merged) + 1 PROVE new[k].from <= i + 1
          <5>1. CASE k = Len(merged) + 1
            BY <3>1, <3>3, <5>1
          <5>2. CASE k # Len(merged) + 1
            <6>1. k \in 1 .. Len(merged) /\ new[k] = merged[k]
              BY <1>1, <3>3, <4>1, <5>2
            <6> QED  BY <1>1, <6>1
          <5> QED  BY <5>1, <5>2
        <4> QED  BY <3>3, <4>1
      <3> QED  BY <3>2, <3>3, <3>5, <3>6 DEF UpTo
    <2> QED  BY <2>7, <2>8
  <1> QED  BY <1>2, <1>3

LEMMA SensitiveRangesInOrder ==
    ASSUME NEW text \in Texts
    PROVE  SensitiveRanges(text) \in Seq(RangesIn(text)) /\ InOrder(SensitiveRanges(text))
  <1> DEFINE ranges == NameValueRanges(text) \union VendorRanges(text)
             At(i) == {range \in ranges : range.from = i}
             IsMerged(f) == f = [i \in Nat |-> IF i = 0 THEN <<>> ELSE MergeRanges(f[i - 1], At(i))]
             merged == CHOOSE f : IsMerged(f)
  <1>1. ranges \subseteq RangesIn(text)
    BY NameValueRangesTyped, VendorRangesTyped
  <1>2. SensitiveRanges(text) = merged[Len(text)]
    BY DEF SensitiveRanges
  <1> HIDE DEF ranges
  \* The recursion is defined: what is merged up to a position is unique.
  <1> DEFINE Steps == {im \in Nat \X Seq(RangesIn(text)) : UpTo(text, im[2], im[1])}
             turn == [im \in Steps |-> <<im[1] + 1, MergeRanges(im[2], At(im[1] + 1))>>]
             zero == <<0, <<>>>>
  <1>0. UpTo(text, <<>>, 0)
    <2>1. <<>> \in Seq(RangesIn(text)) /\ DOMAIN <<>> = {}
      OBVIOUS
    <2> QED  BY <2>1 DEF UpTo, InOrder
  <1>3. zero \in Steps /\ turn \in [Steps -> Steps]
    <2>1. zero \in Steps
      BY <1>0 DEF UpTo
    <2>2. ASSUME NEW im \in Steps
          PROVE  <<im[1] + 1, MergeRanges(im[2], At(im[1] + 1))>> \in Steps
      <3>1. im[1] \in Nat /\ im[1] + 1 \in Nat /\ UpTo(text, im[2], im[1])
        OBVIOUS
      <3>2. /\ At(im[1] + 1) \in SUBSET RangesIn(text)
            /\ \A range \in At(im[1] + 1) : range.from = im[1] + 1
        BY <1>1
      <3> HIDE DEF At
      <3>3. UpTo(text, MergeRanges(im[2], At(im[1] + 1)), im[1] + 1)
        BY <3>1, <3>2, MergeRangesInOrder
      <3> QED  BY <3>1, <3>3 DEF UpTo
    <2> QED  BY <2>1, <2>2
  <1> HIDE DEF turn, Steps, At, zero
  <1>04. PICK g : IsTurns(g, Steps, zero, turn)
    BY <1>3, TurnsOf, Zenon
  <1>4. g = [n \in Nat |-> IF n = 0 THEN zero ELSE turn[g[n - 1]]] /\ g \in [Nat -> Steps]
    BY <1>04 DEF IsTurns
  <1>5. g[0] = zero /\ \A n \in Nat : g[n + 1] = turn[g[n]]
    <2>1. \A n \in Nat : n + 1 \in Nat /\ n + 1 # 0 /\ n + 1 - 1 = n
      OBVIOUS
    <2> QED  BY <1>4, <2>1
  <1>6. \A n \in Nat : g[n + 1] = <<g[n][1] + 1, MergeRanges(g[n][2], At(g[n][1] + 1))>>
    BY <1>4, <1>5 DEF turn
  <1> DEFINE S == {n \in Nat : g[n][1] = n}
  <1>7. \A n \in Nat : n \in S
    <2>1. 0 \in S
      BY <1>5 DEF zero
    <2>2. \A n \in Nat : n \in S => n + 1 \in S
      BY <1>6
    <2> HIDE DEF S
    <2> QED  BY <2>1, <2>2, EveryNumber
  <1> DEFINE f == [n \in Nat |-> g[n][2]]
  <1>8. IsMerged(f)
    <2>1. f[0] = <<>>
      BY <1>5 DEF zero
    <2>2. ASSUME NEW n \in Nat, n # 0 PROVE f[n] = MergeRanges(f[n - 1], At(n))
      <3>1. n - 1 \in Nat /\ n - 1 + 1 = n
        BY <2>2
      <3>2. g[n] = <<g[n - 1][1] + 1, MergeRanges(g[n - 1][2], At(g[n - 1][1] + 1))>>
        BY <1>6, <3>1
      <3>3. g[n - 1][1] = n - 1
        BY <1>7, <3>1
      <3> QED  BY <3>1, <3>2, <3>3
    <2>3. f = [n \in Nat |-> f[n]]
      OBVIOUS
    <2> HIDE DEF f
    <2> QED  BY <2>1, <2>2, <2>3
  <1> HIDE DEF f, IsMerged
  <1>9. IsMerged(merged)
    BY <1>8, Zenon
  <1> USE DEF IsMerged
  <1> HIDE DEF merged
  <1>10. merged[0] = <<>> /\ \A i \in Nat : merged[i + 1] = MergeRanges(merged[i], At(i + 1))
    <2>1. \A i \in Nat : i + 1 \in Nat /\ i + 1 # 0 /\ i + 1 - 1 = i
      OBVIOUS
    <2> QED  BY <1>9, <2>1
  <1> DEFINE T == {i \in Nat : UpTo(text, merged[i], i)}
  <1>11. 0 \in T
    BY <1>0, <1>10
  <1>12. ASSUME NEW i \in Nat, i \in T PROVE i + 1 \in T
    <2>1. UpTo(text, merged[i], i)
      BY <1>12
    <2>2. At(i + 1) \in SUBSET RangesIn(text) /\ \A range \in At(i + 1) : range.from = i + 1
      BY <1>1 DEF At
    <2>3. UpTo(text, MergeRanges(merged[i], At(i + 1)), i + 1)
      BY <2>1, <2>2, MergeRangesInOrder
    <2> QED  BY <1>10, <2>3
  <1> HIDE DEF T
  <1>13. \A i \in Nat : i \in T
    BY <1>11, <1>12, EveryNumber
  <1>14. UpTo(text, merged[Len(text)], Len(text))
    BY <1>13 DEF T, Texts
  <1> QED  BY <1>2, <1>14 DEF UpTo

-----------------------------------------------------------------------------
(* Texts are alike if they differ in how many markers are next to each other. *)

Alike(x, y) == Joined(x) = Joined(y)
OneMarker == <<TextMarker>>

LEMMA JoinedIs ==
    ASSUME NEW text \in Texts
    PROVE  \E j : /\ j[0] = <<>> /\ \A n \in Nat : j[n + 1] = JoinNext(j[n], text[n + 1])
                  /\ Joined(text) = j[Len(text)]
  <1> DEFINE tokens == {text[n] : n \in Nat}
             step == [nx \in Nat \X Seq(tokens) |-> JoinNext(nx[2], text[nx[1]])]
             IsJoined(f) == f = [n \in Nat |-> IF n = 0 THEN <<>> ELSE JoinNext(f[n - 1], text[n])]
             joined == CHOOSE f : IsJoined(f)
             none == <<>>
  <1>1. Joined(text) = joined[Len(text)]
    BY DEF Joined
  <1>2. none \in Seq(tokens)
    OBVIOUS
  <1>3. step \in [Nat \X Seq(tokens) -> Seq(tokens)]
    <2>1. ASSUME NEW n \in Nat, NEW x \in Seq(tokens) PROVE JoinNext(x, text[n]) \in Seq(tokens)
      <3>1. text[n] \in tokens
        OBVIOUS
      <3> HIDE DEF tokens
      <3> QED  BY <3>1 DEF JoinNext
    <2> QED  BY <2>1
  <1> HIDE DEF tokens, step, none
  <1>4. PICK f : IsRecursion(f, Seq(tokens), none, step)
    BY <1>2, <1>3, Recursion, Zenon
  <1>5. IsJoined(f)
    <2>1. ASSUME NEW n \in Nat, n # 0 PROVE step[<<n, f[n - 1]>>] = JoinNext(f[n - 1], text[n])
      <3>1. n - 1 \in Nat
        BY <2>1
      <3>2. f[n - 1] \in Seq(tokens)
        BY <1>4, <3>1 DEF IsRecursion
      <3> QED  BY <3>2 DEF step
    <2> QED  BY <1>4, <2>1 DEF IsRecursion, none
  <1> HIDE DEF IsJoined
  <1>6. IsJoined(joined)
    BY <1>5, Zenon
  <1> USE DEF IsJoined
  <1> HIDE DEF joined
  <1>7. joined[0] = <<>> /\ \A n \in Nat : joined[n + 1] = JoinNext(joined[n], text[n + 1])
    <2>1. \A n \in Nat : n + 1 \in Nat /\ n + 1 # 0 /\ n + 1 - 1 = n
      OBVIOUS
    <2> QED  BY <1>6, <2>1
  <1> QED  BY <1>1, <1>7

LEMMA JoinedAppend ==
    /\ Joined(<<>>) = <<>>
    /\ \A text \in Texts : \A token \in Tokens :
           Joined(Append(text, token)) = JoinNext(Joined(text), token)
  <1>1. Joined(<<>>) = <<>>
    <2>1. <<>> \in Texts
      BY DEF Texts
    <2> QED  BY <2>1, JoinedIs
  <1>2. ASSUME NEW text \in Texts, NEW token \in Tokens
        PROVE  Joined(Append(text, token)) = JoinNext(Joined(text), token)
    <2> DEFINE more == Append(text, token)
    <2>1. /\ more \in Texts /\ Len(text) \in Nat /\ Len(more) = Len(text) + 1
          /\ more[Len(text) + 1] = token
          /\ \A n \in 1 .. Len(text) : more[n] = text[n]
      <3>1. text \in Seq(Tokens)
        BY DEF Texts
      <3>2. more \in Seq(Tokens) /\ Len(text) \in Nat /\ Len(more) = Len(text) + 1
        BY <3>1
      <3>3. more[Len(text) + 1] = token
        BY <3>1
      <3>4. \A n \in 1 .. Len(text) : more[n] = text[n]
        BY <3>1
      <3> HIDE DEF more
      <3> QED  BY <3>2, <3>3, <3>4 DEF Texts
    <2> HIDE DEF more
    <2>2. PICK j : /\ j[0] = <<>> /\ \A n \in Nat : j[n + 1] = JoinNext(j[n], text[n + 1])
                   /\ Joined(text) = j[Len(text)]
      BY JoinedIs
    <2>3. PICK k : /\ k[0] = <<>> /\ \A n \in Nat : k[n + 1] = JoinNext(k[n], more[n + 1])
                   /\ Joined(more) = k[Len(more)]
      BY <2>1, JoinedIs
    <2> DEFINE S == {n \in 0 .. Len(text) : j[n] = k[n]}
    <2>4. 0 \in S
      BY <2>1, <2>2, <2>3
    <2>5. ASSUME NEW n \in 0 .. Len(text), n # Len(text), n \in S PROVE n + 1 \in S
      <3>1. n + 1 \in 1 .. Len(text) /\ n + 1 \in 0 .. Len(text) /\ n \in Nat
        BY <2>1, <2>5
      <3>2. more[n + 1] = text[n + 1] /\ j[n] = k[n]
        BY <2>1, <2>5, <3>1
      <3>3. j[n + 1] = k[n + 1]
        BY <2>2, <2>3, <3>1, <3>2
      <3> QED  BY <3>1, <3>3
    <2> HIDE DEF S
    <2>6. Len(text) \in S
      <3>1. \A n \in 0 .. Len(text) : n \in S
        BY <2>1, <2>4, <2>5, EveryNumberUpTo
      <3> QED  BY <2>1, <3>1
    <2>7. k[Len(text) + 1] = JoinNext(k[Len(text)], token)
      BY <2>1, <2>3
    <2> QED  BY <2>1, <2>2, <2>3, <2>6, <2>7 DEF S, more
  <1> QED  BY <1>1, <1>2

\* What follows texts that are alike leaves them alike.
LEMMA AlikeBefore ==
    ASSUME NEW x \in Texts, NEW y \in Texts, NEW z \in Texts, Alike(x, y)
    PROVE  Alike(x \o z, y \o z)
  <1>1. Len(z) \in Nat
    BY DEF Texts
  <1> DEFINE S == {n \in 0 .. Len(z) : Joined(x \o SubSeq(z, 1, n)) = Joined(y \o SubSeq(z, 1, n))}
  <1>2. 0 \in S
    <2>1. x \o SubSeq(z, 1, 0) = x /\ y \o SubSeq(z, 1, 0) = y
      BY DEF Texts
    <2>2. Joined(x \o SubSeq(z, 1, 0)) = Joined(y \o SubSeq(z, 1, 0))
      BY <2>1 DEF Alike
    <2>3. 0 \in 0 .. Len(z)
      BY <1>1
    <2> QED  BY <2>2, <2>3
  <1>3. ASSUME NEW n \in 0 .. Len(z), n # Len(z), n \in S PROVE n + 1 \in S
    <2>1. n + 1 \in 0 .. Len(z) /\ n \in Nat /\ n + 1 <= Len(z)
      BY <1>1, <1>3
    <2>2. /\ SubSeq(z, 1, n) \in Texts /\ z[n + 1] \in Tokens
          /\ SubSeq(z, 1, n + 1) = Append(SubSeq(z, 1, n), z[n + 1])
      BY <1>1, <2>1 DEF Texts
    <2> DEFINE part == SubSeq(z, 1, n)
    <2> HIDE DEF part
    <2>3. part \in Texts /\ SubSeq(z, 1, n + 1) = Append(part, z[n + 1])
      BY <2>2 DEF part
    <2>4. \A w \in Texts : /\ w \o part \in Texts
                            /\ w \o Append(part, z[n + 1]) = Append(w \o part, z[n + 1])
      BY <2>2, <2>3 DEF Texts
    <2>5. Joined(x \o part) = Joined(y \o part)
      BY <1>3 DEF part
    <2>6. \A w \in Texts : Joined(w \o Append(part, z[n + 1])) = JoinNext(Joined(w \o part), z[n + 1])
      BY <2>2, <2>4, JoinedAppend
    <2> QED  BY <2>1, <2>3, <2>5, <2>6
  <1> HIDE DEF S
  <1>4. \A n \in 0 .. Len(z) : n \in S
    BY <1>1, <1>2, <1>3, EveryNumberUpTo
  <1>5. Joined(x \o SubSeq(z, 1, Len(z))) = Joined(y \o SubSeq(z, 1, Len(z)))
    BY <1>1, <1>4 DEF S
  <1>6. SubSeq(z, 1, Len(z)) = z
    BY DEF Texts
  <1> QED  BY <1>5, <1>6 DEF Alike

LEMMA MarkersAlike ==
    ASSUME NEW x \in Texts
    PROVE  Alike(x \o OneMarker \o OneMarker, x \o OneMarker)
  <1>1. TextMarker \in Tokens
    BY DEF Tokens
  <1>6. Append(x, TextMarker) \in Texts
    BY <1>1 DEF Texts
  <1>2. x \o OneMarker = Append(x, TextMarker)
    BY DEF OneMarker, Texts
  <1>3. x \o OneMarker \o OneMarker = Append(Append(x, TextMarker), TextMarker)
    <2> DEFINE y == Append(x, TextMarker)
    <2> HIDE DEF y
    <2>1. y \in Texts /\ x \o OneMarker = y
      BY <1>2, <1>6 DEF y
    <2>2. y \o OneMarker = Append(y, TextMarker)
      BY <2>1 DEF OneMarker, Texts
    <2> QED  BY <2>1, <2>2 DEF y
  <1> DEFINE once == JoinNext(Joined(x), TextMarker)
  <1>4. /\ Joined(Append(x, TextMarker)) = once
        /\ Joined(Append(Append(x, TextMarker), TextMarker)) = JoinNext(once, TextMarker)
    BY <1>1, <1>6, JoinedAppend
  <1>5. JoinNext(once, TextMarker) = once
    <2>1. once # <<>> /\ Last(once) = TextMarker
      BY DEF JoinNext, Last
    <2> QED  BY <2>1 DEF JoinNext
  <1> QED  BY <1>2, <1>3, <1>4, <1>5 DEF Alike

-----------------------------------------------------------------------------
(* Texts, one after the other. *)

LEMMA FlattenIs ==
    ASSUME NEW texts \in Seq(Texts)
    PROVE  \E g : /\ g \in [Nat -> Texts] /\ g[0] = <<>>
                  /\ \A n \in 0 .. Len(texts) : n # Len(texts) => g[n + 1] = g[n] \o texts[n + 1]
                  /\ FlattenSeq(texts) = g[Len(texts)]
  <1>1. Len(texts) \in Nat /\ \A n \in 1 .. Len(texts) : texts[n] \in Texts
    OBVIOUS
  <1> DEFINE none == <<>>
             step == [nx \in Nat \X Texts |->
                         IF nx[1] \in 1 .. Len(texts) THEN nx[2] \o texts[nx[1]] ELSE nx[2]]
  <1>2. none \in Texts /\ step \in [Nat \X Texts -> Texts]
    <2>1. \A x, y \in Texts : x \o y \in Texts
      BY DEF Texts
    <2>2. none \in Texts
      BY DEF Texts
    <2> QED  BY <1>1, <2>1, <2>2
  <1> HIDE DEF step, none
  <1>3. PICK g : IsRecursion(g, Texts, none, step)
    BY <1>2, Recursion, Zenon
  <1>4. g \in [Nat -> Texts] /\ g[0] = <<>>
    BY <1>3 DEF IsRecursion, none
  <1>5. ASSUME NEW n \in 1 .. Len(texts) PROVE g[n] = g[n - 1] \o texts[n]
    <2>1. n \in Nat /\ n # 0 /\ n - 1 \in Nat
      BY <1>1, <1>5
    <2>2. g[n] = step[<<n, g[n - 1]>>] /\ g[n - 1] \in Texts
      BY <1>3, <2>1 DEF IsRecursion
    <2> QED  BY <1>5, <2>1, <2>2 DEF step
  <1>6. ASSUME NEW n \in 0 .. Len(texts), n # Len(texts) PROVE g[n + 1] = g[n] \o texts[n + 1]
    <2>1. PICK j \in 1 .. Len(texts) : j = n + 1 /\ j - 1 = n
      BY <1>1, <1>6
    <2>2. g[j] = g[j - 1] \o texts[j]
      BY <1>5, Zenon
    <2> QED  BY <2>1, <2>2
  <1>7. CASE Len(texts) = 0
    <2>1. FlattenSeq(texts) = <<>>
      BY <1>7 DEF FlattenSeq
    <2> QED  BY <1>4, <1>6, <1>7, <2>1
  <1>8. CASE Len(texts) # 0
    <2> DEFINE IsFlat(f) == f = [i \in 1 .. Len(texts) |->
                                    IF i = 1 THEN texts[i] ELSE f[i - 1] \o texts[i]]
               flat == CHOOSE f : IsFlat(f)
               h == [i \in 1 .. Len(texts) |-> g[i]]
    <2>1. FlattenSeq(texts) = flat[Len(texts)]
      BY <1>8 DEF FlattenSeq
    <2>2. IsFlat(h)
      <3>1. ASSUME NEW i \in 1 .. Len(texts)
            PROVE  h[i] = IF i = 1 THEN texts[i] ELSE h[i - 1] \o texts[i]
        <4>1. CASE i = 1
          <5>1. g[i] = g[i - 1] \o texts[i] /\ texts[i] \in Texts
            BY <1>1, <1>5, Zenon
          <5>2. g[i - 1] = <<>>
            BY <1>4, <4>1
          <5> QED  BY <4>1, <5>1, <5>2 DEF Texts
        <4>2. CASE i # 1
          <5>1. i - 1 \in 1 .. Len(texts)
            BY <1>1, <4>2
          <5> QED  BY <1>5, <4>2, <5>1
        <4> QED  BY <4>1, <4>2
      <3> HIDE DEF h
      <3>2. h = [i \in 1 .. Len(texts) |-> h[i]]
        BY DEF h
      <3> QED  BY <3>1, <3>2
    <2> HIDE DEF IsFlat, h
    <2>3. IsFlat(flat)
      BY <2>2, Zenon
    <2> USE DEF IsFlat
    <2> HIDE DEF flat
    <2> DEFINE S == {i \in 0 .. Len(texts) : i = 0 \/ flat[i] = g[i]}
    <2>4. 0 \in S
      BY <1>1
    <2>5. ASSUME NEW i \in 0 .. Len(texts), i # Len(texts), i \in S PROVE i + 1 \in S
      <3>1. PICK j \in 1 .. Len(texts) : j = i + 1 /\ j - 1 = i /\ j \in 0 .. Len(texts)
        BY <1>1, <2>5
      <3>2. /\ g[j] = g[j - 1] \o texts[j] /\ texts[j] \in Texts
            /\ flat[j] = IF j = 1 THEN texts[j] ELSE flat[j - 1] \o texts[j]
        BY <1>1, <1>5, <2>3, Zenon
      <3>3. CASE i = 0
        <4>3. j = 1 /\ g[j - 1] = <<>>
          BY <1>4, <3>1, <3>3
        <4>1. flat[j] = texts[j] /\ g[j] = <<>> \o texts[j]
          BY <3>2, <4>3, Zenon
        <4>2. <<>> \o texts[j] = texts[j]
          BY <3>2 DEF Texts
        <4> QED  BY <3>1, <4>1, <4>2
      <3>4. CASE i # 0
        <4>1. flat[i] = g[i] /\ j # 1
          BY <2>5, <3>1, <3>4
        <4>2. flat[j] = g[j]
          BY <3>1, <3>2, <4>1
        <4> QED  BY <3>1, <4>2
      <3> QED  BY <3>3, <3>4
    <2> HIDE DEF S
    <2>6. \A i \in 0 .. Len(texts) : i \in S
      BY <1>1, <2>4, <2>5, EveryNumberUpTo
    <2>7. flat[Len(texts)] = g[Len(texts)]
      BY <1>1, <1>8, <2>6 DEF S
    <2> QED  BY <1>4, <1>6, <2>1, <2>7
  <1> QED  BY <1>7, <1>8

LEMMA FlattenAppend ==
    /\ FlattenSeq(<<>>) = <<>>
    /\ \A texts \in Seq(Texts) : FlattenSeq(texts) \in Texts
    /\ \A texts \in Seq(Texts) : \A text \in Texts :
           FlattenSeq(Append(texts, text)) = FlattenSeq(texts) \o text
  <1>1. FlattenSeq(<<>>) = <<>>
    BY DEF FlattenSeq
  <1>2. ASSUME NEW texts \in Seq(Texts) PROVE FlattenSeq(texts) \in Texts
    <2>1. Len(texts) \in Nat
      OBVIOUS
    <2> QED  BY <2>1, FlattenIs
  <1>3. ASSUME NEW texts \in Seq(Texts), NEW text \in Texts
        PROVE  FlattenSeq(Append(texts, text)) = FlattenSeq(texts) \o text
    <2> DEFINE more == Append(texts, text)
               n == Len(texts)
    <2>1. /\ more \in Seq(Texts) /\ n \in Nat /\ Len(more) = n + 1
          /\ more[n + 1] = text /\ \A i \in 1 .. n : more[i] = texts[i]
      OBVIOUS
    <2> HIDE DEF more
    <2>2. PICK g : /\ g[0] = <<>>
                   /\ \A i \in 0 .. n : i # n => g[i + 1] = g[i] \o texts[i + 1]
                   /\ FlattenSeq(texts) = g[n]
      BY FlattenIs
    <2>3. PICK h : /\ h[0] = <<>>
                   /\ \A i \in 0 .. n + 1 : i # n + 1 => h[i + 1] = h[i] \o more[i + 1]
                   /\ FlattenSeq(more) = h[n + 1]
      BY <2>1, FlattenIs
    <2> HIDE DEF n
    <2> DEFINE S == {i \in 0 .. n : g[i] = h[i]}
    <2>4. 0 \in S
      BY <2>1, <2>2, <2>3
    <2>5. ASSUME NEW i \in 0 .. n, i # n, i \in S PROVE i + 1 \in S
      <3>1. i + 1 \in 1 .. n /\ i + 1 \in 0 .. n /\ i \in 0 .. n + 1 /\ i # n + 1
        BY <2>1, <2>5
      <3>2. h[i + 1] = h[i] \o more[i + 1] /\ more[i + 1] = texts[i + 1]
        BY <2>1, <2>3, <3>1
      <3>3. g[i + 1] = g[i] \o texts[i + 1] /\ g[i] = h[i]
        BY <2>2, <2>5
      <3> QED  BY <3>1, <3>2, <3>3
    <2> HIDE DEF S
    <2>6. n \in S
      <3>1. \A i \in 0 .. n : i \in S
        BY <2>1, <2>4, <2>5, EveryNumberUpTo
      <3> QED  BY <2>1, <3>1
    <2>7. n \in 0 .. n + 1 /\ n # n + 1
      BY <2>1
    <2>8. h[n + 1] = h[n] \o text
      BY <2>1, <2>3, <2>7
    <2> QED  BY <2>2, <2>3, <2>6, <2>8 DEF S, more
  <1> QED  BY <1>1, <1>2, <1>3

-----------------------------------------------------------------------------
(* What is kept of a text, position by position: in a range, a marker.       *)

Covers(range, p) == range.from <= p /\ p < range.to
Opening(range, p) == IF range.wrap /\ range.from = p THEN <<"quote">> ELSE <<>>
Closing(range, p) == IF range.wrap /\ range.to = p + 1 THEN <<"quote">> ELSE <<>>
Marked(range, p) == Opening(range, p) \o OneMarker \o Closing(range, p)

KeptAt(text, ranges, p) ==
    IF \E k \in DOMAIN ranges : Covers(ranges[k], p)
    THEN Marked(ranges[CHOOSE k \in DOMAIN ranges : Covers(ranges[k], p)], p)
    ELSE IF p \in 1 .. Len(text) THEN <<text[p]>> ELSE <<>>

KeptTo(text, ranges, n) ==
    LET kept[i \in Nat] == IF i = 0 THEN <<>> ELSE kept[i - 1] \o KeptAt(text, ranges, i)
    IN  kept[n]

AreRanges(text, ranges) == ranges \in Seq(RangesIn(text)) /\ InOrder(ranges)

LEMMA RangesTyped ==
    ASSUME NEW text \in Texts, NEW ranges, AreRanges(text, ranges)
    PROVE  /\ Len(text) \in Nat /\ Len(ranges) \in Nat /\ DOMAIN ranges = 1 .. Len(ranges)
           /\ \A k \in 1 .. Len(ranges) :
                 /\ ranges[k] \in RangesIn(text)
                 /\ ranges[k].from \in Nat /\ ranges[k].to \in Nat /\ ranges[k].wrap \in BOOLEAN
                 /\ 1 <= ranges[k].from /\ ranges[k].from < ranges[k].to
                 /\ ranges[k].to <= Len(text) + 1
           /\ \A j, k \in 1 .. Len(ranges) : j < k => ranges[j].to <= ranges[k].from
  <1>1. ranges \in Seq(RangesIn(text)) /\ InOrder(ranges)
    BY DEF AreRanges
  <1>2. /\ Len(text) \in Nat /\ Len(ranges) \in Nat /\ DOMAIN ranges = 1 .. Len(ranges)
        /\ \A k \in 1 .. Len(ranges) : ranges[k] \in RangesIn(text)
    BY <1>1 DEF Texts
  <1>3. \A range \in RangesIn(text) :
            /\ range.from \in Nat /\ range.to \in Nat /\ range.wrap \in BOOLEAN
            /\ 1 <= range.from /\ range.from < range.to /\ range.to <= Len(text) + 1
    BY DEF RangesIn, AnySecret
  <1> QED  BY <1>1, <1>2, <1>3 DEF InOrder

LEMMA MarkedTyped ==
    ASSUME NEW range, NEW p
    PROVE  /\ Opening(range, p) \in Texts /\ Closing(range, p) \in Texts /\ OneMarker \in Texts
           /\ Marked(range, p) \in Texts
  <1>1. <<"quote">> \in Texts /\ <<>> \in Texts /\ OneMarker \in Texts
    <2>1. "quote" \in Tokens /\ TextMarker \in Tokens
      BY DEF Tokens
    <2> QED  BY <2>1 DEF Texts, OneMarker
  <1>2. Opening(range, p) \in Texts /\ Closing(range, p) \in Texts
    BY <1>1 DEF Opening, Closing
  <1>3. \A x, y \in Texts : x \o y \in Texts
    BY DEF Texts
  <1> QED  BY <1>1, <1>2, <1>3 DEF Marked

LEMMA KeptAtIs ==
    ASSUME NEW text \in Texts, NEW ranges, AreRanges(text, ranges), NEW p \in Nat
    PROVE  /\ KeptAt(text, ranges, p) \in Texts
           /\ \A k \in 1 .. Len(ranges) :
                 Covers(ranges[k], p) => KeptAt(text, ranges, p) = Marked(ranges[k], p)
           /\ p \in 1 .. Len(text) /\ (\A k \in 1 .. Len(ranges) : ~Covers(ranges[k], p)) =>
                 KeptAt(text, ranges, p) = <<text[p]>>
  <1>1. DOMAIN ranges = 1 .. Len(ranges)
    BY RangesTyped
  <1>2. KeptAt(text, ranges, p) \in Texts
    <2>1. p \in 1 .. Len(text) => <<text[p]>> \in Texts
      BY DEF Texts
    <2>2. <<>> \in Texts
      BY DEF Texts
    <2> QED  BY <2>1, <2>2, MarkedTyped DEF KeptAt
  <1>3. ASSUME NEW k \in 1 .. Len(ranges), Covers(ranges[k], p)
        PROVE  KeptAt(text, ranges, p) = Marked(ranges[k], p)
    <2> DEFINE l == CHOOSE l \in DOMAIN ranges : Covers(ranges[l], p)
    <2>1. l \in 1 .. Len(ranges) /\ Covers(ranges[l], p)
      BY <1>1, <1>3
    <2>2. KeptAt(text, ranges, p) = Marked(ranges[l], p)
      BY <1>1, <1>3 DEF KeptAt
    <2> HIDE DEF l
    <2>3. /\ ranges[k].from \in Nat /\ ranges[k].to \in Nat
          /\ ranges[l].from \in Nat /\ ranges[l].to \in Nat
          /\ k < l => ranges[k].to <= ranges[l].from
          /\ l < k => ranges[l].to <= ranges[k].from
      BY <1>3, <2>1, RangesTyped
    <2>4. k \in Nat /\ l \in Nat
      BY <1>3, <2>1, RangesTyped
    <2>5. k = l
      BY <1>3, <2>1, <2>3, <2>4 DEF Covers
    <2> QED  BY <2>2, <2>5
  <1>4. ASSUME p \in 1 .. Len(text), \A k \in 1 .. Len(ranges) : ~Covers(ranges[k], p)
        PROVE  KeptAt(text, ranges, p) = <<text[p]>>
    BY <1>1, <1>4 DEF KeptAt
  <1> QED  BY <1>2, <1>3, <1>4

LEMMA KeptToIs ==
    ASSUME NEW text \in Texts, NEW ranges, AreRanges(text, ranges)
    PROVE  /\ KeptTo(text, ranges, 0) = <<>>
           /\ \A n \in Nat :
                 /\ KeptTo(text, ranges, n) \in Texts
                 /\ KeptTo(text, ranges, n + 1) =
                        KeptTo(text, ranges, n) \o KeptAt(text, ranges, n + 1)
  <1> DEFINE none == <<>>
             step == [nx \in Nat \X Texts |-> nx[2] \o KeptAt(text, ranges, nx[1])]
             IsKept(f) == f = [i \in Nat |-> IF i = 0 THEN <<>>
                                             ELSE f[i - 1] \o KeptAt(text, ranges, i)]
             kept == CHOOSE f : IsKept(f)
  <1>1. \A n \in Nat : KeptTo(text, ranges, n) = kept[n]
    BY DEF KeptTo
  <1>2. \A x \in Texts : \A n \in Nat : x \o KeptAt(text, ranges, n) \in Texts
    <2>1. \A x, y \in Texts : x \o y \in Texts
      BY DEF Texts
    <2> QED  BY <2>1, KeptAtIs
  <1>12. none \in Texts
    BY DEF Texts
  <1>3. step \in [Nat \X Texts -> Texts]
    BY <1>2
  <1> HIDE DEF none, step
  <1>4. PICK f : IsRecursion(f, Texts, none, step)
    BY <1>3, <1>12, Recursion, Zenon
  <1>5. IsKept(f)
    <2>1. ASSUME NEW n \in Nat, n # 0
          PROVE  step[<<n, f[n - 1]>>] = f[n - 1] \o KeptAt(text, ranges, n)
      <3>1. n - 1 \in Nat
        BY <2>1
      <3>2. f[n - 1] \in Texts
        BY <1>4, <3>1 DEF IsRecursion
      <3> QED  BY <3>2 DEF step
    <2> QED  BY <1>4, <2>1 DEF IsRecursion, none
  <1> HIDE DEF IsKept
  <1>6. IsKept(kept)
    BY <1>5, Zenon
  <1> USE DEF IsKept
  <1> HIDE DEF kept
  <1>7. kept[0] = <<>> /\ \A n \in Nat : kept[n + 1] = kept[n] \o KeptAt(text, ranges, n + 1)
    <2>1. kept[0] = <<>>
      BY <1>6
    <2>2. ASSUME NEW n \in Nat PROVE kept[n + 1] = kept[n] \o KeptAt(text, ranges, n + 1)
      <3>1. PICK j \in Nat : j = n + 1 /\ j # 0 /\ j - 1 = n
        OBVIOUS
      <3>2. kept[j] = kept[j - 1] \o KeptAt(text, ranges, j)
        BY <1>6, <3>1
      <3> QED  BY <3>1, <3>2
    <2> QED  BY <2>1, <2>2
  <1> DEFINE S == {n \in Nat : kept[n] \in Texts}
  <1>8. 0 \in S
    BY <1>12, <1>7 DEF none
  <1>9. ASSUME NEW n \in Nat, n \in S PROVE n + 1 \in S
    <2>1. n + 1 \in Nat
      OBVIOUS
    <2>2. kept[n] \o KeptAt(text, ranges, n + 1) \in Texts
      BY <1>2, <1>9, <2>1
    <2> QED  BY <1>7, <2>1, <2>2
  <1> HIDE DEF S
  <1>10. \A n \in Nat : n \in S
    BY <1>8, <1>9, EveryNumber
  <1>11. \A n \in Nat : n + 1 \in Nat
    OBVIOUS
  <1> QED  BY <1>1, <1>7, <1>10, <1>11 DEF S

\* Outside of the ranges the text is kept as it is.
LEMMA KeptOutside ==
    ASSUME NEW text \in Texts, NEW ranges, AreRanges(text, ranges),
           NEW a \in Nat, NEW b \in Nat, 1 <= a, a <= b, b <= Len(text) + 1,
           \A p \in a .. b - 1 : \A k \in 1 .. Len(ranges) : ~Covers(ranges[k], p)
    PROVE  /\ SubSeq(text, a, b - 1) \in Texts
           /\ KeptTo(text, ranges, b - 1) = KeptTo(text, ranges, a - 1) \o SubSeq(text, a, b - 1)
  <1>1. Len(text) \in Nat /\ text \in Seq(Tokens)
    BY DEF Texts
  <1> DEFINE before == KeptTo(text, ranges, a - 1)
             To(n) == SubSeq(text, a, a - 1 + n)
             S == {n \in 0 .. b - a : KeptTo(text, ranges, a - 1 + n) = before \o To(n)}
  <1>2. a - 1 \in Nat /\ b - a \in Nat /\ a - 1 + (b - a) = b - 1 /\ before \in Texts
    BY KeptToIs
  <1>3. \A n \in 0 .. b - a : To(n) \in Seq(Tokens)
    BY <1>1, <1>2
  <1>4. 0 \in S
    <2>1. To(0) = <<>> /\ a - 1 + 0 = a - 1
      BY <1>1, <1>2
    <2>2. before \o <<>> = before
      BY <1>2 DEF Texts
    <2>3. 0 \in 0 .. b - a
      BY <1>2
    <2> HIDE DEF To
    <2> QED  BY <2>1, <2>2, <2>3
  <1>5. ASSUME NEW n \in 0 .. b - a, n # b - a, n \in S PROVE n + 1 \in S
    <2> DEFINE p == a + n
    <2>1. /\ n + 1 \in 0 .. b - a /\ p \in a .. b - 1 /\ p \in 1 .. Len(text) /\ p \in Nat
          /\ a - 1 + n = p - 1 /\ a - 1 + (n + 1) = p /\ p - 1 \in Nat /\ p - 1 + 1 = p
      BY <1>1, <1>2, <1>5
    <2>2. KeptAt(text, ranges, p) = <<text[p]>>
      BY <2>1, KeptAtIs
    <2>3. To(n + 1) = To(n) \o <<text[p]>>
      BY <1>1, <2>1
    <2> HIDE DEF p
    <2>4. KeptTo(text, ranges, p) = KeptTo(text, ranges, p - 1) \o KeptAt(text, ranges, p)
      BY <2>1, KeptToIs
    <2>8. KeptTo(text, ranges, p - 1) = before \o To(n)
      BY <1>5, <2>1
    <2>9. To(n) \in Texts /\ text[p] \in Tokens
      <3>1. To(n) \in Seq(Tokens)
        BY <1>3, <1>5
      <3> HIDE DEF To
      <3> QED  BY <1>1, <2>1, <3>1 DEF Texts
    <2> HIDE DEF To, before
    <2>10. <<text[p]>> \in Texts
      BY <2>9 DEF Texts
    <2>5. KeptTo(text, ranges, p - 1) = before \o To(n) /\ To(n) \in Texts /\ <<text[p]>> \in Texts
      BY <2>8, <2>9, <2>10
    <2>6. before \o To(n) \o <<text[p]>> = before \o (To(n) \o <<text[p]>>)
      BY <1>2, <2>5, SMTT(30) DEF Texts
    <2>7. KeptTo(text, ranges, p) = before \o To(n + 1)
      BY <2>2, <2>3, <2>4, <2>5, <2>6
    <2> QED  BY <2>1, <2>7
  <1> HIDE DEF S
  <1>6. b - a \in S
    <2>1. \A n \in 0 .. b - a : n \in S
      BY <1>2, <1>4, <1>5, EveryNumberUpTo
    <2> QED  BY <1>2, <2>1
  <1>7. SubSeq(text, a, b - 1) \in Texts
    BY <1>1, <1>2 DEF Texts
  <1> QED  BY <1>2, <1>6, <1>7 DEF S

LEMMA TextsJoin ==
    /\ <<>> \in Texts
    /\ \A x, y \in Texts : x \o y \in Texts
    /\ \A x, y, z \in Texts : (x \o y) \o z = x \o (y \o z)
    /\ \A x \in Texts : x \o <<>> = x /\ <<>> \o x = x
  BY DEF Texts

LEMMA TwoJoin == \A x, y \in Texts : x \o y \in Texts
  BY DEF Texts

LEMMA ThreeJoin == \A x, y, z \in Texts : (x \o y) \o z = x \o (y \o z)
  BY DEF Texts

\* The same of an operator that the provers take as it is.
Then(x, y) == x \o y

LEMMA ThenTyped == \A x, y \in Texts : Then(x, y) \in Texts
  BY TwoJoin DEF Then

LEMMA ThenAssociates == \A x, y, z \in Texts : Then(Then(x, y), z) = Then(x, Then(y, z))
  BY ThreeJoin DEF Then

AreTexts(x, y, z, u) == {x, y, z, u} \subseteq Texts

LEMMA FourJoin ==
    ASSUME NEW x, NEW y, NEW z, NEW u, AreTexts(x, y, z, u)
    PROVE  x \o (y \o z \o u) = x \o y \o z \o u
  <1>1. x \in Texts /\ y \in Texts /\ z \in Texts /\ u \in Texts
    BY DEF AreTexts
  <1>2. Then(y, z) \in Texts
    BY <1>1, ThenTyped
  <1>3. Then(x, Then(Then(y, z), u)) = Then(Then(x, Then(y, z)), u)
    BY <1>1, <1>2, ThenAssociates
  <1>4. Then(x, Then(y, z)) = Then(Then(x, y), z)
    BY <1>1, ThenAssociates
  <1>5. Then(x, Then(Then(y, z), u)) = Then(Then(Then(x, y), z), u)
    BY <1>3, <1>4
  <1> QED  BY <1>5 DEF Then

LEMMA FiveJoin ==
    ASSUME NEW x, NEW y, NEW z, NEW u, NEW v, AreTexts(x, y, z, u), v \in Texts
    PROVE  x \o (y \o z \o u \o v) = x \o y \o z \o u \o v
  <1>1. x \in Texts /\ y \in Texts /\ z \in Texts /\ u \in Texts /\ v \in Texts
    BY DEF AreTexts
  <1> DEFINE w == Then(Then(y, z), u)
  <1>2. w \in Texts
    BY <1>1, ThenTyped
  <1>3. Then(x, w) = Then(Then(Then(x, y), z), u)
    <2>2. x \o (y \o z \o u) = x \o y \o z \o u
      BY FourJoin
    <2> QED  BY <2>2 DEF Then
  <1> HIDE DEF w
  <1>4. Then(x, Then(w, v)) = Then(Then(x, w), v)
    BY <1>1, <1>2, ThenAssociates
  <1>5. Then(x, Then(w, v)) = Then(Then(Then(Then(x, y), z), u), v)
    BY <1>3, <1>4
  <1> QED  BY <1>5 DEF Then, w

\* From a to b in a range, one marker is as good as all of them.
LEMMA KeptWithin ==
    ASSUME NEW text \in Texts, NEW ranges, AreRanges(text, ranges),
           NEW k \in 1 .. Len(ranges), NEW a \in Nat, NEW b \in Nat,
           ranges[k].from <= a, a < b, b <= ranges[k].to
    PROVE  Alike(KeptTo(text, ranges, b - 1),
                 KeptTo(text, ranges, a - 1)
                 \o Opening(ranges[k], a) \o OneMarker \o Closing(ranges[k], b - 1))
  <1> DEFINE r == ranges[k]
             before == KeptTo(text, ranges, a - 1) \o Opening(r, a)
             S == {n \in 0 .. b - 1 - a :
                      Alike(KeptTo(text, ranges, a + n), before \o OneMarker \o Closing(r, a + n))}
  <1>1. /\ r.from \in Nat /\ r.to \in Nat /\ 1 <= r.from
        /\ a - 1 \in Nat /\ b - 1 - a \in Nat /\ a - 1 + 1 = a /\ a + (b - 1 - a) = b - 1
    BY RangesTyped
  <1>2. /\ KeptTo(text, ranges, a - 1) \in Texts /\ before \in Texts
        /\ \A n \in 0 .. b - 1 - a : KeptTo(text, ranges, a + n) \in Texts
    <2>0. \A n \in Nat : KeptTo(text, ranges, n) \in Texts
      BY KeptToIs
    <2>1. KeptTo(text, ranges, a - 1) \in Texts
      BY <1>1, <2>0
    <2>2. ASSUME NEW n \in 0 .. b - 1 - a PROVE KeptTo(text, ranges, a + n) \in Texts
      <3>1. a + n \in Nat
        BY <1>1
      <3> QED  BY <2>0, <3>1
    <2>3. before \in Texts
      BY <2>1, MarkedTyped, TwoJoin
    <2> QED  BY <2>1, <2>2, <2>3
  <1>3. ASSUME NEW n \in 0 .. b - 1 - a
        PROVE  /\ a + n \in Nat /\ Covers(r, a + n)
               /\ KeptAt(text, ranges, a + n) = Marked(r, a + n)
    <2>1. a + n \in Nat /\ Covers(r, a + n)
      <3>1. PICK p \in Nat : p = a + n /\ a <= p /\ p < b
        BY <1>1
      <3> QED  BY <1>1, <3>1 DEF Covers
    <2> QED  BY <2>1, KeptAtIs
  <1>4. 0 \in S
    <2>1. 0 \in 0 .. b - 1 - a /\ a + 0 = a
      BY <1>1
    <2>2. KeptTo(text, ranges, a) = KeptTo(text, ranges, a - 1) \o Marked(r, a)
      <3>1. KeptTo(text, ranges, a - 1 + 1)
                = KeptTo(text, ranges, a - 1) \o KeptAt(text, ranges, a - 1 + 1)
        BY <1>1, KeptToIs
      <3>2. KeptAt(text, ranges, a) = Marked(r, a)
        BY <1>3, <2>1
      <3> QED  BY <1>1, <3>1, <3>2
    <2>3. KeptTo(text, ranges, a) = before \o OneMarker \o Closing(r, a)
      <3>1. /\ Opening(r, a) \in Texts /\ Closing(r, a) \in Texts /\ OneMarker \in Texts
            /\ KeptTo(text, ranges, a - 1) \in Texts
        BY <1>2, MarkedTyped
      <3>3. AreTexts(KeptTo(text, ranges, a - 1), Opening(r, a), OneMarker, Closing(r, a))
        BY <3>1 DEF AreTexts
      <3> DEFINE kept == KeptTo(text, ranges, a - 1)
                 opening == Opening(r, a)
                 closing == Closing(r, a)
      <3>4. AreTexts(kept, opening, OneMarker, closing)
        BY <3>3
      <3> HIDE DEF kept, opening, closing
      <3>5. kept \o (opening \o OneMarker \o closing) = kept \o opening \o OneMarker \o closing
        BY <3>4, FourJoin, SMTT(30)
      <3>2. KeptTo(text, ranges, a - 1) \o Marked(r, a) = before \o OneMarker \o Closing(r, a)
        BY <3>5 DEF Marked, kept, opening, closing
      <3> QED  BY <2>2, <3>2
    <2> HIDE DEF before
    <2> QED  BY <2>1, <2>3 DEF Alike
  <1>5. ASSUME NEW n \in 0 .. b - 1 - a, n # b - 1 - a, n \in S PROVE n + 1 \in S
    <2> DEFINE p == a + n
               after == OneMarker \o Closing(r, p + 1)
    <2>1. n + 1 \in 0 .. b - 1 - a /\ a + (n + 1) = p + 1 /\ p \in Nat /\ p + 1 \in Nat
          /\ p + 1 < r.to /\ r.from < p + 1
      BY <1>1, <1>5
    <2>2. Closing(r, p) = <<>> /\ Opening(r, p + 1) = <<>>
      BY <1>1, <2>1 DEF Opening, Closing
    <2>3. after \in Texts /\ OneMarker \in Texts /\ Closing(r, p + 1) \in Texts
      BY MarkedTyped, TextsJoin
    <2>4. KeptTo(text, ranges, p + 1) = KeptTo(text, ranges, p) \o after
      <3>1. KeptTo(text, ranges, p + 1) = KeptTo(text, ranges, p) \o KeptAt(text, ranges, p + 1)
        BY <2>1, KeptToIs
      <3>2. KeptAt(text, ranges, p + 1) = Marked(r, p + 1)
        BY <1>3, <2>1
      <3>3. Marked(r, p + 1) = after
        BY <2>2, <2>3, TextsJoin DEF Marked
      <3> QED  BY <3>1, <3>2, <3>3
    <2>5. Alike(KeptTo(text, ranges, p), before \o OneMarker)
      <3>1. Alike(KeptTo(text, ranges, p), before \o OneMarker \o Closing(r, p))
        BY <1>5
      <3>2. before \o OneMarker \o Closing(r, p) = before \o OneMarker
        BY <1>2, <2>2, <2>3, TextsJoin
      <3> QED  BY <3>1, <3>2
    <2>6. KeptTo(text, ranges, p) \in Texts
      BY <1>2, <1>5
    <2> HIDE DEF p, after, before, r
    <2>7. Alike(KeptTo(text, ranges, p) \o after, before \o OneMarker \o after)
      <3>1. before \o OneMarker \in Texts
        BY <1>2, <2>3, TextsJoin
      <3> QED  BY <2>3, <2>5, <2>6, <3>1, AlikeBefore
    <2>8. before \o OneMarker \o after = before \o OneMarker \o OneMarker \o Closing(r, p + 1)
      <3>1. before \o OneMarker \in Texts
        BY <1>2, <2>3, TextsJoin
      <3> QED  BY <2>3, <3>1, TextsJoin, ZenonT(30) DEF after
    <2>9. Alike(before \o OneMarker \o OneMarker \o Closing(r, p + 1),
                before \o OneMarker \o Closing(r, p + 1))
      <3>1. Alike(before \o OneMarker \o OneMarker, before \o OneMarker)
        BY <1>2, MarkersAlike
      <3>2. before \o OneMarker \o OneMarker \in Texts /\ before \o OneMarker \in Texts
        BY <1>2, <2>3, TextsJoin
      <3> QED  BY <2>3, <3>1, <3>2, AlikeBefore
    <2>10. Alike(KeptTo(text, ranges, p + 1), before \o OneMarker \o Closing(r, p + 1))
      BY <2>4, <2>7, <2>8, <2>9 DEF Alike
    <2> QED  BY <2>1, <2>10
  <1> HIDE DEF S
  <1>6. b - 1 - a \in S
    <2>1. \A n \in 0 .. b - 1 - a : n \in S
      BY <1>1, <1>4, <1>5, EveryNumberUpTo
    <2> QED  BY <1>1, <2>1
  <1> QED  BY <1>1, <1>6 DEF S

-----------------------------------------------------------------------------
(* A fragment, walked: what was before it, and what the walk kept of it, is  *)
(* what is kept of the text up to the cursor.  The ranges before the next    *)
(* end there, those from the next on do not, and only at the ends of the     *)
(* fragment may the cursor be within a range.                                *)
InWalk(text, ranges, start, end, before, walk) ==
    /\ walk \in [text : Texts, next : Nat, cursor : Nat]
    /\ 1 <= walk.next /\ start <= walk.cursor /\ walk.cursor <= end
    /\ \A k \in 1 .. Len(ranges) : k < walk.next <=> ranges[k].to <= walk.cursor
    /\ walk.next <= Len(ranges) /\ ranges[walk.next].from < walk.cursor =>
          walk.cursor \in {start, end}
    /\ Alike(before \o walk.text, KeptTo(text, ranges, walk.cursor - 1))

Walked(ranges, end, walk) ==
    \/ walk.next > Len(ranges) \/ walk.cursor = end
    \/ ranges[walk.next].from >= end

IsFragment(text, start, end) ==
    start \in Nat /\ end \in Nat /\ 1 <= start /\ start < end /\ end <= Len(text) + 1

LEMMA OfTwo ==
    ASSUME NEW m \in Nat, NEW n \in Nat
    PROVE  /\ Max({m, n}) = IF m >= n THEN m ELSE n
           /\ Min({m, n}) = IF m <= n THEN m ELSE n
  <1> DEFINE N == {m, n}
  <1>1. N \in SUBSET Nat /\ N # {} /\ m + n \in Nat /\ \A k \in N : k <= m + n
    OBVIOUS
  <1> HIDE DEF N
  <1>2. Max(N) \in N /\ \A k \in N : k <= Max(N)
    BY <1>1, GreatestNumber
  <1>3. Min(N) \in N /\ \A k \in N : Min(N) <= k
    BY <1>1, MinIsLeast
  <1> QED  BY <1>2, <1>3 DEF N

\* The range that is next, cut to the fragment.
LEMMA CutWalks ==
    ASSUME NEW text \in Texts, NEW ranges, AreRanges(text, ranges),
           NEW start, NEW end, IsFragment(text, start, end),
           NEW before \in Texts, NEW walk, InWalk(text, ranges, start, end, before, walk),
           ~Walked(ranges, end, walk)
    PROVE  /\ InWalk(text, ranges, start, end, before,
                     RedactRange(text, ranges, start, end, walk))
           /\ \/ Walked(ranges, end, RedactRange(text, ranges, start, end, walk))
              \/ RedactRange(text, ranges, start, end, walk).next = walk.next + 1
  <1> DEFINE k == walk.next
             c == walk.cursor
             r == ranges[k]
             from == Max({r.from, start})
             to == Min({r.to, end})
             cut == Cut(text, c, from, r, start, end)
             next == IF r.to > end THEN k ELSE k + 1
             after == [text |-> walk.text \o cut, next |-> next, cursor |-> to]
  <1>1. /\ k \in 1 .. Len(ranges) /\ c \in Nat /\ c # end /\ start <= c /\ c <= end
        /\ r.from < end /\ walk.text \in Texts
        /\ r.from < c => c = start
        /\ r.to > c
        /\ \A j \in 1 .. Len(ranges) : j < k <=> ranges[j].to <= c
    <2>1. Len(ranges) \in Nat
      BY RangesTyped
    <2>2. k \in Nat /\ 1 <= k /\ c \in Nat /\ start <= c /\ c <= end /\ walk.text \in Texts
      BY DEF InWalk
    <2>3. k \in 1 .. Len(ranges) /\ c # end /\ ~(r.from >= end)
      BY <2>1, <2>2 DEF Walked
    <2>4. /\ \A j \in 1 .. Len(ranges) : j < k <=> ranges[j].to <= c
          /\ r.from < c => c = start
      BY <2>1, <2>2, <2>3 DEF InWalk
    <2>5. r.from \in Nat /\ r.to \in Nat
      BY <2>3, RangesTyped
    <2>6. ~(k < k)
      BY <2>2
    <2>7. r.to > c /\ r.from < end
      BY <2>2, <2>3, <2>4, <2>5, <2>6 DEF IsFragment
    <2> QED  BY <2>2, <2>3, <2>4, <2>7
  <1>2. /\ Len(text) \in Nat /\ Len(ranges) \in Nat /\ k \in Nat
        /\ r.from \in Nat /\ r.to \in Nat /\ r.wrap \in BOOLEAN
        /\ r.from < r.to /\ r.to <= Len(text) + 1
        /\ start \in Nat /\ end \in Nat /\ 1 <= start /\ start < end /\ end <= Len(text) + 1
    BY <1>1, RangesTyped DEF IsFragment
  <1>3. /\ from = (IF r.from >= start THEN r.from ELSE start)
        /\ to = (IF r.to <= end THEN r.to ELSE end)
    BY <1>2, OfTwo
  <1>4. RedactRange(text, ranges, start, end, walk) = after
    <2>1. ~(k > Len(ranges)) /\ c # end /\ ~(r.from >= end) /\ ~(r.to <= start)
      BY <1>1, <1>2
    <2> QED  BY <2>1 DEF RedactRange, NextUnlessCrossing
  <1> HIDE DEF from, to, after
  <1>5. /\ from \in Nat /\ to \in Nat /\ c <= from /\ from < to /\ 1 <= c
        /\ start <= to /\ to <= end /\ to <= r.to /\ r.from <= from /\ to <= Len(text) + 1
    BY <1>1, <1>2, <1>3, SMTT(30)
  <1>6. cut = SubSeq(text, c, from - 1) \o Opening(r, from) \o OneMarker \o Closing(r, to - 1)
    <2>1. (r.wrap /\ r.from >= start) <=> (r.wrap /\ r.from = from)
      BY <1>2, <1>3
    <2>2. (r.wrap /\ r.to <= end) <=> (r.wrap /\ r.to = to - 1 + 1)
      BY <1>2, <1>3, <1>5
    <2> QED  BY <2>1, <2>2 DEF Cut, Opening, Closing, OneMarker
  <1> HIDE DEF cut
  <1>7. ASSUME NEW p \in c .. from - 1, NEW j \in 1 .. Len(ranges) PROVE ~Covers(ranges[j], p)
    <2>1. p \in Nat /\ c <= p /\ p < from
      BY <1>1, <1>5
    <2>2. /\ ranges[j].from \in Nat /\ ranges[j].to \in Nat
          /\ k < j => r.to <= ranges[j].from
      BY <1>1, RangesTyped
    <2>3. CASE j < k
      BY <1>1, <2>1, <2>2, <2>3 DEF Covers
    <2>4. CASE j = k
      <3>1. p < r.from
        BY <1>1, <1>2, <1>3, <2>1
      <3> QED  BY <1>2, <2>1, <2>4, <3>1 DEF Covers
    <2>5. CASE k < j
      BY <1>2, <1>5, <2>1, <2>2, <2>5, SMTT(30) DEF Covers
    <2> QED  BY <1>2, <2>3, <2>4, <2>5
  <1>8. /\ SubSeq(text, c, from - 1) \in Texts
        /\ KeptTo(text, ranges, from - 1) = KeptTo(text, ranges, c - 1) \o SubSeq(text, c, from - 1)
    <2>1. from <= Len(text) + 1
      BY <1>2, <1>5
    <2> QED  BY <1>1, <1>5, <1>7, <2>1, KeptOutside, ZenonT(30)
  <1>9. Alike(KeptTo(text, ranges, to - 1),
              KeptTo(text, ranges, from - 1) \o Opening(r, from) \o OneMarker \o Closing(r, to - 1))
    BY <1>1, <1>5, KeptWithin
  <1> DEFINE kept == KeptTo(text, ranges, c - 1)
             lead == SubSeq(text, c, from - 1)
  <1>10. /\ kept \in Texts /\ lead \in Texts /\ cut \in Texts
         /\ Opening(r, from) \in Texts /\ OneMarker \in Texts /\ Closing(r, to - 1) \in Texts
    <2>1. c - 1 \in Nat
      BY <1>1, <1>5
    <2>2. kept \in Texts
      BY <2>1, KeptToIs
    <2> QED  BY <1>6, <1>8, <2>2, MarkedTyped, TextsJoin
  <1>11. kept \o cut
             = KeptTo(text, ranges, from - 1) \o Opening(r, from) \o OneMarker \o Closing(r, to - 1)
    <2>1. KeptTo(text, ranges, from - 1) = kept \o lead
      BY <1>8
    <2>2. cut = lead \o Opening(r, from) \o OneMarker \o Closing(r, to - 1)
      BY <1>6
    <2> HIDE DEF kept, lead
    <2>3. AreTexts(kept, lead, Opening(r, from), OneMarker) /\ Closing(r, to - 1) \in Texts
      BY <1>10 DEF AreTexts
    <2> HIDE DEF r
    <2>4. kept \o cut = kept \o lead \o Opening(r, from) \o OneMarker \o Closing(r, to - 1)
      BY <2>2, <2>3, FiveJoin
    <2> QED  BY <2>1, <2>4
  <1>12. Alike(before \o (walk.text \o cut), KeptTo(text, ranges, to - 1))
    <2>1. Alike(before \o walk.text, kept)
      BY DEF InWalk
    <2>2. before \o walk.text \in Texts
      BY <1>1, TextsJoin
    <2>3. Alike(before \o walk.text \o cut, kept \o cut)
      BY <1>10, <2>1, <2>2, AlikeBefore
    <2>4. before \o walk.text \o cut = before \o (walk.text \o cut)
      <3>1. walk.text \in Texts /\ cut \in Texts
        BY <1>1, <1>10
      <3> QED  BY <3>1, TextsJoin, ZenonT(30)
    <2> QED  BY <1>9, <1>11, <2>3, <2>4 DEF Alike
  <1>13. ASSUME NEW j \in 1 .. Len(ranges) PROVE j < next <=> ranges[j].to <= to
    <2>1. /\ ranges[j].from \in Nat /\ ranges[j].to \in Nat /\ ranges[j].from < ranges[j].to
          /\ k < j => r.to <= ranges[j].from
          /\ j < k <=> ranges[j].to <= c
      BY <1>1, RangesTyped
    <2>2. j \in Nat
      BY <1>2
    <2>3. CASE j < k
      BY <1>1, <1>2, <1>5, <2>1, <2>2, <2>3, SMTT(30)
    <2>4. CASE j = k
      BY <1>2, <1>3, <2>4
    <2>5. CASE k < j
      <3>1. ranges[j].to > to
        BY <1>2, <1>5, <2>1, <2>5, SMTT(30)
      <3>2. next \in {k, k + 1} /\ ~(j < k + 1) /\ ~(j < k)
        BY <1>2, <2>2, <2>5
      <3> QED  BY <1>5, <2>1, <3>1, <3>2
    <2> QED  BY <1>2, <2>2, <2>3, <2>4, <2>5
  <1>14. next <= Len(ranges) /\ ranges[next].from < to => to \in {start, end}
    <2>1. CASE r.to > end
      BY <1>2, <1>3, <2>1
    <2>2. CASE ~(r.to > end) /\ next <= Len(ranges)
      <3>1. next \in 1 .. Len(ranges) /\ k < next /\ to = r.to
        BY <1>2, <1>1, <1>3, <2>2
      <3>2. r.to <= ranges[next].from /\ ranges[next].from \in Nat
        BY <1>1, <3>1, RangesTyped
      <3> QED  BY <1>2, <3>1, <3>2, SMTT(30)
    <2> QED  BY <2>1, <2>2
  <1>15. walk.text \o cut \in Texts /\ next \in Nat /\ 1 <= next
    <2>1. walk.text \in Texts /\ cut \in Texts
      BY <1>1, <1>10
    <2>2. k \in Nat /\ 1 <= k
      BY <1>1, <1>2
    <2>3. next \in Nat /\ 1 <= next
      BY <2>2
    <2> QED  BY <2>1, <2>3, TextsJoin
  <1>16. InWalk(text, ranges, start, end, before, after)
    <2> HIDE DEF next
    <2>1. /\ after.text = walk.text \o cut /\ after.next = next /\ after.cursor = to
          /\ after \in [text : Texts, next : Nat, cursor : Nat]
      BY <1>5, <1>15 DEF after
    <2> QED  BY <1>5, <1>12, <1>13, <1>14, <1>15, <2>1 DEF InWalk
  <1>17. Walked(ranges, end, after) \/ after.next = k + 1
    <2>1. CASE r.to > end
      <3>1. after.cursor = end
        BY <1>2, <1>3, <2>1 DEF after
      <3> QED  BY <3>1 DEF Walked
    <2>2. CASE ~(r.to > end)
      BY <2>2 DEF after
    <2> QED  BY <2>1, <2>2
  <1> QED  BY <1>4, <1>16, <1>17

LEMMA WalkTurns ==
    ASSUME NEW text \in Texts, NEW ranges, AreRanges(text, ranges),
           NEW start, NEW end, IsFragment(text, start, end),
           NEW before \in Texts, NEW walk, InWalk(text, ranges, start, end, before, walk)
    PROVE  /\ InWalk(text, ranges, start, end, before,
                     RedactRange(text, ranges, start, end, walk))
           /\ \/ Walked(ranges, end, RedactRange(text, ranges, start, end, walk))
              \/ RedactRange(text, ranges, start, end, walk).next = walk.next + 1
  <1>1. CASE ~Walked(ranges, end, walk)
    BY <1>1, CutWalks
  <1>2. CASE Walked(ranges, end, walk)
    <2>1. RedactRange(text, ranges, start, end, walk) = walk
      BY <1>2 DEF RedactRange, Walked
    <2> QED  BY <1>2, <2>1
  <1> QED  BY <1>1, <1>2

\* What a walk is ended with.
LEMMA WalkEnds ==
    ASSUME NEW text \in Texts, NEW ranges, AreRanges(text, ranges),
           NEW start, NEW end, IsFragment(text, start, end),
           NEW before \in Texts, NEW walk, InWalk(text, ranges, start, end, before, walk),
           Walked(ranges, end, walk)
    PROVE  /\ walk.text \o SubSeq(text, walk.cursor, end - 1) \in Texts
           /\ \A k \in 1 .. Len(ranges) : k < walk.next <=> ranges[k].to <= end
           /\ Alike(before \o (walk.text \o SubSeq(text, walk.cursor, end - 1)),
                    KeptTo(text, ranges, end - 1))
  <1> DEFINE c == walk.cursor
             rest == SubSeq(text, c, end - 1)
             kept == KeptTo(text, ranges, c - 1)
  <1>1. /\ c \in Nat /\ walk.next \in Nat /\ 1 <= walk.next /\ walk.text \in Texts
        /\ start \in Nat /\ end \in Nat /\ 1 <= c /\ c <= end /\ end <= Len(text) + 1
        /\ c - 1 \in Nat
    BY DEF InWalk, IsFragment
  <1>2. \A k \in 1 .. Len(ranges) : k < walk.next <=> ranges[k].to <= c
    BY DEF InWalk
  <1>3. ASSUME NEW k \in 1 .. Len(ranges), ~(k < walk.next)
        PROVE  ranges[k].to > end /\ (c # end => ranges[k].from >= end)
    <2>1. /\ ranges[k].from \in Nat /\ ranges[k].to \in Nat /\ ranges[k].from < ranges[k].to
          /\ Len(ranges) \in Nat /\ k \in Nat
      BY RangesTyped
    <2>2. CASE c = end
      BY <1>1, <1>2, <1>3, <2>1, <2>2
    <2>3. CASE c # end
      <3>1. walk.next \in 1 .. Len(ranges) /\ ranges[walk.next].from >= end
        BY <1>1, <1>3, <2>1, <2>3 DEF Walked
      <3>2. /\ ranges[walk.next].from \in Nat /\ ranges[walk.next].to \in Nat
            /\ ranges[walk.next].from < ranges[walk.next].to
            /\ walk.next < k => ranges[walk.next].to <= ranges[k].from
        BY <3>1, RangesTyped
      <3>3. ranges[k].from >= end
        BY <1>1, <1>3, <2>1, <3>1, <3>2, SMTT(30)
      <3> QED  BY <1>1, <2>1, <3>3
    <2> QED  BY <2>2, <2>3
  <1>4. ASSUME NEW k \in 1 .. Len(ranges) PROVE k < walk.next <=> ranges[k].to <= end
    <2>1. ranges[k].to \in Nat
      BY RangesTyped
    <2> QED  BY <1>1, <1>2, <1>3, <2>1, SMTT(30)
  <1>5. ASSUME NEW p \in c .. end - 1, NEW k \in 1 .. Len(ranges) PROVE ~Covers(ranges[k], p)
    <2>1. p \in Nat /\ c <= p /\ p < end /\ c # end
      BY <1>1
    <2>2. ranges[k].from \in Nat /\ ranges[k].to \in Nat
      BY RangesTyped
    <2>3. CASE k < walk.next
      <3>1. ranges[k].to <= c
        BY <1>2, <2>3
      <3> QED  BY <1>1, <2>1, <2>2, <3>1 DEF Covers
    <2>4. CASE ~(k < walk.next)
      <3>1. ranges[k].from >= end
        BY <1>3, <2>1, <2>4
      <3> QED  BY <1>1, <2>1, <2>2, <3>1 DEF Covers
    <2> QED  BY <2>3, <2>4
  <1>6. rest \in Texts /\ KeptTo(text, ranges, end - 1) = kept \o rest
    BY <1>1, <1>5, KeptOutside, ZenonT(30)
  <1>7. kept \in Texts /\ Alike(before \o walk.text, kept)
    BY <1>1, KeptToIs DEF InWalk
  <1> HIDE DEF rest, kept
  <1>8. before \o walk.text \in Texts
    BY <1>1, TwoJoin
  <1>9. Alike(before \o walk.text \o rest, kept \o rest)
    BY <1>6, <1>7, <1>8, AlikeBefore
  <1>10. before \o walk.text \o rest = before \o (walk.text \o rest)
    <2>1. walk.text \in Texts
      BY <1>1
    <2>2. Then(Then(before, walk.text), rest) = Then(before, Then(walk.text, rest))
      BY <1>6, <2>1, ThenAssociates
    <2> QED  BY <2>2 DEF Then
  <1>11. walk.text \o rest \in Texts
    BY <1>1, <1>6, TwoJoin
  <1>12. Alike(before \o (walk.text \o rest), KeptTo(text, ranges, end - 1))
    BY <1>6, <1>9, <1>10
  <1> QED  BY <1>4, <1>11, <1>12 DEF rest

IsNext(ranges, next, position) ==
    /\ next \in Nat /\ 1 <= next
    /\ \A k \in 1 .. Len(ranges) : k < next <=> ranges[k].to <= position

LEMMA FragmentWalked ==
    ASSUME NEW text \in Texts, NEW ranges, AreRanges(text, ranges),
           NEW start, NEW end, IsFragment(text, start, end),
           NEW before \in Texts, Alike(before, KeptTo(text, ranges, start - 1)),
           NEW next, IsNext(ranges, next, start),
           NEW here, here = RedactFragment(text, ranges, next, start, end)
    PROVE  /\ here.text \in Texts /\ IsNext(ranges, here.next, end)
           /\ Alike(before \o here.text, KeptTo(text, ranges, end - 1))
  <1> DEFINE Walks == {walk \in [text : Texts, next : Nat, cursor : Nat] :
                           InWalk(text, ranges, start, end, before, walk)}
             first == [text |-> <<>>, next |-> next, cursor |-> start]
             turn == [walk \in Walks |-> RedactRange(text, ranges, start, end, walk)]
             IsWalk(f) == f = [n \in Nat |-> IF n = 0 THEN first
                                             ELSE RedactRange(text, ranges, start, end, f[n - 1])]
             walked == CHOOSE f : IsWalk(f)
             last == walked[Len(ranges)]
  <1>1. /\ start \in Nat /\ end \in Nat /\ 1 <= start /\ start < end /\ Len(ranges) \in Nat
        /\ next \in Nat /\ 1 <= next
        /\ \A k \in 1 .. Len(ranges) : k < next <=> ranges[k].to <= start
    BY RangesTyped DEF IsFragment, IsNext
  <1>2. first \in Walks
    <2>1. before \o <<>> = before /\ <<>> \in Texts
      BY TextsJoin
    <2>2. /\ first \in [text : Texts, next : Nat, cursor : Nat]
          /\ first.text = <<>> /\ first.next = next /\ first.cursor = start
      BY <1>1, <2>1
    <2> HIDE DEF first
    <2>3. Alike(before \o first.text, KeptTo(text, ranges, first.cursor - 1))
      BY <2>1, <2>2
    <2>4. InWalk(text, ranges, start, end, before, first)
      BY <1>1, <2>2, <2>3 DEF InWalk
    <2> QED  BY <2>2, <2>4
  <1>3. \A walk \in Walks : RedactRange(text, ranges, start, end, walk) \in Walks
    <2>1. \A walk \in Walks : InWalk(text, ranges, start, end, before,
                                     RedactRange(text, ranges, start, end, walk))
      BY WalkTurns
    <2> QED  BY <2>1 DEF InWalk
  <1>4. turn \in [Walks -> Walks]
    BY <1>3
  <1>5. here = [last EXCEPT !.text = @ \o SubSeq(text, last.cursor, end - 1)]
    BY DEF RedactFragment
  <1> HIDE DEF first, turn, Walks
  <1>06. PICK f : IsTurns(f, Walks, first, turn)
    BY <1>2, <1>4, TurnsOf, Zenon
  <1>6. /\ f = [n \in Nat |-> IF n = 0 THEN first ELSE turn[f[n - 1]]]
        /\ f \in [Nat -> Walks]
    BY <1>06 DEF IsTurns
  <1>7. IsWalk(f)
    <2>1. ASSUME NEW n \in Nat, n # 0
          PROVE  turn[f[n - 1]] = RedactRange(text, ranges, start, end, f[n - 1])
      <3>2. n - 1 \in Nat
        BY <2>1
      <3>1. f[n - 1] \in Walks
        BY <1>6, <3>2
      <3> QED  BY <3>1 DEF turn
    <2> QED  BY <1>6, <2>1
  <1> HIDE DEF IsWalk
  <1>8. IsWalk(walked)
    BY <1>7, Zenon
  <1> USE DEF IsWalk
  <1> HIDE DEF walked
  <1>9. /\ walked[0] = first
        /\ \A n \in Nat : walked[n + 1] = RedactRange(text, ranges, start, end, walked[n])
    <2>1. \A n \in Nat : n + 1 \in Nat /\ n + 1 # 0 /\ n + 1 - 1 = n
      OBVIOUS
    <2> QED  BY <1>8, <2>1
  \* Every turn passes a range, until the walk is at its end.
  <1> DEFINE S == {n \in Nat : /\ walked[n] \in Walks
                               /\ Walked(ranges, end, walked[n]) \/ walked[n].next >= n + 1}
  <1>10. 0 \in S
    <2>1. walked[0] = first
      BY <1>9
    <2>2. first.next = next /\ next >= 0 + 1
      BY <1>1 DEF first
    <2> QED  BY <1>2, <2>1, <2>2
  <1>11. ASSUME NEW n \in Nat, n \in S PROVE n + 1 \in S
    <2> DEFINE walk == walked[n]
               then == RedactRange(text, ranges, start, end, walk)
    <2>1. /\ walk \in Walks /\ walk.next \in Nat
          /\ Walked(ranges, end, walk) \/ walk.next >= n + 1
      BY <1>11 DEF Walks
    <2>2. InWalk(text, ranges, start, end, before, walk)
      BY <2>1 DEF Walks
    <2>3. then \in Walks /\ walked[n + 1] = then
      BY <1>3, <1>9, <2>1
    <2>4. Walked(ranges, end, then) \/ then.next = walk.next + 1
      BY <2>2, WalkTurns
    <2>5. CASE Walked(ranges, end, walk)
      <3>1. then = walk
        BY <2>5 DEF RedactRange, Walked
      <3> QED  BY <2>3, <2>5, <3>1
    <2>6. CASE walk.next >= n + 1
      <3> HIDE DEF walk, then
      <3>1. Walked(ranges, end, then) \/ then.next >= n + 1 + 1
        BY <2>1, <2>4, <2>6
      <3> QED  BY <2>3, <3>1
    <2> QED  BY <2>1, <2>5, <2>6
  <1> HIDE DEF S
  <1>12. \A n \in Nat : n \in S
    BY <1>10, <1>11, EveryNumber
  <1>13. /\ last \in Walks /\ last.next \in Nat
         /\ Walked(ranges, end, last) \/ last.next >= Len(ranges) + 1
    BY <1>1, <1>12 DEF S, Walks
  <1> HIDE DEF last
  <1>14. Walked(ranges, end, last) /\ InWalk(text, ranges, start, end, before, last)
    <2>1. last.next >= Len(ranges) + 1 => last.next > Len(ranges)
      BY <1>1, <1>13
    <2> QED  BY <1>13, <2>1 DEF Walked, Walks
  <1> DEFINE kept == last.text \o SubSeq(text, last.cursor, end - 1)
  <1>15. /\ kept \in Texts
         /\ \A k \in 1 .. Len(ranges) : k < last.next <=> ranges[k].to <= end
         /\ Alike(before \o kept, KeptTo(text, ranges, end - 1))
    BY <1>14, WalkEnds
  <1>16. here.text = kept /\ here.next = last.next /\ 1 <= last.next
    <2>1. last \in [text : Texts, next : Nat, cursor : Nat] /\ 1 <= last.next
      BY <1>14 DEF InWalk
    <2> QED  BY <1>5, <2>1
  <1> HIDE DEF kept
  <1> QED  BY <1>13, <1>15, <1>16 DEF IsNext

-----------------------------------------------------------------------------
(* The fragments of a text, one after the other: of the first ones, that are  *)
(* so long together, is kept what is kept of the text up to there.           *)
Parts == [texts : Seq(Texts), next : Nat, start : Nat]

PartsWalked(text, ranges, length, done) ==
    /\ done \in Parts
    /\ done.start = length + 1 /\ IsNext(ranges, done.next, done.start)
    /\ Alike(FlattenSeq(done.texts), KeptTo(text, ranges, length))

LEMMA PartTurns ==
    ASSUME NEW text \in Texts, NEW ranges, AreRanges(text, ranges),
           NEW length \in Nat, NEW fragment \in Texts, length + Len(fragment) <= Len(text),
           NEW done, PartsWalked(text, ranges, length, done)
    PROVE  /\ PartsWalked(text, ranges, length + Len(fragment),
                          RedactNext(text, ranges, fragment, done))
           /\ Len(RedactNext(text, ranges, fragment, done).texts) = Len(done.texts) + 1
  <1> DEFINE then == RedactNext(text, ranges, fragment, done)
             more == length + Len(fragment)
             end == done.start + Len(fragment)
             here == RedactFragment(text, ranges, done.next, done.start, end)
             before == FlattenSeq(done.texts)
  <1>1. /\ Len(text) \in Nat /\ Len(fragment) \in Nat /\ done \in Parts
        /\ done.texts \in Seq(Texts) /\ done.next \in Nat /\ done.start \in Nat
        /\ done.start = length + 1 /\ IsNext(ranges, done.next, done.start)
        /\ Alike(before, KeptTo(text, ranges, length))
    <2>1. Len(text) \in Nat /\ Len(fragment) \in Nat
      BY DEF Texts
    <2> QED  BY <2>1 DEF PartsWalked, Parts
  <1>2. before \in Texts
    BY <1>1, FlattenAppend
  <1>3. more \in Nat /\ end = more + 1
    BY <1>1
  <1> HIDE DEF before
  <1>4. CASE fragment = <<>>
    <2>1. then = [done EXCEPT !.texts = Append(@, <<>>)]
      BY <1>4 DEF RedactNext
    <2>2. <<>> \in Texts /\ before \o <<>> = before
      BY <1>2, TextsJoin
    <2> DEFINE texts == Append(done.texts, <<>>)
    <2>0. texts \in Seq(Texts)
      BY <1>1, <2>2
    <2> HIDE DEF texts
    <2>3. /\ then \in Parts /\ then.texts = Append(done.texts, <<>>)
          /\ then.next = done.next /\ then.start = done.start
      <3>1. then = [done EXCEPT !.texts = texts]
        BY <2>1 DEF texts
      <3>2. done \in [texts : Seq(Texts), next : Nat, start : Nat]
        BY <1>1 DEF Parts
      <3> HIDE DEF then
      <3>3. /\ then \in [texts : Seq(Texts), next : Nat, start : Nat] /\ then.texts = texts
            /\ then.next = done.next /\ then.start = done.start
        BY <2>0, <3>1, <3>2
      <3> QED  BY <3>3 DEF Parts, texts
    <2>4. FlattenSeq(then.texts) = before
      <3>1. FlattenSeq(Append(done.texts, <<>>)) = before \o <<>>
        BY <1>1, <2>2, FlattenAppend DEF before
      <3> QED  BY <2>2, <2>3, <3>1
    <2>5. more = length
      <3>1. Len(fragment) = 0
        BY <1>4
      <3> QED  BY <1>1, <3>1
    <2>6. Len(then.texts) = Len(done.texts) + 1
      BY <1>1, <2>3
    <2> HIDE DEF then, more
    <2>7. PartsWalked(text, ranges, more, then)
      BY <1>1, <2>3, <2>4, <2>5 DEF PartsWalked
    <2> QED  BY <2>6, <2>7 DEF then, more
  <1>5. CASE fragment # <<>>
    <2>1. then = [texts |-> Append(done.texts, here.text), next |-> here.next, start |-> end]
      BY <1>5 DEF RedactNext
    <2>2. Len(fragment) > 0
      BY <1>5 DEF Texts
    <2>3. IsFragment(text, done.start, end)
      BY <1>1, <1>3, <2>2 DEF IsFragment
    <2>4. done.start - 1 = length /\ end - 1 = more
      BY <1>1, <1>3
    <2>5. Alike(before, KeptTo(text, ranges, done.start - 1))
      BY <1>1, <2>4
    <2> HIDE DEF end
    <2>6. PICK walked : walked = here
      OBVIOUS
    <2>7. /\ walked.text \in Texts /\ IsNext(ranges, walked.next, end)
          /\ walked.next \in Nat
          /\ Alike(before \o walked.text, KeptTo(text, ranges, end - 1))
      <3>1. /\ walked.text \in Texts /\ IsNext(ranges, walked.next, end)
            /\ Alike(before \o walked.text, KeptTo(text, ranges, end - 1))
        BY <1>1, <1>2, <2>3, <2>5, <2>6, FragmentWalked
      <3> QED  BY <3>1 DEF IsNext
    <2> HIDE DEF here
    <2>8. /\ then \in Parts /\ then.texts = Append(done.texts, walked.text)
          /\ then.next = walked.next /\ then.start = end
      BY <1>1, <1>3, <2>1, <2>6, <2>7 DEF Parts
    <2>9. FlattenSeq(then.texts) = before \o walked.text
      <3>1. FlattenSeq(Append(done.texts, walked.text)) = before \o walked.text
        BY <1>1, <2>7, FlattenAppend DEF before
      <3> QED  BY <2>8, <3>1
    <2>10. Len(then.texts) = Len(done.texts) + 1
      BY <1>1, <2>8
    <2> HIDE DEF then, more
    <2>11. PartsWalked(text, ranges, more, then)
      BY <1>3, <2>4, <2>7, <2>8, <2>9 DEF PartsWalked
    <2> QED  BY <2>10, <2>11 DEF then, more
  <1> QED  BY <1>4, <1>5

\* The texts that are put together so far are never longer than all of them.
LEMMA FlattenLengths ==
    ASSUME NEW texts \in Seq(Texts)
    PROVE  \E lengths :
              /\ lengths \in [Nat -> Nat] /\ lengths[0] = 0
              /\ \A n \in 0 .. Len(texts) : n # Len(texts) =>
                    /\ lengths[n + 1] = lengths[n] + Len(texts[n + 1])
                    /\ lengths[n + 1] <= Len(FlattenSeq(texts))
              /\ lengths[Len(texts)] = Len(FlattenSeq(texts))
  <1>1. Len(texts) \in Nat /\ \A n \in 1 .. Len(texts) : texts[n] \in Texts
    OBVIOUS
  <1>2. PICK g : /\ g \in [Nat -> Texts] /\ g[0] = <<>>
                 /\ \A n \in 0 .. Len(texts) : n # Len(texts) => g[n + 1] = g[n] \o texts[n + 1]
                 /\ FlattenSeq(texts) = g[Len(texts)]
    BY FlattenIs
  <1> DEFINE N == Len(texts)
             lengths == [n \in Nat |-> Len(g[n])]
  <1>3. \A text \in Texts : Len(text) \in Nat
    BY DEF Texts
  <1>4. \A x, y \in Texts : Len(x \o y) = Len(x) + Len(y)
    BY DEF Texts
  <1>5. lengths \in [Nat -> Nat] /\ lengths[0] = 0 /\ lengths[N] = Len(FlattenSeq(texts))
    BY <1>1, <1>2, <1>3
  <1>6. ASSUME NEW n \in 0 .. N, n # N
        PROVE  /\ n \in Nat /\ n + 1 \in 1 .. N /\ n + 1 \in 0 .. N /\ n + 1 \in Nat
               /\ Len(texts[n + 1]) \in Nat
               /\ lengths[n + 1] = lengths[n] + Len(texts[n + 1])
    <2>1. n \in Nat /\ n + 1 \in 1 .. N /\ n + 1 \in 0 .. N /\ n + 1 \in Nat
      BY <1>1, <1>6
    <2>2. g[n] \in Texts /\ texts[n + 1] \in Texts /\ g[n + 1] = g[n] \o texts[n + 1]
      BY <1>1, <1>2, <1>6, <2>1
    <2>3. Len(g[n + 1]) = Len(g[n]) + Len(texts[n + 1]) /\ Len(texts[n + 1]) \in Nat
      BY <1>3, <1>4, <2>2
    <2> QED  BY <2>1, <2>3
  <1> HIDE DEF lengths
  <1> DEFINE S == {n \in 0 .. N : \A m \in 0 .. n : lengths[m] <= lengths[n]}
  <1>7. 0 \in S
    BY <1>1, <1>5
  <1>8. ASSUME NEW n \in 0 .. N, n # N, n \in S PROVE n + 1 \in S
    <2>1. /\ n + 1 \in 0 .. N /\ Len(texts[n + 1]) \in Nat /\ n + 1 \in Nat /\ n \in Nat
          /\ lengths[n + 1] = lengths[n] + Len(texts[n + 1])
      BY <1>6, <1>8
    <2>2. ASSUME NEW m \in 0 .. n + 1 PROVE lengths[m] <= lengths[n + 1]
      <3>0. m \in Nat
        BY <2>1
      <3>1. lengths[m] \in Nat /\ lengths[n] \in Nat /\ lengths[n + 1] \in Nat
        BY <1>5, <2>1, <3>0
      <3>2. CASE m = n + 1
        BY <3>1, <3>2
      <3>3. CASE m # n + 1
        <4>1. m \in 0 .. n
          BY <2>1, <3>3
        <4>2. lengths[m] <= lengths[n]
          BY <1>8, <4>1
        <4> QED  BY <2>1, <3>1, <4>2
      <3> QED  BY <3>2, <3>3
    <2> QED  BY <2>1, <2>2
  <1> HIDE DEF S
  <1>9. N \in S
    <2>1. \A n \in 0 .. N : n \in S
      BY <1>1, <1>7, <1>8, EveryNumberUpTo
    <2> QED  BY <1>1, <2>1
  <1>10. \A n \in 0 .. N : lengths[n] <= Len(FlattenSeq(texts))
    BY <1>5, <1>9 DEF S
  <1>11. \A n \in 0 .. N : n # N =>
            /\ lengths[n + 1] = lengths[n] + Len(texts[n + 1])
            /\ lengths[n + 1] <= Len(FlattenSeq(texts))
    BY <1>6, <1>10
  <1> QED  BY <1>5, <1>11

\* What the fragments keep is what is kept of the text.
LEMMA RedactedKeeps ==
    ASSUME NEW text \in Texts, NEW ranges, AreRanges(text, ranges),
           NEW fragments \in Seq(Texts), FlattenSeq(fragments) = text
    PROVE  /\ Redacted(text, ranges, fragments) \in Seq(Texts)
           /\ Len(Redacted(text, ranges, fragments)) = Len(fragments)
           /\ Alike(FlattenSeq(Redacted(text, ranges, fragments)),
                    KeptTo(text, ranges, Len(text)))
  <1> DEFINE N == Len(fragments)
             zero == [texts |-> <<>>, next |-> 1, start |-> 1]
             IsDone(f) == f = [n \in 0 .. N |->
                                  IF n = 0 THEN zero
                                  ELSE RedactNext(text, ranges, fragments[n], f[n - 1])]
             done == CHOOSE f : IsDone(f)
  <1>1. /\ N \in Nat /\ Len(text) \in Nat /\ \A n \in 1 .. N : fragments[n] \in Texts
    BY DEF Texts
  <1>2. PICK lengths :
              /\ lengths \in [Nat -> Nat] /\ lengths[0] = 0
              /\ \A n \in 0 .. N : n # N =>
                    /\ lengths[n + 1] = lengths[n] + Len(fragments[n + 1])
                    /\ lengths[n + 1] <= Len(text)
              /\ lengths[N] = Len(text)
    BY FlattenLengths
  <1>3. Redacted(text, ranges, fragments) = done[N].texts
    BY DEF Redacted
  <1> HIDE DEF N
  <1> DEFINE Is(d, n) == PartsWalked(text, ranges, lengths[n], d) /\ Len(d.texts) = n
  <1>4. zero \in Parts /\ Is(zero, 0)
    <2>1. /\ zero \in [texts : Seq(Texts), next : Nat, start : Nat]
          /\ zero.texts = <<>> /\ zero.next = 1 /\ zero.start = 1
      OBVIOUS
    <2> HIDE DEF zero
    <2>2. IsNext(ranges, 1, 1)
      <3>1. ASSUME NEW k \in 1 .. Len(ranges) PROVE ~(k < 1) /\ ~(ranges[k].to <= 1)
        <4>1. /\ ranges[k].from \in Nat /\ ranges[k].to \in Nat /\ 1 <= ranges[k].from
              /\ ranges[k].from < ranges[k].to /\ Len(ranges) \in Nat
          BY RangesTyped
        <4> QED  BY <4>1
      <3> QED  BY <3>1 DEF IsNext
    <2>3. FlattenSeq(<<>>) = <<>> /\ KeptTo(text, ranges, 0) = <<>>
      BY FlattenAppend, KeptToIs
    <2>4. Alike(FlattenSeq(zero.texts), KeptTo(text, ranges, lengths[0]))
      BY <1>2, <2>1, <2>3 DEF Alike
    <2>5. zero \in Parts
      BY <2>1 DEF Parts
    <2>6. zero.start = lengths[0] + 1 /\ Len(zero.texts) = 0
      BY <1>2, <2>1
    <2> QED  BY <2>1, <2>2, <2>4, <2>5, <2>6 DEF PartsWalked
  <1>5. ASSUME NEW n \in 0 .. N, n # N, NEW d, Is(d, n)
        PROVE  /\ n + 1 \in 1 .. N /\ n + 1 \in 0 .. N
               /\ RedactNext(text, ranges, fragments[n + 1], d) \in Parts
               /\ Is(RedactNext(text, ranges, fragments[n + 1], d), n + 1)
    <2>1. n + 1 \in 1 .. N /\ n + 1 \in 0 .. N /\ n \in Nat
      BY <1>1, <1>5
    <2>2. fragments[n + 1] \in Texts /\ lengths[n] \in Nat
      BY <1>1, <1>2, <2>1
    <2>3. /\ lengths[n] + Len(fragments[n + 1]) <= Len(text)
          /\ lengths[n + 1] = lengths[n] + Len(fragments[n + 1])
      BY <1>2, <1>5
    <2>4. /\ PartsWalked(text, ranges, lengths[n + 1],
                          RedactNext(text, ranges, fragments[n + 1], d))
          /\ Len(RedactNext(text, ranges, fragments[n + 1], d).texts) = Len(d.texts) + 1
      BY <1>5, <2>2, <2>3, PartTurns, SMTT(30)
    <2>5. RedactNext(text, ranges, fragments[n + 1], d) \in Parts
      BY <2>4 DEF PartsWalked
    <2>6. Len(RedactNext(text, ranges, fragments[n + 1], d).texts) = n + 1
      BY <1>5, <2>4
    <2> QED  BY <2>1, <2>4, <2>5, <2>6
  <1> HIDE DEF zero, Is
  \* The recursion is defined: turn by turn, the parts with their number.
  <1> DEFINE States == {nd \in (0 .. N) \X Parts : Is(nd[2], nd[1])}
             turn == [nd \in States |->
                         IF nd[1] = N THEN nd
                         ELSE <<nd[1] + 1, RedactNext(text, ranges, fragments[nd[1] + 1], nd[2])>>]
             first == <<0, zero>>
  <1>6. first \in States /\ turn \in [States -> States]
    <2>1. first \in States
      BY <1>1, <1>4
    <2>2. ASSUME NEW nd \in States, nd[1] # N
          PROVE  <<nd[1] + 1, RedactNext(text, ranges, fragments[nd[1] + 1], nd[2])>> \in States
      <3>1. nd[1] \in 0 .. N /\ Is(nd[2], nd[1])
        OBVIOUS
      <3> QED  BY <1>5, <2>2, <3>1
    <2> QED  BY <2>1, <2>2
  <1> HIDE DEF turn, States, first
  <1>07. PICK g : IsTurns(g, States, first, turn)
    BY <1>6, TurnsOf, Zenon
  <1>7. g = [n \in Nat |-> IF n = 0 THEN first ELSE turn[g[n - 1]]] /\ g \in [Nat -> States]
    BY <1>07 DEF IsTurns
  <1>8. g[0] = first /\ \A n \in Nat : g[n + 1] = turn[g[n]]
    <2>1. \A n \in Nat : n + 1 \in Nat /\ n + 1 # 0 /\ n + 1 - 1 = n
      OBVIOUS
    <2> QED  BY <1>7, <2>1
  <1> DEFINE S == {n \in 0 .. N : g[n][1] = n}
  <1>9. \A n \in 0 .. N : n \in S
    <2>0. g[0] = first
      BY <1>8
    <2>1. 0 \in S
      BY <1>1, <2>0 DEF first
    <2>2. ASSUME NEW n \in 0 .. N, n # N, n \in S PROVE n + 1 \in S
      <3>1. n \in Nat /\ n + 1 \in 0 .. N /\ g[n] \in States /\ g[n][1] = n
        BY <1>1, <1>7, <2>2
      <3>2. g[n + 1] = <<n + 1, RedactNext(text, ranges, fragments[n + 1], g[n][2])>>
        BY <1>8, <2>2, <3>1 DEF turn
      <3> QED  BY <3>1, <3>2
    <2> HIDE DEF S
    <2> QED  BY <1>1, <2>1, <2>2, EveryNumberUpTo
  <1> DEFINE f == [n \in 0 .. N |-> g[n][2]]
  <1>10. IsDone(f)
    <2>1. f[0] = zero
      BY <1>1, <1>8 DEF first
    <2>2. ASSUME NEW n \in 0 .. N, n # 0
          PROVE  f[n] = RedactNext(text, ranges, fragments[n], f[n - 1])
      <3>1. n - 1 \in Nat /\ n - 1 \in 0 .. N /\ n - 1 # N /\ n - 1 + 1 = n
        BY <1>1, <2>2
      <3>2. g[n - 1] \in States /\ g[n - 1][1] = n - 1 /\ g[n] = turn[g[n - 1]]
        BY <1>7, <1>8, <1>9, <3>1
      <3>3. g[n] = <<n, RedactNext(text, ranges, fragments[n], g[n - 1][2])>>
        BY <3>1, <3>2 DEF turn
      <3> QED  BY <3>1, <3>3
    <2>3. f = [n \in 0 .. N |-> f[n]]
      OBVIOUS
    <2> HIDE DEF f
    <2> QED  BY <2>1, <2>2, <2>3
  <1> HIDE DEF f, IsDone
  <1>11. IsDone(done)
    BY <1>10, Zenon
  <1> USE DEF IsDone
  <1> HIDE DEF done
  <1> DEFINE T == {n \in 0 .. N : Is(done[n], n)}
  <1>12. 0 \in T
    BY <1>1, <1>4, <1>11
  <1>13. ASSUME NEW n \in 0 .. N, n # N, n \in T PROVE n + 1 \in T
    <2>1. Is(done[n], n)
      BY <1>13
    <2>2. PICK m \in 0 .. N : m = n + 1 /\ m - 1 = n /\ m # 0
      BY <1>1, <1>13
    <2>3. done[m] = RedactNext(text, ranges, fragments[m], done[m - 1])
      BY <1>11, <2>2
    <2>4. Is(RedactNext(text, ranges, fragments[n + 1], done[n]), n + 1)
      BY <1>5, <1>13, <2>1
    <2> QED  BY <2>2, <2>3, <2>4
  <1> HIDE DEF T
  <1>14. Is(done[N], N)
    <2>1. \A n \in 0 .. N : n \in T
      BY <1>1, <1>12, <1>13, EveryNumberUpTo
    <2> QED  BY <1>1, <2>1 DEF T
  <1>15. /\ done[N].texts \in Seq(Texts) /\ Len(done[N].texts) = N
         /\ Alike(FlattenSeq(done[N].texts), KeptTo(text, ranges, Len(text)))
    <2>1. PartsWalked(text, ranges, Len(text), done[N]) /\ Len(done[N].texts) = N
      BY <1>2, <1>14 DEF Is
    <2> QED  BY <2>1 DEF PartsWalked, Parts
  <1> QED  BY <1>3, <1>15 DEF N

LEMMA OneText ==
    ASSUME NEW texts \in Seq(Texts), Len(texts) = 1
    PROVE  FlattenSeq(texts) = texts[1]
  <1>1. texts[1] \in Texts /\ <<>> \in Seq(Texts) /\ texts = Append(<<>>, texts[1])
    OBVIOUS
  <1>2. FlattenSeq(Append(<<>>, texts[1])) = FlattenSeq(<<>>) \o texts[1]
    BY <1>1, FlattenAppend
  <1>3. <<>> \o texts[1] = texts[1]
    BY <1>1, TextsJoin
  <1> QED  BY <1>1, <1>2, <1>3, FlattenAppend

\* However a text is cut into fragments, its view and theirs keep the same.
LEMMA FragmentsKeepTheText ==
    ASSUME NEW text \in Texts, NEW fragments \in Seq(Texts), FlattenSeq(fragments) = text,
           NEW view, view = ViewOfText(text, SensitiveRanges(text), fragments)
    PROVE  /\ view.whole.text \in Texts /\ view.combined \in Seq(Texts)
           /\ Joined(FlattenSeq(view.combined)) = Joined(view.whole.text)
  <1> DEFINE ranges == SensitiveRanges(text)
             one == Redacted(text, ranges, <<text>>)
             kept == KeptTo(text, ranges, Len(text))
  <1>1. AreRanges(text, ranges)
    BY SensitiveRangesInOrder DEF AreRanges
  <1>2. view.whole.text = one[1] /\ view.combined = Redacted(text, ranges, fragments)
    BY DEF ViewOfText
  <1>3. <<text>> \in Seq(Texts) /\ Len(<<text>>) = 1 /\ <<text>>[1] = text
    OBVIOUS
  <1> HIDE DEF ranges
  <1>4. one \in Seq(Texts) /\ Len(one) = 1 /\ Alike(FlattenSeq(one), kept)
    <2>1. FlattenSeq(<<text>>) = text
      BY <1>3, OneText
    <2> QED  BY <1>1, <1>3, <2>1, RedactedKeeps
  <1>5. /\ Redacted(text, ranges, fragments) \in Seq(Texts)
        /\ Alike(FlattenSeq(Redacted(text, ranges, fragments)), kept)
    BY <1>1, RedactedKeeps
  <1>6. FlattenSeq(one) = one[1] /\ one[1] \in Texts
    BY <1>4, OneText
  <1> HIDE DEF one, kept
  <1> QED  BY <1>2, <1>4, <1>5, <1>6 DEF Alike

-----------------------------------------------------------------------------
(* The captures of what a command wrote. *)
Chunks == {"stdout", "stderr"} \X Texts

ViewsOfTexts ==
    [whole : [text : Texts, redactions : Nat], combined : Seq(Texts)]

ViewAgrees(view) ==
    /\ view \in ViewsOfTexts
    /\ Joined(FlattenSeq(view.combined)) = Joined(view.whole.text)

\* The pieces are texts, and every view that there is agrees.
RedactionInv ==
    /\ chunks \in Seq(Chunks)
    /\ views \in Seq(ViewsOfTexts)
    /\ \A i \in 1 .. Len(views) : ViewAgrees(views[i])

LEMMA TextsOfTyped ==
    ASSUME chunks \in Seq(Chunks), NEW stream
    PROVE  TextsOf(stream) \in Seq(Texts)
  <1> DEFINE N == Len(chunks)
             none == <<>>
             step == [nx \in Nat \X Seq(Texts) |->
                         IF nx[1] \notin 1 .. N \/ chunks[nx[1]][1] # stream THEN nx[2]
                         ELSE Append(nx[2], chunks[nx[1]][2])]
             IsTexts(f) == f = [i \in 0 .. N |->
                                   IF i = 0 THEN <<>>
                                   ELSE IF chunks[i][1] # stream THEN f[i - 1]
                                   ELSE Append(f[i - 1], chunks[i][2])]
             texts == CHOOSE f : IsTexts(f)
  <1>1. N \in Nat /\ \A i \in 1 .. N : chunks[i][2] \in Texts
    <2>1. N \in Nat /\ \A i \in 1 .. N : chunks[i] \in Chunks
      OBVIOUS
    <2> QED  BY <2>1 DEF Chunks
  <1>2. TextsOf(stream) = texts[N]
    BY DEF TextsOf
  <1>3. none \in Seq(Texts) /\ step \in [Nat \X Seq(Texts) -> Seq(Texts)]
    <2>1. none \in Seq(Texts)
      OBVIOUS
    <2>2. ASSUME NEW i \in 1 .. N, NEW x \in Seq(Texts) PROVE Append(x, chunks[i][2]) \in Seq(Texts)
      BY <1>1, <2>2
    <2> QED  BY <2>1, <2>2
  <1> HIDE DEF none, step, N
  <1>4. PICK f : IsRecursionUpTo(f, N, Seq(Texts), none, step)
    BY <1>1, <1>3, RecursionUpTo, Zenon
  <1>5. IsTexts(f)
    <2>1. ASSUME NEW i \in 0 .. N, i # 0
          PROVE  step[<<i, f[i - 1]>>] = IF chunks[i][1] # stream THEN f[i - 1]
                                         ELSE Append(f[i - 1], chunks[i][2])
      <3>1. i - 1 \in 0 .. N /\ i \in 1 .. N /\ i \in Nat
        BY <1>1, <2>1
      <3>2. f[i - 1] \in Seq(Texts)
        BY <1>4, <3>1 DEF IsRecursionUpTo
      <3> QED  BY <3>1, <3>2 DEF step
    <2> QED  BY <1>4, <2>1 DEF IsRecursionUpTo, none
  <1> HIDE DEF IsTexts
  <1>6. IsTexts(texts)
    BY <1>5, Zenon
  <1> USE DEF IsTexts
  <1> HIDE DEF texts
  <1> DEFINE S == {i \in 0 .. N : texts[i] \in Seq(Texts)}
  <1>7. 0 \in S
    BY <1>1, <1>6
  <1>8. ASSUME NEW i \in 0 .. N, i # N, i \in S PROVE i + 1 \in S
    <2>1. PICK j \in 0 .. N : j = i + 1 /\ j - 1 = i /\ j # 0 /\ j \in 1 .. N
      BY <1>1, <1>8
    <2>2. /\ texts[j] = IF chunks[j][1] # stream THEN texts[i]
                        ELSE Append(texts[i], chunks[j][2])
          /\ texts[i] \in Seq(Texts) /\ chunks[j][2] \in Texts
      BY <1>1, <1>6, <1>8, <2>1
    <2>3. texts[j] \in Seq(Texts)
      BY <2>2
    <2> QED  BY <2>1, <2>3
  <1> HIDE DEF S
  <1>9. \A i \in 0 .. N : i \in S
    BY <1>1, <1>7, <1>8, EveryNumberUpTo
  <1> QED  BY <1>1, <1>2, <1>9 DEF S

LEMMA CapturesAgree ==
    ASSUME NEW text \in Texts, NEW fragments \in Seq(Texts), FlattenSeq(fragments) = text
    PROVE  ViewAgrees(ViewOfText(text, SensitiveRanges(text), fragments))
  <1> DEFINE ranges == SensitiveRanges(text)
             view == ViewOfText(text, ranges, fragments)
             whole == Redacted(text, ranges, <<text>>)[1]
             combined == Redacted(text, ranges, fragments)
  <1>1. /\ view.whole.text \in Texts /\ view.combined \in Seq(Texts)
        /\ Joined(FlattenSeq(view.combined)) = Joined(view.whole.text)
    BY FragmentsKeepTheText
  <1>2. view = [whole |-> [text |-> whole, redactions |-> Len(ranges)], combined |-> combined]
    BY DEF ViewOfText
  <1>3. Len(ranges) \in Nat
    BY SensitiveRangesInOrder
  <1> HIDE DEF view, ranges, whole, combined
  <1>4. whole \in Texts /\ combined \in Seq(Texts)
    BY <1>1, <1>2
  <1>5. view \in ViewsOfTexts
    BY <1>2, <1>3, <1>4 DEF ViewsOfTexts
  <1> QED  BY <1>1, <1>5 DEF ViewAgrees, view, ranges

LEMMA OneMore ==
    ASSUME NEW X, NEW s \in Seq(X), NEW e \in X
    PROVE  /\ Append(s, e) \in Seq(X) /\ Len(Append(s, e)) = Len(s) + 1
           /\ Append(s, e)[Len(s) + 1] = e
           /\ \A i \in 1 .. Len(s) : Append(s, e)[i] = s[i]
  BY AppendProperties

LEMMA RedactionInductive == RedactionInv /\ [RedactionNext]_redactionVars => RedactionInv'
  <1> SUFFICES ASSUME RedactionInv, [RedactionNext]_redactionVars PROVE RedactionInv'
    OBVIOUS
  <1> USE DEF RedactionInv
  <1>1. CASE Write
    <2>1. PICK chunk \in {<<"stdout", piece>> : piece \in Pieces}
                             \union {<<"stderr", OtherStream>>} :
              chunks' = Append(chunks, chunk)
      BY <1>1 DEF Write
    <2>2. chunk \in Chunks
      BY RedactionAssumption DEF Chunks, Texts
    <2>3. chunks' \in Seq(Chunks)
      BY <2>1, <2>2
    <2>4. views' = views
      BY <1>1 DEF Write
    <2> QED  BY <2>3, <2>4
  <1>2. CASE CaptureStream
    <2> DEFINE fragments == TextsOf("stdout")
               text == FlattenSeq(fragments)
    <2>1. views' = <<ViewOfText(text, SensitiveRanges(text), fragments)>> /\ chunks' = chunks
      BY <1>2 DEF CaptureStream
    <2>2. fragments \in Seq(Texts)
      BY TextsOfTyped
    <2> HIDE DEF fragments
    <2>3. text \in Texts
      BY <2>2, FlattenAppend
    <2>4. ViewAgrees(ViewOfText(text, SensitiveRanges(text), fragments))
      BY <2>2, <2>3, CapturesAgree
    <2>7. ViewOfText(text, SensitiveRanges(text), fragments) \in ViewsOfTexts
      BY <2>4 DEF ViewAgrees
    <2>5. Len(views') = 1 /\ views' \in Seq(ViewsOfTexts)
          /\ views'[1] = ViewOfText(text, SensitiveRanges(text), fragments)
      BY <2>1, <2>7
    <2>6. \A i \in 1 .. Len(views') : ViewAgrees(views'[i])
      BY <2>4, <2>5
    <2> QED  BY <2>1, <2>5, <2>6
  <1>3. CASE CaptureAgain
    <2> DEFINE text == views[1].whole.text
               view == ViewOfText(text, SensitiveRanges(text), <<text>>)
    <2>1. /\ views' = Append(views, view) /\ chunks' = chunks
          /\ Len(views) = 1
      BY <1>3 DEF CaptureAgain
    <2>2. text \in Texts
      <3>1. views[1] \in ViewsOfTexts
        BY <2>1
      <3> QED  BY <3>1 DEF ViewsOfTexts
    <2>3. ViewAgrees(view)
      <3> HIDE DEF text
      <3> DEFINE one == <<text>>
      <3>2. one \in Seq(Texts) /\ Len(one) = 1 /\ one[1] = text
        BY <2>2
      <3> HIDE DEF one
      <3>3. FlattenSeq(one) = one[1]
        BY <3>2, OneText
      <3>1. <<text>> \in Seq(Texts) /\ FlattenSeq(<<text>>) = text
        BY <3>2, <3>3 DEF one
      <3> QED  BY <2>2, <3>1, CapturesAgree
    <2> HIDE DEF view
    <2>6. view \in ViewsOfTexts
      BY <2>3 DEF ViewAgrees
    <2>4. /\ Len(views') = 2 /\ views' \in Seq(ViewsOfTexts)
          /\ views'[1] = views[1] /\ views'[2] = view
      <3>1. views \in Seq(ViewsOfTexts)
        OBVIOUS
      <3>2. Len(views) = 1
        BY <2>1
      <3> DEFINE more == Append(views, view)
      <3>3. /\ more \in Seq(ViewsOfTexts) /\ Len(more) = Len(views) + 1
            /\ more[Len(views) + 1] = view
            /\ \A i \in 1 .. Len(views) : more[i] = views[i]
        BY <2>6, <3>1, OneMore
      <3> HIDE DEF more
      <3>4. Len(more) = 2 /\ more[1] = views[1] /\ more[2] = view
        BY <3>2, <3>3
      <3>5. views' = more
        BY <2>1 DEF more
      <3> QED  BY <3>3, <3>4, <3>5
    <2>5. \A i \in 1 .. Len(views') : ViewAgrees(views'[i])
      BY <2>1, <2>3, <2>4
    <2> QED  BY <2>1, <2>4, <2>5
  <1>4. CASE UNCHANGED redactionVars
    BY <1>4 DEF redactionVars
  <1> QED  BY <1>1, <1>2, <1>3, <1>4 DEF RedactionNext

(* However a command's text is cut into chunks, and whatever its other       *)
(* stream writes in between, the view of the chunks and that of the stream    *)
(* by itself keep the same of it: a value that a chunk's end cuts is shown    *)
(* in neither.                                                               *)
THEOREM ViewsAlike == RedactionSpec => []ViewsAgree
  <1>1. RedactionInit => RedactionInv
    <2>1. <<>> \in Seq(Chunks) /\ <<>> \in Seq(ViewsOfTexts) /\ Len(<<>>) = 0
      OBVIOUS
    <2> QED  BY <2>1 DEF RedactionInit, RedactionInv
  <1>2. RedactionInv => ViewsAgree
    <2>1. RedactionInv => DOMAIN views = 1 .. Len(views)
      BY DEF RedactionInv
    <2> QED  BY <2>1 DEF RedactionInv, ViewAgrees, ViewsAgree
  <1> QED  BY <1>1, <1>2, RedactionInductive, PTL DEF RedactionSpec
=============================================================================
