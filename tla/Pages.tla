-------------------------------- MODULE Pages --------------------------------
(***************************************************************************)
(* Following the pages of an answer (prog-core/src/pagination.rs and the   *)
(* loop of prog-cli/src/commands/call.rs under call --pages).              *)
(*                                                                         *)
(* A source has so many pages and one way to continue: a token, a page     *)
(* number, an offset or a URL.  Its answers carry hints; the loop derives  *)
(* the next request from the hints and the arguments of the page before,   *)
(* under caps of pages, bytes and time, and leaves a resume target.  Where *)
(* the first answer has no hint - a command and an MCP server never give   *)
(* one - the loop takes the hint that a probe of discovery has left in the *)
(* profile, which may name a page of another chain.                        *)
(* CallLocks has the loop's waits and locks, CaptureProcesses what storing *)
(* a page does to the tables; here is what the loop fetches and claims.    *)
(***************************************************************************)
EXTENDS Naturals, Sequences, FiniteSetsExt, Absent

CONSTANTS
    Strategy,       \* ways to continue of the sources considered
    PageCounts,     \* how many pages a source may have
    PageBytes,      \* how large a page may be
    Probed,         \* the pages that the answer to a probe may have named,
                    \* 0 for those of other chains
    MaxPages,       \* the bound on --pages: 50 in the code
    Asked,          \* what the calls ask for with --pages
    MaxTotalBytes,  \* PageCaps: bytes of all pages,
    MaxWall,        \* and time
    MayFail         \* whether the source may fail to answer

ASSUME PagesAssumption ==
    /\ MaxPages \in Nat \ {0} /\ Asked \subseteq Nat \ {0}
    /\ MaxTotalBytes \in Nat /\ MaxWall \in Nat
    /\ Strategy \subseteq {"token", "next", "page", "offset", "link",
                           "next_url", "both"}
    /\ MayFail \in BOOLEAN
    /\ PageCounts \subseteq Nat \ {0} /\ Probed \subseteq Nat
    /\ None \notin Nat /\ None \notin {"page", "offset"}
    /\ None \notin [token : Nat \cup {None}, page : Nat \cup {None},
                   offset : Nat \cup {None}, limit : Nat \cup {None},
                   url : Nat \cup {None}]
    /\ None \notin [token : Nat \cup {None}, more : BOOLEAN \cup {None},
                   echoes : {"page", "offset", None}, link : Nat \cup {None},
                   url : Nat \cup {None}]

VARIABLES
    paged,          \* the source: [strategy, count, bytes], whether prog
                    \* reads hints in its answers (speaks), and what the
                    \* answer to a probe named, if one is learnt (probed)
    loop,           \* the loop: where it is, see LoopStart
    ended,          \* what it leaves: [stop, resume], or None
    servedPages     \* the last call: None, or what the cache gave it

pagesVars == <<paged, loop, ended, servedPages>>

-----------------------------------------------------------------------------
(* Hints. *)

NoBody == [cursor |-> None, next |-> None, nextUrl |-> None, more |-> None,
           echoes |-> None, link |-> None]

(* extract_pagination_hints: a token of the cursor family comes before one   *)
(* in "next"; a URL there is a hint of its own; nothing found is no hints.   *)
ExtractHints(body) ==
    IF body = NoBody THEN None ELSE
    [token |-> IF body.cursor # None THEN body.cursor ELSE body.next,
     more |-> body.more,
     echoes |-> body.echoes,
     link |-> body.link,
     url |-> body.nextUrl]

(* next_args_from_hints.  Arguments are a record of the paging parameters a   *)
(* call uses.  A token comes first, then a page number, then an offset, and   *)
(* a URL only where none of these can be followed.                            *)
NoArgs == [token |-> None, page |-> None, offset |-> None, limit |-> None,
           url |-> None]

NextTarget(hints, args) ==
    IF hints.token # None THEN [args EXCEPT !.token = hints.token]
    ELSE IF args.page # None THEN [args EXCEPT !.page = @ + 1]
    ELSE IF args.offset # None /\ args.limit # None
    THEN [args EXCEPT !.offset = @ + args.limit]
    ELSE IF hints.link # None THEN [NoArgs EXCEPT !.url = hints.link]
    ELSE IF hints.url # None THEN [NoArgs EXCEPT !.url = hints.url]
    ELSE None

-----------------------------------------------------------------------------
(* The source. *)

(* Which page a request gets: beyond the last there are only empty pages.    *)
Index(args) ==
    CASE args.url # None -> args.url
      [] args.token # None -> args.token
      [] args.page # None -> args.page
      [] args.offset # None -> args.offset \div args.limit + 1
      [] OTHER -> 1

FirstArgs ==
    CASE paged.strategy = "page" -> [NoArgs EXCEPT !.page = 1]
      [] paged.strategy = "offset" -> [NoArgs EXCEPT !.offset = 0, !.limit = 2]
      [] OTHER -> NoArgs

(* How an answer says where the next page is, or that there is none.         *)
Body(following) ==
    CASE paged.strategy = "token" -> [NoBody EXCEPT !.cursor = following]
      [] paged.strategy = "next" -> [NoBody EXCEPT !.next = following]
      [] paged.strategy = "page" ->
            [NoBody EXCEPT !.more = following # None, !.echoes = "page"]
      [] paged.strategy = "offset" -> [NoBody EXCEPT !.echoes = "offset"]
      [] paged.strategy = "link" -> [NoBody EXCEPT !.link = following]
      [] paged.strategy = "next_url" -> [NoBody EXCEPT !.nextUrl = following]
      [] paged.strategy = "both" ->
            [NoBody EXCEPT !.cursor = following, !.link = following]

(* Another chain goes on with pages of its own.                              *)
Following(i) ==
    IF i = 0 THEN 0 ELSE IF i < paged.count THEN i + 1 ELSE None

HintsOf(i) == IF paged.speaks THEN ExtractHints(Body(Following(i))) ELSE None

(* learn_from_probe: the hint of the profile is that of the body of a probe  *)
(* (no header is kept).  The probe had arguments of its own, so a token or a *)
(* URL in it may lead into another chain.                                    *)
StoredHints ==
    IF paged.probed = None THEN None
    ELSE ExtractHints([Body(paged.probed) EXCEPT !.link = None])

BytesOf(i) == IF i \in 1 .. paged.count THEN paged.bytes[i] ELSE 1

-----------------------------------------------------------------------------
(* The loop. *)

(* Live hints win; without any the profile's are taken.                      *)
FirstHints == IF HintsOf(1) # None THEN HintsOf(1) ELSE StoredHints

(* Page 1 is answered and stored before the loop, which a call for more than *)
(* that enters.                                                              *)
LoopStart(asked) ==
    [asked |-> IF asked < MaxPages THEN asked ELSE MaxPages,
     args |-> FirstArgs, hints |-> FirstHints, pages |-> <<1>>,
     bytes |-> BytesOf(1), wall |-> 0, failed |-> FALSE]

PagesInit ==
    /\ paged \in [strategy : Strategy, count : PageCounts,
                  bytes : [1 .. Max(PageCounts) -> PageBytes],
                  speaks : BOOLEAN, probed : Probed \cup {None}]
    /\ \E asked \in Asked \ {1} : loop = LoopStart(asked)
    /\ ended = None
    /\ servedPages = None

Target ==
    IF loop.hints = None THEN None ELSE NextTarget(loop.hints, loop.args)

(* Only an HTTP source can be asked for a URL.                               *)
Followable == Target # None /\ (Target.url # None => paged.speaks)

(* After the loop its reason is reconciled with what is left to fetch.       *)
LoopEnded(stop) ==
    LET capped == IF Len(loop.pages) >= loop.asked THEN "page_cap" ELSE stop
        final == IF Target = None THEN "no_more" ELSE capped
    IN  [stop |-> final, resume |-> IF final = "no_more" THEN None ELSE Target]

(* Time passes while a page is awaited and stored.                           *)
Later == {t \in loop.wall .. loop.wall + 1 : t <= MaxWall + 1}

DropPageLate ==                                                \* faulty
    /\ ended = None /\ Len(loop.pages) < loop.asked
    /\ Followable /\ loop.wall <= MaxWall
    /\ loop.bytes + BytesOf(Index(Target)) > MaxTotalBytes
    /\ loop' = [loop EXCEPT !.args = Target, !.hints = HintsOf(Index(Target))]
    /\ ended' = [stop |-> "byte_cap",
                 resume |-> IF HintsOf(Index(Target)) = None THEN None
                            ELSE NextTarget(HintsOf(Index(Target)), Target)]
    /\ UNCHANGED <<paged, servedPages>>

FetchPage ==
    /\ ended = None /\ Len(loop.pages) < loop.asked
    /\ Followable /\ loop.wall <= MaxWall
    /\ loop.bytes + BytesOf(Index(Target)) <= MaxTotalBytes
    /\ \E t \in Later :
          loop' = [loop EXCEPT !.args = Target,
                               !.hints = HintsOf(Index(Target)),
                               !.pages = Append(@, Index(Target)),
                               !.bytes = @ + BytesOf(Index(Target)),
                               !.wall = t]
    /\ UNCHANGED <<paged, ended, servedPages>>

(* The page that would exceed the bytes has been fetched, and is dropped.    *)
DropPage ==
    /\ ended = None /\ Len(loop.pages) < loop.asked
    /\ Followable /\ loop.wall <= MaxWall
    /\ loop.bytes + BytesOf(Index(Target)) > MaxTotalBytes
    /\ ended' = LoopEnded("byte_cap")
    /\ UNCHANGED <<paged, loop, servedPages>>

FailPage ==
    /\ MayFail
    /\ ended = None /\ Len(loop.pages) < loop.asked
    /\ Followable /\ loop.wall <= MaxWall
    /\ loop' = [loop EXCEPT !.failed = TRUE]
    /\ ended' = LoopEnded("no_more")
    /\ UNCHANGED <<paged, servedPages>>

(* An error the source answers with is stored as a page; it has no hints.    *)
ErrorPage ==
    /\ MayFail
    /\ ended = None /\ Len(loop.pages) < loop.asked
    /\ Followable /\ loop.wall <= MaxWall
    /\ loop.bytes + 1 <= MaxTotalBytes
    /\ \E t \in Later :
          loop' = [loop EXCEPT !.args = Target, !.hints = None,
                               !.pages = Append(@, None),
                               !.bytes = @ + 1, !.wall = t, !.failed = TRUE]
    /\ UNCHANGED <<paged, ended, servedPages>>

(* A command or an MCP server has no URLs: a stored one is not followed.     *)
RefuseUrl ==
    /\ ended = None /\ Len(loop.pages) < loop.asked
    /\ Target # None /\ ~Followable /\ loop.wall <= MaxWall
    /\ ended' = LoopEnded("no_more")
    /\ UNCHANGED <<paged, loop, servedPages>>

StopLoop ==
    /\ ended = None
    /\ \/ Len(loop.pages) >= loop.asked /\ ended' = LoopEnded("no_more")
       \/ /\ Len(loop.pages) < loop.asked
          /\ Target = None /\ ended' = LoopEnded("no_more")
       \/ /\ Len(loop.pages) < loop.asked
          /\ Target # None /\ loop.wall > MaxWall /\ ended' = LoopEnded("time_cap")
    /\ UNCHANGED <<paged, loop, servedPages>>

(* A later call finds the entry of page 1 and what is cached with it: with a *)
(* chain that ended, or pages enough, it is a hit (cached_pagination_satisfies).*)
CallAgain ==
    /\ ended # None
    /\ \E asked \in Asked :
          IF asked = 1 \/ ended.stop = "no_more" \/ Len(loop.pages) >= LoopStart(asked).asked
          THEN /\ servedPages' = [asked |-> asked, pages |-> loop.pages]
               /\ UNCHANGED <<loop, ended>>
          ELSE /\ servedPages' = None
               /\ loop' = LoopStart(asked)
               /\ ended' = None
    /\ UNCHANGED paged

PagesNext ==
    FetchPage \/ DropPage \/ FailPage \/ ErrorPage \/ RefuseUrl \/ StopLoop
        \/ CallAgain
PagesSpec == PagesInit /\ [][PagesNext]_pagesVars

-----------------------------------------------------------------------------
(* Properties. *)

(* Numbered pages can be asked for beyond the last one.                      *)
Numbered == paged.strategy \in {"page", "offset"}

(* The first answer had no hint, and the profile's names a page by a token   *)
(* or a URL: what is fetched with it belongs to whatever chain the probe saw.*)
Astray == ~Numbered /\ HintsOf(1) = None /\ StoredHints # None

(* The caps hold whatever is followed.  Unless the source failed, or the     *)
(* first answer had no hint and a token or URL that a probe left behind was  *)
(* followed instead: what was fetched is the beginning of the chain, each    *)
(* page once and in order; and what is left to resume with is the first page *)
(* that was not stored, also if it was fetched and dropped.  Where answers   *)
(* carry hints, no target is left only at the end of the chain, and a hit    *)
(* gives the pages asked for, or all.                                        *)
PrefetchIsAPrefix ==
    /\ Len(loop.pages) <= loop.asked /\ loop.asked <= MaxPages
    /\ Len(loop.pages) > 1 => loop.bytes <= MaxTotalBytes
    /\ ~loop.failed /\ ~Astray =>
          /\ \A i \in DOMAIN loop.pages : loop.pages[i] = i
          /\ ended # None =>
                IF ended.resume = None
                THEN paged.speaks => Len(loop.pages) >= paged.count
                ELSE Index(ended.resume) = Len(loop.pages) + 1
          /\ servedPages # None /\ paged.speaks =>
                \/ Len(servedPages.pages) >= servedPages.asked
                \/ Len(servedPages.pages) \in {paged.count, MaxPages}

(* The request for the n-th page of a chain that nothing has broken, and the *)
(* hints its loop has then.                                                  *)
ArgsAt(n) ==
    CASE paged.strategy = "page" -> [NoArgs EXCEPT !.page = n]
      [] paged.strategy = "offset" ->
            [NoArgs EXCEPT !.offset = 2 * (n - 1), !.limit = 2]
      [] paged.strategy \in {"link", "next_url"} /\ n > 1 ->
            [NoArgs EXCEPT !.url = n]
      [] paged.strategy \in {"token", "next", "both"} /\ n > 1 ->
            [NoArgs EXCEPT !.token = n]
      [] OTHER -> NoArgs

HintsAt(n) == IF n = 1 THEN FirstHints ELSE HintsOf(n)

(* The loop stands on the last page it has stored; what it leaves is where   *)
(* it would go on; and a hit gives what the last loop has stored.            *)
PagesInv ==
    /\ paged.strategy \in Strategy /\ paged.count \in PageCounts
    /\ paged.speaks \in BOOLEAN /\ paged.probed \in Probed \cup {None}
    /\ DOMAIN loop = {"asked", "args", "hints", "pages", "bytes", "wall", "failed"}
    /\ loop.pages \in Seq(Range(loop.pages)) /\ Len(loop.pages) >= 1
    /\ loop.asked \in 1 .. MaxPages
    /\ ~loop.failed /\ ~Astray => \E n \in 1 .. MaxPages :
          /\ Len(loop.pages) = n /\ (Numbered \/ n <= paged.count)
          /\ loop.args = ArgsAt(n) /\ loop.hints = HintsAt(n)
    /\ (ended # None /\ ~loop.failed /\ ~Astray) =>
          ended.resume = Target /\ (ended.stop = "no_more" => Target = None)
    /\ servedPages # None => ended # None /\ servedPages.pages = loop.pages
    /\ PrefetchIsAPrefix

(* The pages of a call are pages of one chain, each named by the one before. *)
(* README.md: "`prog call --pages N` follows continuation hints"; the hint   *)
(* of a profile is another answer's.                                         *)
PagesAreOfOneChain ==
    ~loop.failed => \A i \in DOMAIN loop.pages : loop.pages[i] = i

(* A chain is reported to have ended only if the last page says so.          *)
(* pagination.rs, StopReason::NoMore: "No next page was reported."           *)
NoMoreIsTheEnd ==
    ended # None /\ ended.stop = "no_more" =>
        Target = None
=============================================================================
