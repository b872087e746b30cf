----------------------------- MODULE HistoryViews -----------------------------
(***************************************************************************)
(* What the readers make of the captured history while a daemon adds to it:*)
(*   mcp/read_store/   recent_activity, timeline and search                *)
(*   replay/store.ts   the manifest a replay is played from                *)
(* and how replay/server.ts finds what to show and to play at a moment.    *)
(* A row of `chunks` is a record, its place in `rows` its rowid; a text is *)
(* a member of Texts.  An audio chunk has one transcript segment at most,  *)
(* of the chunk's own text and time.  Readers only read: each view is an   *)
(* operator on the rows there are when its query runs.                     *)
(***************************************************************************)
EXTENDS Integers, FiniteSets, SequencesExt

CONSTANTS
  Worlds,      \* what is captured: records of kinds, windows, texts, embeddings (enabled or
               \* not), filters (what is searched) and the bounds on the rows and on
               \* the clock (until)
  NoText, NoWindow,
  Bm25(_),     \* text -> rank for the query, lower is better; 0: does not match
  Distance(_), \* text -> distance to the query's vector, > 0
  SessionGap,  \* 30 s in buildActivityGroups
  RrfK0,       \* 60 in rrfFuse
  OverFetch, MinFetch,  \* 5 and 50 in vectorResults
  ChunkMs      \* length of an audio chunk, audio_chunk_ms

ASSUME HistoryAssumption ==
  /\ {SessionGap, RrfK0, MinFetch, ChunkMs} \subseteq Nat /\ OverFetch \in Nat \ {0}
  /\ \A w \in Worlds : /\ {w.rows, w.until} \subseteq Nat
                       /\ NoText \notin w.texts
                       /\ \A text \in w.texts : {Bm25(text), Distance(text)} \subseteq Nat

VARIABLES world, rows, now, vectors

vars == <<world, rows, now, vectors>>

Init ==
  /\ world \in Worlds
  /\ rows = <<>> /\ now = 0 /\ vectors = {}

Screenshot(at, window, text) ==
  [kind |-> "screen", at |-> at, end |-> at, window |-> window, text |-> text, bytes |-> 1]
AudioChunk(kind, window) ==
  [kind |-> kind, at |-> now, end |-> now, window |-> window, text |-> NoText, bytes |-> 0]

\* A screenshot is stored when its OCR is done, under the time of its capture.
CaptureScreen ==
  /\ "screen" \in world.kinds /\ Len(rows) < world.rows
  /\ \E at \in (now - 1)..now, window \in world.windows, text \in world.texts \cup {NoText} :
       /\ at >= 0
       /\ rows' = Append(rows, Screenshot(at, window, text))
  /\ UNCHANGED <<world, now, vectors>>

\* insertChunkRow: a chunk of audio begins, and is empty.
OpenAudio ==
  /\ Len(rows) < world.rows
  /\ \E kind \in world.kinds \ {"screen"}, window \in world.windows :
       /\ \A i \in DOMAIN rows : rows[i].kind = kind => rows[i].bytes > 0
       /\ rows' = Append(rows, AudioChunk(kind, window))
  /\ UNCHANGED <<world, now, vectors>>

\* finalizeChunk: it has a blob and an end.
CloseAudio ==
  /\ \E i \in DOMAIN rows :
       /\ rows[i].bytes = 0
       /\ rows' = [rows EXCEPT ![i].bytes = 1, ![i].end = now]
  /\ UNCHANGED <<world, now, vectors>>

\* insertTranscriptSegment: the segment, and its text in the chunk.
Transcribe ==
  /\ \E i \in DOMAIN rows, text \in world.texts :
       /\ rows[i].kind # "screen" /\ rows[i].text = NoText
       /\ rows' = [rows EXCEPT ![i].text = text]
  /\ UNCHANGED <<world, now, vectors>>

\* insertEmbedding: texts of screenshots and of segments get a vector.
EmbedRow ==
  /\ world.embeddings
  /\ \E i \in DOMAIN rows :
       /\ rows[i].text # NoText /\ i \notin vectors
       /\ vectors' = vectors \cup {i}
  /\ UNCHANGED <<world, rows, now>>

Tick ==
  /\ now < world.until
  /\ \A i \in DOMAIN rows : rows[i].bytes = 0 => now - rows[i].at < ChunkMs
  /\ now' = now + 1
  /\ UNCHANGED <<world, rows, vectors>>

Next == CaptureScreen \/ OpenAudio \/ CloseAudio \/ Transcribe \/ EmbedRow \/ Tick

Spec == Init /\ [][Next]_vars

-----------------------------------------------------------------------------
(* Queries: an order is the set of its pairs. *)

Rowids == DOMAIN rows
At(i) == rows[i].at

\* What an order puts before x in S, ORDER BY, and ORDER BY with LIMIT n.
Ahead(S, order, x) == {y \in S : <<y, x>> \in order}
Ordered(S, order) ==
  [n \in 1..Cardinality(S) |-> CHOOSE x \in S : Cardinality(Ahead(S, order, x)) = n - 1]
Best(S, order, n) == {x \in S : Cardinality(Ahead(S, order, x)) < n}

\* ORDER BY at, rows of the same moment in the order of their insertion; and the
\* way back by the index on `at`.
Earlier == {p \in Rowids \X Rowids : \/ At(p[1]) < At(p[2])
                                     \/ At(p[1]) = At(p[2]) /\ p[1] < p[2]}
Later == {p \in Rowids \X Rowids : <<p[2], p[1]>> \in Earlier}

Page(list, limit, offset) ==
  SubSeq(list, offset + 1, IF Len(list) < offset + limit THEN Len(list) ELSE offset + limit)

-----------------------------------------------------------------------------
(* recent_activity *)

HasWindow(i) == rows[i].window # NoWindow
IsWindowed(i) == rows[i].kind = "screen" \/ HasWindow(i)
Key(i) == IF HasWindow(i) THEN <<"window", rows[i].window>> ELSE <<"source", rows[i].kind>>
AudioKey(i) == <<"audio", rows[i].kind>>

EmptyGroup(i, key) == [key |-> key, start |-> At(i), end |-> rows[i].end, rows |-> <<>>]

AddRow(group, i) ==
  [group EXCEPT !.start = IF At(i) < @ THEN At(i) ELSE @,
                !.end = IF rows[i].end > @ THEN rows[i].end ELSE @,
                !.rows = Append(@, i)]

\* findRecentGroup: the latest of the groups with these numbers, or 0.
Recent(numbers) == IF numbers = {} THEN 0 ELSE Max(numbers)

\* Into the group with that number, or a new one if there is none.
AddTo(groups, n, i, key) ==
  IF n = 0 THEN Append(groups, AddRow(EmptyGroup(i, key), i))
           ELSE [groups EXCEPT ![n] = AddRow(@, i)]

Within(group, i) == At(i) - group.end <= SessionGap
Overlaps(group, i) == At(i) <= group.end /\ rows[i].end >= group.start
HasScreen(group) == \E j \in ToSet(group.rows) : rows[j].kind = "screen"

\* Mutant: the time since the beginning of the group decides.
PlaceWindowed_SinceStart(groups, i) ==
  AddTo(groups, Recent({n \in DOMAIN groups : /\ HasWindow(i) /\ groups[n].key = Key(i)
                                              /\ At(i) - groups[n].start <= SessionGap}),
        i, Key(i))

\* The latest group of the same window, if it ended a short time ago.
PlaceWindowed(groups, i) ==
  AddTo(groups, Recent({n \in DOMAIN groups : /\ HasWindow(i) /\ groups[n].key = Key(i)
                                              /\ Within(groups[n], i)}),
        i, Key(i))

\* Audio without a window: the latest group with a screenshot that it overlaps,
\* or else the latest of its own source.
PlaceAudio(groups, i) ==
  LET onScreen == Recent({n \in DOMAIN groups : HasScreen(groups[n]) /\ Overlaps(groups[n], i)})
      ofSource == Recent({n \in DOMAIN groups : groups[n].key = AudioKey(i) /\ Within(groups[n], i)})
  IN  AddTo(groups, IF onScreen # 0 THEN onScreen ELSE ofSource, i, AudioKey(i))

\* The two loops of buildActivityGroups.
WindowGroups(list) ==
  LET after[n \in 0..Len(list)] == IF n = 0 THEN <<>> ELSE PlaceWindowed(after[n - 1], list[n])
  IN  after[Len(list)]
AudioGroups(groups, list) ==
  LET after[n \in 0..Len(list)] == IF n = 0 THEN groups ELSE PlaceAudio(after[n - 1], list[n])
  IN  after[Len(list)]

\* Groups by their start, those of the same start as they are.
ByStart(groups) ==
  LET sooner == {p \in (DOMAIN groups) \X (DOMAIN groups) :
                   \/ groups[p[1]].start < groups[p[2]].start
                   \/ groups[p[1]].start = groups[p[2]].start /\ p[1] < p[2]}
      number == Ordered(DOMAIN groups, sooner)
  IN  [n \in DOMAIN groups |-> groups[number[n]]]

\* What Later has given, sorted by `at`: rows of the same moment stay in the
\* reverse order.
OldestFirst == {p \in Rowids \X Rowids : \/ At(p[1]) < At(p[2])
                                         \/ At(p[1]) = At(p[2]) /\ p[1] > p[2]}

\* buildActivityGroups
ActivityGroups(selected) ==
  LET windowed == {i \in selected : IsWindowed(i)}
  IN  ByStart(AudioGroups(WindowGroups(Ordered(windowed, OldestFirst)),
                          Ordered(selected \ windowed, OldestFirst)))

\* recentActivity: the latest rows that have a text, or all of them.  (That only
\* the latest groups are returned is left out.)
Selected(includeEmpty, rawLimit) ==
  Best({i \in Rowids : includeEmpty \/ rows[i].text # NoText}, Later, rawLimit)

-----------------------------------------------------------------------------
(* search *)

\* A result is of a table and a row, or the segment of a row.
Results == {"segment", "chunk"} \X Rowids
Segments(S) == {<<"segment", i>> : i \in {j \in S : rows[j].kind # "screen"}}
Chunks(S) == {<<"chunk", i>> : i \in S}

\* The two scores of a result.
TextRank == [x \in Results |-> Bm25(rows[x[2]].text)]
Nearness == [x \in Results |-> Distance(rows[x[2]].text)]

Scores(list, score) == [n \in DOMAIN list |-> score[list[n]]]

\* ORDER BY score, in one table.
InTable(S, score) == {p \in S \X S : \/ score[p[1]] < score[p[2]]
                                     \/ score[p[1]] = score[p[2]] /\ p[1][2] < p[2][2]}

\* out.sort: the best score first, then the latest; or else segments before
\* chunks, and each as its table has them.
Ranked(S, score) ==
  {p \in S \X S :
     LET x == p[1] y == p[2]
     IN  \/ score[x] < score[y]
         \/ /\ score[x] = score[y]
            /\ \/ At(x[2]) > At(y[2])
               \/ /\ At(x[2]) = At(y[2])
                  /\ \/ x[1] = "segment" /\ y[1] = "chunk"
                     \/ x[1] = y[1] /\ x[2] < y[2]}

\* The filters of a query that say where a row is from: its source, and the
\* application of its window.  "any" stands for a filter that is not given.
Passes(filter, i) ==
  /\ filter.source \in {"any", rows[i].kind}
  /\ filter.app \in {"any", rows[i].window}

\* A chunk of audio is found by its text too, beside its segment.
FtsResults(filter, n) ==
  LET matches  == {i \in Rowids : rows[i].text # NoText /\ Bm25(rows[i].text) > 0 /\ Passes(filter, i)}
      chunks   == IF filter.source \in {"mic", "system"} THEN {} ELSE Chunks(matches)
      found(S) == Best(S, InTable(S, TextRank), n)
      results  == found(Segments(matches)) \cup found(chunks)
  IN  Ordered(results, Ranked(results, TextRank))

\* The nearest vectors of each table, and of these the ones that pass.
VectorResults(filter, n) ==
  LET k          == IF n * OverFetch > MinFetch THEN n * OverFetch ELSE MinFetch
      screens    == {i \in vectors : rows[i].kind = "screen"}
      nearest(S) == {x \in Best(S, InTable(S, Nearness), k) : Passes(filter, x[2])}
      results    == nearest(Segments(vectors)) \cup nearest(Chunks(screens))
  IN  Ordered(results, Ranked(results, Nearness))

\* The place of a result in a list, or 0.
Position(list, x) == IF x \in ToSet(list) THEN CHOOSE n \in DOMAIN list : list[n] = x ELSE 0
Contribution(list, x) == IF Position(list, x) = 0 THEN 0 ELSE RrfK0 + Position(list, x)

\* Scores 1/a + 1/b of two results, 0 standing for a list without the result.
Sum(a, b) == IF a = 0 THEN <<1, b>> ELSE IF b = 0 THEN <<1, a>> ELSE <<a + b, a * b>>
Greater(s, t) == s[1] * t[2] > t[1] * s[2]

\* rrfFuse: an entry for each result, with one score if it is in both lists, and
\* its place among the entries.
Entry(fts, vec, x) ==
  [result |-> x,
   rrf    |-> Sum(Contribution(fts, x), Contribution(vec, x)),
   order  |-> IF Position(fts, x) # 0 THEN Position(fts, x) ELSE Len(fts) + Position(vec, x)]

Fused(fts, vec) ==
  LET entries == {Entry(fts, vec, x) : x \in ToSet(fts) \cup ToSet(vec)}
      better  == {p \in entries \X entries :
                    LET a == p[1] b == p[2]
                    IN  \/ Greater(a.rrf, b.rrf)
                        \/ /\ ~Greater(b.rrf, a.rrf)
                           /\ \/ At(a.result[2]) > At(b.result[2])
                              \/ At(a.result[2]) = At(b.result[2]) /\ a.order < b.order}
      list    == Ordered(entries, better)
  IN  [n \in DOMAIN list |-> list[n].result]

\* Mutant: every list is cut at the size of a page.
Search_PageOnly(mode, filter, limit, offset) ==
  Page(CASE mode = "lexical"  -> FtsResults(filter, limit)
         [] mode = "semantic" -> VectorResults(filter, limit)
         [] OTHER -> Fused(FtsResults(filter, limit), VectorResults(filter, limit)),
       limit, offset)

\* HyprmnesiaReadStore.search with a vector of the query.
Search(mode, filter, limit, offset) ==
  LET n == limit + offset
  IN  Page(CASE mode = "lexical"  -> FtsResults(filter, n)
             [] mode = "semantic" -> VectorResults(filter, n)
             [] OTHER -> Fused(FtsResults(filter, n), VectorResults(filter, n)),
           limit, offset)

-----------------------------------------------------------------------------
(* replay *)

Screens(from, to) == {i \in Rowids : rows[i].kind = "screen" /\ At(i) \in from..to}

\* Mutant: only those in the range.
Screenshots_InRange(from, to) == Ordered(Screens(from, to), Earlier)

\* ReplayStore.load: the screenshot before the range and those in it.
Screenshots(from, to) ==
  Ordered(Best(Screens(0, from), Later, 1), Later) \o Ordered(Screens(from + 1, to), Earlier)

\* The chunks of a source that overlap the range.
AudioOf(source, from, to) ==
  Ordered({i \in Rowids : rows[i].kind = source /\ rows[i].end >= from /\ At(i) <= to}, Earlier)

\* toReplayChunk: times of the range, and where the range begins in the blob.
OffsetStart(i, from) == IF At(i) > from THEN At(i) - from ELSE 0
OffsetEnd(i, from, to) ==
  LET end == IF rows[i].end > from THEN rows[i].end - from ELSE 0
  IN  IF end < to - from THEN end ELSE to - from
BlobStart(i, from) == IF from > At(i) THEN from - At(i) ELSE 0

\* activeByStart: the number of the screenshot to show, or 0.
Shown(from, to, at) ==
  LET list == Screenshots(from, to)
  IN  Recent({n \in DOMAIN list : OffsetStart(list[n], from) <= at})

\* scheduleItem: the position in its blob from which a chunk is played, and how
\* long, when playing begins at `at`.
Playable(i, from, to, at) == rows[i].bytes > 0 /\ OffsetEnd(i, from, to) > at
PlayStart(i, from, at) == IF at > OffsetStart(i, from) THEN at ELSE OffsetStart(i, from)
BlobPosition(i, from, at) == BlobStart(i, from) + PlayStart(i, from, at) - OffsetStart(i, from)
PlayLength(i, from, to, at) ==
  LET left      == OffsetEnd(i, from, to) - PlayStart(i, from, at)
      available == rows[i].end - At(i) - BlobPosition(i, from, at)
  IN  IF left < available THEN left ELSE available

-----------------------------------------------------------------------------
\* recent_activity has every row it has selected once, in groups whose span is
\* that of their rows, the earliest first, before it cuts them down to the latest
\* ones.  Rows of one window are together if no more than 30 s lie between them,
\* and audio without a window, when a screenshot was taken while it ran, is in a
\* group that has a screenshot.
ActivityCovers ==
  \A includeEmpty \in BOOLEAN, rawLimit \in {2, 8} :
    LET selected == Selected(includeEmpty, rawLimit)
        groups   == ActivityGroups(selected)
        groupOf(i) == {n \in DOMAIN groups : i \in ToSet(groups[n].rows)}
    IN  /\ \A i \in selected : Cardinality(groupOf(i)) = 1
        /\ \A n \in DOMAIN groups :
             LET members == ToSet(groups[n].rows)
             IN  /\ Len(groups[n].rows) = Cardinality(members) /\ members \subseteq selected
                 /\ groups[n].start = Min({rows[i].at : i \in members})
                 /\ groups[n].end = Max({rows[i].end : i \in members})
                 /\ n > 1 => groups[n - 1].start <= groups[n].start
        /\ \A i, j \in selected :
             /\ /\ HasWindow(i) /\ HasWindow(j) /\ Key(i) = Key(j)
                /\ rows[i].at <= rows[j].at /\ rows[j].at - rows[i].end <= SessionGap
                => groupOf(i) = groupOf(j)
             /\ /\ ~IsWindowed(i) /\ rows[j].kind = "screen"
                /\ rows[j].at \in rows[i].at..rows[i].end
                => \A n \in groupOf(i) : HasScreen(groups[n])

\* Page by page, a lexical search shows the scores of the whole ranking, and so
\* does a semantic one without any filter: what the rows of a page are cut from
\* grows with the page (ties may be broken otherwise), as long as sqlite-vec takes
\* so large a k.  Whatever the mode, a page has no result twice.
PagesFollowRanking ==
  \A filter \in world.filters :
    LET all     == 2 * world.rows
        found   == FtsResults(filter, all)
        nearest == VectorResults(filter, all)
    IN  \A limit \in 1..2, page \in 0..2 :
          LET offset   == page * limit
              lexical  == Search("lexical", filter, limit, offset)
              semantic == Search("semantic", filter, limit, offset)
              hybrid   == Search("hybrid", filter, limit, offset)
          IN  /\ Scores(lexical, TextRank) = Scores(Page(found, limit, offset), TextRank)
              /\ filter = [source |-> "any", app |-> "any"] =>
                   Scores(semantic, Nearness) = Scores(Page(nearest, limit, offset), Nearness)
              /\ \A results \in {lexical, semantic, hybrid} :
                   Len(results) <= limit /\ Cardinality(ToSet(results)) = Len(results)

\* A replay shows at every moment of its range the last screenshot taken until
\* then, also one taken before the range, and plays every chunk of audio that
\* is complete at the moment it was recorded, to the end of the chunk or of the
\* range.
ReplayInSync ==
  \A from \in 0..world.until : \A to \in from..world.until : \A at \in 0..(to - from) :
    /\ LET taken == Ordered(Screens(0, from + at), Earlier)
           shown == Shown(from, to, at)
       IN  IF taken = <<>> THEN shown = 0
           ELSE shown > 0 /\ Screenshots(from, to)[shown] = Last(taken)
    /\ \A i \in DOMAIN rows :
         (rows[i].kind # "screen" /\ rows[i].bytes > 0 /\ rows[i].end > from + at
            /\ rows[i].at <= to /\ at < to - from) =>
           /\ Contains(AudioOf(rows[i].kind, from, to), i)
           /\ Playable(i, from, to, at)
           /\ BlobPosition(i, from, at) = PlayStart(i, from, at) + from - rows[i].at
           /\ PlayStart(i, from, at) + PlayLength(i, from, to, at)
                = Min({rows[i].end, to}) - from
=============================================================================
