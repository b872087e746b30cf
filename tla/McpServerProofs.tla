---------------------------- MODULE McpServerProofs ----------------------------
(***************************************************************************)
(* Theorems about the tokens and the searches of the MCP server, with      *)
(* proofs for TLAPS: for any number of setups, rotations, calls, batches   *)
(* and failures of the encoder.                                            *)
(***************************************************************************)
EXTENDS McpServer, FiniteSetTheorems, TLAPS

\* The keychain, if it has a verifier, or else the file holds the newest token's.
\* An invocation that deletes the file has left one in the keychain, and one that
\* was refused, or waits for the file, knows whether there is a keychain.
KeyInv ==
  /\ admin \in [Admins -> {"idle", "lookFile", "write", "writeFile", "refused", "clear", "done"}]
  /\ tokens \in Nat
  /\ IF keychain # 0 THEN keychain = newest ELSE file = newest
  /\ ~hasKeychain => keychain = 0
  /\ \A a \in Admins :
       /\ admin[a] = "clear" => keychain # 0
       /\ admin[a] = "writeFile" => ~hasKeychain

\* Only setups and rotations touch the stores: a call, an answer, a timeout or
\* the end of the server leaves them alone.
LEMMA ServerKeepsStores ==
  ASSUME Next, ~Administer
  PROVE  UNCHANGED authVars
  BY DEF Next, StartServer, StopServer, StopEncoder, EndServer, Receive, AnswerQuery, LoadModel,
         WorkerDies, WorkerGone, QueryTimeout, InstallBinary

\* A lookup changes nothing but the step of the invocation.
LEMMA LookupKeepsKeyInv ==
  ASSUME KeyInv, NEW a \in Admins, Setup(a) \/ LookFile(a) \/ Rotate(a)
  PROVE  KeyInv'
<1>1. UNCHANGED <<hasKeychain, keychain, file, tokens, newest>>
  BY DEF Setup, LookFile, Rotate, stores
<1>2. PICK to \in {"lookFile", "write", "done"} : admin' = [admin EXCEPT ![a] = to]
  BY DEF Setup, LookFile, Rotate, AdminAt
<1> QED  BY <1>1, <1>2 DEF KeyInv

\* The keychain takes the verifier or refuses it, or there is none.
LEMMA WriteKeychainKeepsKeyInv ==
  ASSUME KeyInv, NEW a \in Admins, WriteKeychain(a)
  PROVE  KeyInv'
<1>1. tokens' = tokens + 1 /\ tokens + 1 \in Nat /\ tokens + 1 # 0
  BY DEF WriteKeychain, KeyInv
<1>2. UNCHANGED <<hasKeychain, file>>
  BY DEF WriteKeychain
<1>3. CASE hasKeychain /\ AdminAt(a, "write", "clear") /\ keychain' = tokens + 1
           /\ newest' = tokens + 1
  BY <1>1, <1>2, <1>3 DEF KeyInv, AdminAt
<1>4. CASE /\ AdminAt(a, "write", IF hasKeychain THEN "refused" ELSE "writeFile")
           /\ UNCHANGED <<keychain, newest>>
  BY <1>1, <1>2, <1>4 DEF KeyInv, AdminAt
<1> QED  BY <1>3, <1>4 DEF WriteKeychain

\* The file takes the verifier, or nothing does.
LEMMA WriteFileKeepsKeyInv ==
  ASSUME KeyInv, NEW a \in Admins, WriteFile(a)
  PROVE  KeyInv'
<1>1. UNCHANGED <<hasKeychain, keychain, tokens>> /\ admin' = [admin EXCEPT ![a] = "done"]
  BY DEF WriteFile, AdminAt
<1>2. admin[a] = "writeFile" \/ admin[a] = "refused"
  BY DEF WriteFile, AdminAt
<1>3. IF keychain # 0 THEN keychain = newest' ELSE file' = newest'
  BY <1>2 DEF WriteFile, Stored, KeyInv
<1> QED  BY <1>1, <1>3 DEF KeyInv

\* The file goes only while the keychain has a verifier.
LEMMA ClearFileKeepsKeyInv ==
  ASSUME KeyInv, NEW a \in Admins, ClearFile(a)
  PROVE  KeyInv'
<1>1. UNCHANGED <<hasKeychain, keychain, tokens, newest>>
      /\ admin' = [admin EXCEPT ![a] = "done"] /\ admin[a] = "clear"
  BY DEF ClearFile, AdminAt
<1> QED  BY <1>1 DEF KeyInv

\* However the steps of any number of setups and rotations interleave, whether
\* the keychain answers, takes or refuses, and whether the file is written and
\* deleted: what is read first is the verifier of the token stored last
\* (NewestTokenStored).
THEOREM NewestIsStored == FairSpec => []NewestTokenStored
<1>1. Init => KeyInv
  BY DEF Init, AuthInit, KeyInv
<1>2. KeyInv /\ [Next]_vars => KeyInv'
  <2> SUFFICES ASSUME KeyInv, [Next]_vars  PROVE KeyInv'
    OBVIOUS
  <2>1. CASE UNCHANGED authVars
    BY <2>1 DEF KeyInv, authVars, stores
  <2>2. CASE Administer
    <3>1. PICK a \in Admins : \/ Setup(a) \/ LookFile(a) \/ Rotate(a)
                              \/ WriteKeychain(a) \/ WriteFile(a) \/ ClearFile(a)
      BY <2>2 DEF Administer, AuthStep, Admins
    <3> QED  BY <3>1, LookupKeepsKeyInv, WriteKeychainKeepsKeyInv, WriteFileKeepsKeyInv,
                ClearFileKeepsKeyInv
  <2>3. CASE Next /\ ~Administer
    BY <2>1, <2>3, ServerKeepsStores
  <2> QED  BY <2>1, <2>2, <2>3 DEF vars
<1>3. KeyInv => NewestTokenStored
  BY DEF KeyInv, NewestTokenStored, FirstVerifier
<1> QED  BY <1>1, <1>2, <1>3, PTL DEF FairSpec

-----------------------------------------------------------------------------
Replies ==
  {"unsent", "encoding", "silent", "answered", "refused", "lexical", "crossed", "closed"}

ReplyInv ==
  /\ reply \in [Slots -> Replies]
  /\ inbox \in Seq(Slots)
  /\ \A c \in Calls : reply[<<c, 1>>] = "unsent" => reply[<<c, 2>>] = "unsent"

\* The searches whose connection is closed.  When there are some, no other waits.
Closed == {s \in Slots : reply[s] = "closed"}

ClosedInv == Closed # {} => server \in {"stopping", "ended"} /\ Waiting = {}

\* The entry is that of a search that waits or is closed, and only those have a
\* timeout.
EntryInv ==
  /\ entry \in Waiting \cup Closed \cup {NoSlot}
  /\ timers \subseteq Waiting \cup Closed

\* A search that waits, and that no other overlaps, has the entry.  If nothing
\* keeps it from a vector, hpm-embed has its query and runs; if it is to get
\* none but its own, hpm-embed has no other query.
AloneInv ==
  \A s \in Waiting :
    /\ s \notin excused \/ s \notin mixed => Waiting = {s} /\ entry = s
    /\ s \notin excused => Contains(inbox, s) /\ worker \notin {"none", "down"}
    /\ s \notin mixed => inbox = <<s>>

SearchInv == ReplyInv /\ ClosedInv /\ EntryInv /\ AloneInv /\ SearchIsSemantic

\* Steps that neither ask, answer nor give up a search, while a worker that runs
\* stays so.
LEMMA OthersKeepSearchInv ==
  ASSUME SearchInv, UNCHANGED <<reply, entry, timers, excused, mixed, inbox>>,
         server' = server \/ Closed = {} \/ server' = "ended",
         worker \notin {"none", "down"} => worker' \notin {"none", "down"}
  PROVE  SearchInv'
<1>1. UNCHANGED <<Waiting, Closed>>
  BY DEF Waiting, Closed
<1> QED
  BY <1>1 DEF SearchInv, ReplyInv, ClosedInv, EntryInv, AloneInv, SearchIsSemantic, Contains

\* The end of stdin leaves every search, a signal closes those that wait.
LEMMA StopKeepsSearchInv ==
  ASSUME SearchInv, StopServer
  PROVE  SearchInv'
<1>1. UNCHANGED <<entry, timers, excused, mixed, inbox, worker>> /\ server = "up"
      /\ server' = "stopping"
  BY DEF StopServer
<1>2. Closed = {} /\ reply \in [Slots -> Replies]
  BY <1>1 DEF SearchInv, ReplyInv, ClosedInv
<1>3. CASE transport # "http"
  <2>1. reply' = [s \in Slots |-> reply[s]]
    BY <1>3 DEF StopServer
  <2>2. reply' = reply
    BY <1>2, <2>1
  <2> QED  BY <1>1, <1>2, <2>2, OthersKeepSearchInv
<1>4. CASE transport = "http"
  <2>1. reply' = [s \in Slots |-> IF s \in Waiting THEN "closed" ELSE reply[s]]
    BY <1>4 DEF StopServer
  <2>2. Waiting' = {} /\ Closed' = Waiting
    BY <1>2, <2>1 DEF Waiting, Closed
  <2>3. ReplyInv'
    <3>1. reply' \in [Slots -> Replies]
      BY <1>2, <2>1 DEF Replies
    <3>2. ASSUME NEW c \in Calls, reply'[<<c, 1>>] = "unsent"
          PROVE  reply'[<<c, 2>>] = "unsent"
      <4>1. <<c, 1>> \in Slots /\ <<c, 2>> \in Slots
        BY DEF Slots
      <4>2. reply[<<c, 1>>] = "unsent"
        BY <2>1, <3>2, <4>1
      <4>3. reply[<<c, 2>>] = "unsent"
        BY <4>2, Zenon DEF SearchInv, ReplyInv
      <4> QED  BY <2>1, <4>1, <4>3 DEF Waiting
    <3> QED  BY <1>1, <3>1, <3>2 DEF SearchInv, ReplyInv
  <2>4. ClosedInv' /\ EntryInv' /\ AloneInv'
    BY <1>1, <1>2, <2>2 DEF SearchInv, ClosedInv, EntryInv, AloneInv
  <2>5. SearchIsSemantic'
    BY <1>1, <2>1 DEF SearchInv, SearchIsSemantic
  <2> QED  BY <2>3, <2>4, <2>5 DEF SearchInv
<1> QED  BY <1>3, <1>4

\* One search s is answered with result, and so waits no more.
LEMMA SettledKeepsSearchInv ==
  ASSUME SearchInv, NEW s \in Waiting \cup Closed,
         NEW result \in {"answered", "lexical", "crossed"},
         reply' = Answered(s, result),
         entry' = NoSlot, timers' = timers \ {s}, inbox' \in Seq(Slots),
         excused \subseteq excused', UNCHANGED <<server, mixed>>,
         s \in Waiting /\ result = "lexical" => s \in excused',
         s \in Waiting /\ result = "crossed" => s \in mixed
  PROVE  SearchInv'
<1>1. s \in Slots /\ reply \in [Slots -> Replies]
  BY DEF Waiting, Closed, SearchInv, ReplyInv
<1>2. Waiting' = Waiting \ {s} /\ Closed' = Closed
  BY <1>1 DEF Waiting, Closed, Answered
<1>3. ReplyInv'
  <2>1. reply' \in [Slots -> Replies]
    BY <1>1 DEF Answered, Replies
  <2>2. \A t \in Slots : (reply'[t] = "unsent") <=> (reply[t] = "unsent")
    BY <1>1 DEF Answered, Waiting
  <2>3. \A c \in Calls : <<c, 1>> \in Slots /\ <<c, 2>> \in Slots
    BY DEF Slots
  <2> QED  BY <2>1, <2>2, <2>3 DEF SearchInv, ReplyInv
<1>4. EntryInv' /\ ClosedInv'
  BY <1>2 DEF SearchInv, ClosedInv, EntryInv
<1>5. AloneInv'
  <2>1. \A t \in Waiting' : t \in excused /\ t \in mixed
    BY <1>2 DEF SearchInv, ClosedInv, AloneInv
  <2> QED  BY <2>1 DEF AloneInv
<1>6. SearchIsSemantic'
  BY <1>1 DEF SearchInv, SearchIsSemantic, Answered
<1> QED  BY <1>3, <1>4, <1>5, <1>6 DEF SearchInv

\* What handleMessage does with an answer, or rejectAll with the entry: whoever
\* has the entry is settled, and nobody waits without an excuse then.
LEMMA DeliverKeepsSearchInv ==
  ASSUME SearchInv, NEW result \in {"answered", "lexical", "crossed"}, NEW blame,
         Deliver(result, blame), inbox' \in Seq(Slots), UNCHANGED server,
         result = "lexical" => entry \in blame,
         entry \in Waiting /\ result = "crossed" => entry \in mixed
  PROVE  SearchInv'
<1>1. CASE entry = NoSlot
  <2>1. UNCHANGED <<reply, entry, timers, excused, mixed>>
    BY <1>1 DEF Deliver, searchVars
  <2>2. UNCHANGED <<Waiting, Closed>>
    BY <2>1 DEF Waiting, Closed
  <2>3. \A s \in Waiting : s \in excused /\ s \in mixed
    BY <1>1, SlotAssumption DEF SearchInv, AloneInv, Waiting
  <2>4. AloneInv'
    BY <2>1, <2>2, <2>3 DEF AloneInv
  <2> QED  BY <2>1, <2>2, <2>4 DEF SearchInv, ReplyInv, ClosedInv, EntryInv, SearchIsSemantic
<1>2. CASE entry # NoSlot
  <2>1. entry \in Waiting \cup Closed
    BY <1>2 DEF SearchInv, EntryInv
  <2> QED  BY <1>2, <2>1, SettledKeepsSearchInv DEF Deliver
<1> QED  BY <1>1, <1>2

\* An answer of hpm-embed: a search without an excuse gets its own vector.
LEMMA AnswerKeepsSearchInv ==
  ASSUME SearchInv, AnswerQuery
  PROVE  SearchInv'
<1>1. inbox' \in Seq(Slots) /\ inbox # <<>> /\ UNCHANGED server
  BY DEF AnswerQuery, SearchInv, ReplyInv, serverVars
<1>2. CASE Deliver(IF Head(inbox) = entry THEN "answered" ELSE "crossed", {})
  <2>1. entry \in Waiting /\ Head(inbox) # entry => entry \in mixed
    <3> SUFFICES ASSUME entry \in Waiting, entry \notin mixed  PROVE Head(inbox) = entry
      OBVIOUS
    <3>1. inbox = <<entry>>
      BY DEF SearchInv, AloneInv
    <3> QED  BY <3>1
  <2> QED  BY <1>1, <1>2, <2>1, DeliverKeepsSearchInv
<1>3. CASE Deliver("lexical", {entry})
  BY <1>1, <1>3, DeliverKeepsSearchInv
<1> QED  BY <1>2, <1>3 DEF AnswerQuery

\* The end of hpm-embed: the search that has the entry is excused.
LEMMA WorkerGoneKeepsSearchInv ==
  ASSUME SearchInv, WorkerGone
  PROVE  SearchInv'
<1>1. inbox' \in Seq(Slots) /\ Deliver("lexical", {entry}) /\ UNCHANGED server
  BY DEF WorkerGone, serverVars
<1> QED  BY <1>1, DeliverKeepsSearchInv

\* A search that no other has overlapped can be answered, so that its timeout is
\* hpm-embed's.
LEMMA TimeoutKeepsSearchInv ==
  ASSUME SearchInv, NEW s \in Slots, QueryTimeout(s)
  PROVE  SearchInv'
<1>1. s \in Waiting \cup Closed
  BY DEF QueryTimeout, SearchInv, EntryInv
<1>2. s \in Waiting /\ s \notin excused => ~Unanswerable(s)
  BY DEF SearchInv, AloneInv, Unanswerable
<1>3. excused \subseteq excused' /\ (s \in Waiting => s \in excused')
  BY <1>2 DEF QueryTimeout
<1>4. /\ reply' = Answered(s, "lexical") /\ entry' = NoSlot /\ timers' = timers \ {s}
      /\ inbox' \in Seq(Slots) /\ UNCHANGED <<server, mixed>>
  BY DEF QueryTimeout, SearchInv, ReplyInv, serverVars
<1> QED  BY <1>1, <1>3, <1>4, SettledKeepsSearchInv

-----------------------------------------------------------------------------
\* A query that is sent is in hpm-embed's input.
LEMMA AppendedIsContained ==
  ASSUME inbox \in Seq(Slots), NEW s \in Slots
  PROVE  Contains(inbox \o <<s>>, s)
<1>1. Len(inbox \o <<s>>) = Len(inbox) + 1 /\ (inbox \o <<s>>)[Len(inbox) + 1] = s
  OBVIOUS
<1>2. Len(inbox) + 1 \in 1..(Len(inbox) + 1)
  OBVIOUS
<1> QED  BY <1>1, <1>2 DEF Contains

\* What the queries of a call do to the engine: they are sent, their timeouts
\* are set, and the last one has the entry.
LEMMA EmbedShape ==
  ASSUME NEW c \in Calls, NEW asked \in SUBSET {<<c, 1>>, <<c, 2>>},
         inbox \in Seq(Slots), Embed(c, asked)
  PROVE  /\ inbox' \in Seq(Slots)
         /\ timers' = timers \cup asked
         /\ asked = {} => inbox' = inbox /\ entry' = entry
         /\ asked # {} => entry' \in asked
         /\ \A s \in asked : asked = {s} => /\ entry' = s /\ Contains(inbox', s)
                                            /\ inbox = <<>> => inbox' = <<s>>
<1>0. <<c, 1>> \in Slots /\ <<c, 2>> \in Slots /\ <<c, 1>> # <<c, 2>>
  BY DEF Slots
<1>1. CASE asked = {}
  <2>1. inbox' = inbox \o (<<>> \o <<>>) /\ entry' = entry /\ timers' = timers \cup asked
    BY <1>1 DEF Embed
  <2> QED  BY <1>1, <2>1
<1>2. CASE asked = {<<c, 1>>}
  <2> DEFINE queries == <<<<c, 1>>>> \o <<>>
  <2>1. inbox' = inbox \o queries /\ entry' = Last(queries) /\ timers' = timers \cup asked
    BY <1>0, <1>2 DEF Embed
  <2>2. queries = <<<<c, 1>>>> /\ queries \in Seq(Slots)
    BY <1>0
  <2>3. Last(queries) = <<c, 1>>
    BY <2>2 DEF Last
  <2>4. \A q \in Seq(Slots) : inbox \o q \in Seq(Slots) /\ (inbox = <<>> => inbox \o q = q)
    OBVIOUS
  <2>5. inbox' \in Seq(Slots) /\ (inbox = <<>> => inbox' = <<<<c, 1>>>>)
    BY <2>1, <2>2, <2>4, Zenon
  <2>6. Contains(inbox', <<c, 1>>)
    BY <1>0, <2>1, <2>2, AppendedIsContained, Zenon
  <2> QED  BY <1>2, <2>1, <2>3, <2>5, <2>6
<1>3. CASE asked = {<<c, 2>>}
  <2> DEFINE queries == <<>> \o <<<<c, 2>>>>
  <2>1. inbox' = inbox \o queries /\ entry' = Last(queries) /\ timers' = timers \cup asked
    BY <1>0, <1>3 DEF Embed
  <2>2. queries = <<<<c, 2>>>> /\ queries \in Seq(Slots)
    BY <1>0
  <2>3. Last(queries) = <<c, 2>>
    BY <2>2 DEF Last
  <2>4. \A q \in Seq(Slots) : inbox \o q \in Seq(Slots) /\ (inbox = <<>> => inbox \o q = q)
    OBVIOUS
  <2>5. inbox' \in Seq(Slots) /\ (inbox = <<>> => inbox' = <<<<c, 2>>>>)
    BY <2>1, <2>2, <2>4, Zenon
  <2>6. Contains(inbox', <<c, 2>>)
    BY <1>0, <2>1, <2>2, AppendedIsContained, Zenon
  <2> QED  BY <1>3, <2>1, <2>3, <2>5, <2>6
<1>4. CASE asked = {<<c, 1>>, <<c, 2>>}
  <2> DEFINE queries == <<<<c, 1>>>> \o <<<<c, 2>>>>
  <2>1. inbox' = inbox \o queries /\ entry' = Last(queries) /\ timers' = timers \cup asked
    BY <1>0, <1>4 DEF Embed
  <2>2. queries \in Seq(Slots) /\ Len(queries) = 2 /\ queries[2] = <<c, 2>>
    BY <1>0
  <2>3. Last(queries) = <<c, 2>>
    BY <2>2 DEF Last
  <2>4. \A q \in Seq(Slots) : inbox \o q \in Seq(Slots)
    OBVIOUS
  <2>5. inbox' \in Seq(Slots) /\ entry' = <<c, 2>>
    BY <2>1, <2>2, <2>3, <2>4, Zenon
  <2>6. \A s \in asked : asked # {s}
    BY <1>0, <1>4
  <2> QED  BY <1>4, <2>1, <2>5, <2>6
<1>5. asked = {} \/ asked = {<<c, 1>>} \/ asked = {<<c, 2>>} \/ asked = {<<c, 1>>, <<c, 2>>}
  OBVIOUS
<1> QED  BY <1>1, <1>2, <1>3, <1>4, <1>5, Zenon

\* The searches that a call asks overlap, or there is one of them and nobody waits.
LEMMA NotCrowded ==
  ASSUME NEW asked, IsFiniteSet(asked), NEW s \in asked, s \notin Crowded(asked)
  PROVE  asked = {s} /\ Waiting = {}
<1>1. Waiting = {} /\ ~(Cardinality(asked) > 1)
  BY DEF Crowded
<1>2. asked = {s}
  <2> SUFFICES ASSUME NEW t \in asked, t # s  PROVE FALSE
    OBVIOUS
  <2>1. IsFiniteSet({s}) /\ Cardinality({s}) = 1
    BY FS_Singleton
  <2>2. Cardinality({s} \cup {t}) = Cardinality({s}) + 1 /\ IsFiniteSet({s} \cup {t})
    BY <2>1, FS_AddElement, t \notin {s}
  <2>3. Cardinality({s} \cup {t}) <= Cardinality(asked)
    BY <2>2, FS_Subset
  <2>4. Cardinality(asked) \in Nat
    BY FS_CardinalityType
  <2> QED  BY <1>1, <2>1, <2>2, <2>3, <2>4
<1> QED  BY <1>1, <1>2

\* A call of one message or two, answered at once, or waiting for a vector.
LEMMA CallKeepsSearchInv ==
  ASSUME SearchInv, NEW c \in Calls, reply[<<c, 1>>] = "unsent",
         NEW answer \in [1..2 -> Replies \ {"unsent", "crossed", "closed"}],
         NEW asked \in SUBSET {<<c, 1>>, <<c, 2>>},
         \A i \in 1..2 : <<c, i>> \in asked <=> answer[i] = "encoding",
         reply' = [s \in Slots |-> IF s[1] = c THEN answer[s[2]] ELSE reply[s]],
         Embed(c, asked),
         worker' \in {worker, Ensured}, asked # {} => worker' \notin {"none", "down"},
         server = "up", UNCHANGED server,
         excused \cup Crowded(asked) \subseteq excused',
         mixed \cup Crowded(asked) \cup Following(asked) \subseteq mixed',
         \A i \in 1..2 : answer[i] = "lexical" => <<c, i>> \in excused'
  PROVE  SearchInv'
<1>0. inbox \in Seq(Slots)
  BY DEF SearchInv, ReplyInv
<1>1. /\ inbox' \in Seq(Slots)
      /\ timers' = timers \cup asked
      /\ asked = {} => inbox' = inbox /\ entry' = entry
      /\ asked # {} => entry' \in asked
      /\ \A s \in asked : asked = {s} => /\ entry' = s /\ Contains(inbox', s)
                                         /\ inbox = <<>> => inbox' = <<s>>
  BY <1>0, EmbedShape
<1>2. \A s \in Slots : s[1] \in Calls /\ s[2] \in 1..2 /\ s = <<s[1], s[2]>>
  BY DEF Slots
<1>3. \A i \in 1..2 : <<c, i>> \in Slots /\ <<c, i>>[1] = c /\ <<c, i>>[2] = i
  BY DEF Slots
<1>4. \A i \in 1..2 : reply[<<c, i>>] = "unsent"
  <2>1. reply[<<c, 2>>] = "unsent"
    BY Zenon DEF SearchInv, ReplyInv
  <2>2. \A i \in 1..2 : i = 1 \/ i = 2
    OBVIOUS
  <2> QED  BY <2>1, <2>2, Zenon
<1>5. \A s \in Slots : reply'[s] = IF s[1] = c THEN answer[s[2]] ELSE reply[s]
  OBVIOUS
<1>6. Waiting' = Waiting \cup asked
  BY <1>2, <1>3, <1>4, <1>5 DEF Waiting
<1>60. Closed = {} /\ Closed' = {}
  <2>1. Closed = {}
    BY DEF SearchInv, ClosedInv
  <2> QED  BY <1>2, <1>5, <2>1 DEF Closed
<1>7. ReplyInv'
  <2>1. reply' \in [Slots -> Replies]
    BY <1>2 DEF SearchInv, ReplyInv
  <2>2. ASSUME NEW d \in Calls, reply'[<<d, 1>>] = "unsent"  PROVE reply'[<<d, 2>>] = "unsent"
    <3>1. <<d, 1>> \in Slots /\ <<d, 2>> \in Slots
      BY DEF Slots
    <3>2. d # c /\ reply'[<<d, 1>>] = reply[<<d, 1>>]
      BY <1>5, <2>2, <3>1
    <3>3. reply'[<<d, 2>>] = reply[<<d, 2>>]
      BY <1>5, <3>1, <3>2
    <3> QED  BY <2>2, <3>2, <3>3 DEF SearchInv, ReplyInv
  <2> QED  BY <1>1, <2>1, <2>2 DEF ReplyInv
<1>8. EntryInv' /\ ClosedInv'
  BY <1>1, <1>6, <1>60 DEF SearchInv, EntryInv, ClosedInv
<1>9. AloneInv'
  <2> SUFFICES ASSUME NEW s \in Waiting'
               PROVE  /\ s \notin excused' \/ s \notin mixed' => Waiting' = {s} /\ entry' = s
                      /\ s \notin excused' =>
                           Contains(inbox', s) /\ worker' \notin {"none", "down"}
                      /\ s \notin mixed' => inbox' = <<s>>
    BY DEF AloneInv
  <2>1. CASE asked = {}
    <3>1. Waiting' = Waiting /\ entry' = entry /\ inbox' = inbox
      BY <1>1, <1>6, <2>1
    <3>2. excused \subseteq excused' /\ mixed \subseteq mixed'
      OBVIOUS
    <3>3. worker \notin {"none", "down"} => worker' = worker
      BY DEF Ensured
    <3> QED  BY <3>1, <3>2, <3>3 DEF SearchInv, AloneInv
  <2>2. CASE asked # {} /\ s \in Crowded(asked)
    BY <2>2
  <2>3. CASE asked # {} /\ s \notin Crowded(asked)
    <3>1. IsFiniteSet(asked)
      <4>1. IsFiniteSet({<<c, 1>>}) /\ IsFiniteSet({<<c, 1>>} \cup {<<c, 2>>})
        BY FS_Singleton, FS_AddElement
      <4>2. {<<c, 1>>} \cup {<<c, 2>>} = {<<c, 1>>, <<c, 2>>}
        OBVIOUS
      <4> QED  BY <4>1, <4>2, FS_Subset
    <3>2. s \in asked
      BY <1>6, <2>3 DEF Crowded
    <3>3. asked = {s} /\ Waiting = {}
      BY <2>3, <3>1, <3>2, NotCrowded
    <3>4. s \notin mixed' => inbox = <<>>
      BY <3>2 DEF Following
    <3> QED  BY <1>1, <1>6, <2>3, <3>2, <3>3, <3>4
  <2> QED  BY <2>1, <2>2, <2>3
<1>10. SearchIsSemantic'
  <2> SUFFICES ASSUME NEW s \in Slots
               PROVE  /\ reply'[s] = "lexical" => s \in excused'
                      /\ reply'[s] = "crossed" => s \in mixed'
    BY DEF SearchIsSemantic
  <2>1. CASE s[1] = c
    <3>1. reply'[s] = answer[s[2]] /\ s[2] \in 1..2 /\ s = <<c, s[2]>>
      BY <1>2, <1>5, <2>1
    <3>2. answer[s[2]] # "crossed"
      BY <3>1
    <3> QED  BY <3>1, <3>2
  <2>2. CASE s[1] # c
    BY <1>5, <2>2 DEF SearchInv, SearchIsSemantic
  <2> QED  BY <2>1, <2>2
<1> QED  BY <1>7, <1>8, <1>9, <1>10 DEF SearchInv

\* What a call starts, whatever its messages, its token and the stores are.
LEMMA ReceiveKeepsSearchInv ==
  ASSUME SearchInv, NEW c \in Calls, Receive(c)
  PROVE  SearchInv'
<1>1. PICK n \in IF transport = "http" /\ c \in Pairs THEN 1..2 ELSE {1},
           token \in IF transport = "http" THEN 0..tokens ELSE {envToken} :
         \E kinds \in [1..n -> Kinds] :
           LET tool(i)    == kinds[i] \in {"search", "recall"}
               reads      == token # 0 /\ cached = 0 /\ \E i \in 1..n : tool(i)
               allowed    == token # 0 /\ cached' = token
               answer     == [i \in 1..2 |-> IF i <= n THEN FirstReply(kinds[i], allowed)
                                                       ELSE "silent"]
               got(reply_) == {<<c, i>> : i \in {j \in 1..n : answer[j] = reply_}}
               searches   == allowed /\ \E i \in 1..n : kinds[i] = "search"
           IN  /\ cached' \in IF reads THEN Verifiers ELSE {cached}
               /\ reply' = [s \in Slots |-> IF s[1] = c THEN answer[s[2]] ELSE reply[s]]
               /\ Embed(c, got("encoding"))
               /\ worker' = IF searches THEN Ensured ELSE worker
               /\ excused' = excused \cup Crowded(got("encoding")) \cup got("lexical")
               /\ mixed' = mixed \cup Crowded(got("encoding")) \cup Following(got("encoding"))
  BY Zenon DEF Receive
<1>2. n \in 1..2
  OBVIOUS
<1> DEFINE allowed == token # 0 /\ cached' = token
<1>3. PICK kinds \in [1..n -> Kinds] :
        LET answer == [i \in 1..2 |-> IF i <= n THEN FirstReply(kinds[i], allowed) ELSE "silent"]
            got(reply_) == {<<c, i>> : i \in {j \in 1..n : answer[j] = reply_}}
        IN  /\ reply' = [s \in Slots |-> IF s[1] = c THEN answer[s[2]] ELSE reply[s]]
            /\ Embed(c, got("encoding"))
            /\ worker' = IF allowed /\ \E i \in 1..n : kinds[i] = "search"
                         THEN Ensured ELSE worker
            /\ excused' = excused \cup Crowded(got("encoding")) \cup got("lexical")
            /\ mixed' = mixed \cup Crowded(got("encoding")) \cup Following(got("encoding"))
  BY <1>1, Zenon
<1> DEFINE answer == [i \in 1..2 |-> IF i <= n THEN FirstReply(kinds[i], allowed) ELSE "silent"]
           got(reply_) == {<<c, i>> : i \in {j \in 1..n : answer[j] = reply_}}
           asked == got("encoding")
<1>4. \A kind, permitted : FirstReply(kind, permitted) \in Replies \ {"unsent", "crossed", "closed"}
  BY DEF FirstReply, Replies
<1>5. answer \in [1..2 -> Replies \ {"unsent", "crossed", "closed"}]
  BY <1>4, "silent" \in Replies \ {"unsent", "crossed", "closed"} DEF Replies
<1>6. \A i \in 1..2 : answer[i] \in {"encoding", "lexical"} => i \in 1..n
  BY <1>2
<1>7. asked = {<<c, i>> : i \in {j \in 1..2 : answer[j] = "encoding"}}
  BY <1>2, <1>6
<1>8. asked \in SUBSET {<<c, 1>>, <<c, 2>>}
  <2> HIDE DEF asked, answer
  <2> QED  BY <1>7
<1>9. \A i \in 1..2 : <<c, i>> \in asked <=> answer[i] = "encoding"
  <2> HIDE DEF asked, answer
  <2> QED  BY <1>7
<1>10. \A i \in 1..2 : answer[i] = "lexical" => <<c, i>> \in excused'
  BY <1>2, <1>3, <1>6
<1>11. \A kind \in Kinds, permitted \in BOOLEAN :
         FirstReply(kind, permitted) = "encoding" =>
           permitted /\ kind = "search" /\ Ensured \notin {"none", "down"}
  BY KindsAssumption DEF FirstReply
<1>12. asked # {} => worker' \notin {"none", "down"}
  <2> SUFFICES ASSUME NEW i \in 1..n, answer[i] = "encoding"
               PROVE  worker' \notin {"none", "down"}
    OBVIOUS
  <2>1. FirstReply(kinds[i], allowed) = "encoding" /\ kinds[i] \in Kinds
    BY <1>2
  <2>2. allowed /\ kinds[i] = "search" /\ Ensured \notin {"none", "down"}
    BY <1>11, <2>1
  <2> QED  BY <1>3, <2>2
<1>13. /\ excused \cup Crowded(asked) \subseteq excused'
       /\ mixed \cup Crowded(asked) \cup Following(asked) \subseteq mixed'
       /\ worker' \in {worker, Ensured}
  BY <1>3
<1>14. Embed(c, asked) /\ reply' = [s \in Slots |-> IF s[1] = c THEN answer[s[2]] ELSE reply[s]]
  BY <1>3
<1>15. reply[<<c, 1>>] = "unsent" /\ server = "up" /\ UNCHANGED server
  BY DEF Receive
<1> HIDE DEF answer, asked
<1>16. SearchInv /\ c \in Calls
  OBVIOUS
<1> QED
  BY <1>5, <1>8, <1>9, <1>10, <1>12, <1>13, <1>14, <1>15, <1>16, CallKeepsSearchInv, ZenonT(30)

\* A search goes without a vector only if another one overlaps it, or if
\* hpm-embed is missing, fails, dies or is too slow; it gets another query's only
\* if one overlaps it, or if hpm-embed still has a query that was given up
\* (SearchIsSemantic).  What searches that are over left in `pending` and among
\* the timers takes nothing from it.
THEOREM SearchesAreSemantic == FairSpec => []SearchIsSemantic
<1>1. Init => SearchInv
  <2> SUFFICES ASSUME Init  PROVE SearchInv
    OBVIOUS
  <2>1. reply \in [Slots -> Replies] /\ \A s \in Slots : reply[s] = "unsent"
    BY DEF Init, Replies
  <2>2. Waiting = {}
    BY <2>1 DEF Waiting
  <2>0. \A c \in Calls : <<c, 2>> \in Slots
    BY DEF Slots
  <2>4. ReplyInv
    BY <2>1, <2>0 DEF Init, ReplyInv
  <2>3. Closed = {}
    BY <2>1 DEF Closed
  <2> QED
    BY <2>1, <2>2, <2>3, <2>4
    DEF Init, SearchInv, ClosedInv, EntryInv, AloneInv, SearchIsSemantic
<1>2. SearchInv /\ [Next]_vars => SearchInv'
  <2> SUFFICES ASSUME SearchInv, [Next]_vars  PROVE SearchInv'
    OBVIOUS
  <2>1. CASE UNCHANGED vars
    BY <2>1, OthersKeepSearchInv DEF vars, mcpVars, searchVars, serverVars
  <2>2. ASSUME NEW c \in Calls, Receive(c)  PROVE SearchInv'
    BY <2>2, ReceiveKeepsSearchInv
  <2>3. CASE AnswerQuery
    BY <2>3, AnswerKeepsSearchInv
  <2>4. ASSUME NEW s \in Slots, QueryTimeout(s)  PROVE SearchInv'
    BY <2>4, TimeoutKeepsSearchInv
  <2>5. CASE StopEncoder \/ WorkerDies
    BY <2>5, WorkerGoneKeepsSearchInv DEF StopEncoder, WorkerDies
  <2>6. CASE StartServer
    <3>1. Closed = {}
      BY <2>6 DEF StartServer, SearchInv, ClosedInv
    <3> QED  BY <2>6, <3>1, OthersKeepSearchInv DEF StartServer, searchVars, Ensured
  <2>7. CASE LoadModel
    BY <2>7, OthersKeepSearchInv DEF LoadModel, searchVars, serverVars
  <2>8. CASE EndServer \/ InstallBinary
    BY <2>8, OthersKeepSearchInv DEF EndServer, InstallBinary, searchVars
  <2>9. CASE Administer
    BY <2>9, OthersKeepSearchInv DEF Administer, mcpVars, searchVars, serverVars
  <2>10. CASE StopServer
    BY <2>10, StopKeepsSearchInv
  <2> QED  BY <2>1, <2>2, <2>3, <2>4, <2>5, <2>6, <2>7, <2>8, <2>9, <2>10 DEF Next
<1>3. SearchInv => SearchIsSemantic
  BY DEF SearchInv
<1> QED  BY <1>1, <1>2, <1>3, PTL DEF FairSpec
=============================================================================
