------------------------------- MODULE McpServer -------------------------------
(***************************************************************************)
(* `hpm mcp`, the read-only server of the captured history:                *)
(*   mcp/server.ts       requests, tools and the query encoder             *)
(*   mcp/protocol.ts     stdin and stdout                                  *)
(*   mcp/auth.ts         the cached verifier (the stores are McpAuth)      *)
(*   process/embeddings/local.ts  the server's own hpm-embed               *)
(* A call is a message on stdin or a POST with one message or two; a slot  *)
(* is a message of it.  A handler runs without a pause up to the wait for  *)
(* a query's vector, so what a call starts is one step, and what an answer *)
(* of hpm-embed starts is one step.  Every query has the id 'query', so    *)
(* the engine's `pending` map has one entry at most.  What a tool finds in *)
(* the index is in HistoryViews.                                           *)
(***************************************************************************)
EXTENDS McpAuth, FiniteSets, SequencesExt

CONSTANTS
  Calls,
  Pairs,         \* calls that may be a batch of two messages
  Transports,    \* of "stdio", "http"
  Kinds,         \* of "search", "recall", "notify", "other"
  WorkerFaults,  \* of "answersError", "dies", "slow"
  MaxFaults,     \* bound on these
  NoSlot

VARIABLES
  transport, server,  \* server: "off", "up", "stopping", "ended"
  envToken,           \* HPM_MCP_TOKEN of a stdio server, or 0
  cached,             \* the verifier CachedMcpAuthStore has kept, or 0
  reply,              \* slot -> "unsent", "encoding", or how it was answered
  binary,             \* hpm-embed is installed
  worker,             \* the server's hpm-embed: "none", "loading", "ready", "failed", "down"
  inbox,              \* queries it has not answered
  entry,              \* the entry of `pending`: the search it resolves, or NoSlot
  timers,             \* searches whose timeout is set
  excused,            \* history: searches that may go without a vector
  mixed,              \* history: searches that may get another one's vector
  workerFaults

serverVars == <<transport, server, envToken, cached, binary>>
searchVars == <<reply, entry, timers, excused, mixed>>
mcpVars == <<serverVars, searchVars, worker, inbox, workerFaults>>
vars == <<authVars, mcpVars>>

Slots == Calls \X (1..2)

ASSUME SlotAssumption == NoSlot \notin Slots
ASSUME KindsAssumption == Kinds \subseteq {"search", "recall", "notify", "other"}

Waiting == {s \in Slots : reply[s] = "encoding"}
Fault(name) ==
  /\ name \in WorkerFaults
  /\ workerFaults < MaxFaults
  /\ workerFaults' = workerFaults + 1

Init ==
  /\ AuthInit
  /\ transport \in Transports /\ server = "off"
  /\ envToken = 0 /\ cached = 0
  /\ reply = [s \in Slots |-> "unsent"]
  /\ binary \in BOOLEAN
  /\ worker = "none" /\ inbox = <<>> /\ entry = NoSlot /\ timers = {}
  /\ excused = {} /\ mixed = {} /\ workerFaults = 0

-----------------------------------------------------------------------------
\* makeQueryEncoder.ensure: one engine for the life of the server; a start that
\* fails is tried again by the next query.
Ensured == IF worker = "none" /\ binary THEN "loading" ELSE worker

\* The verifier a read finds, when the keychain answers or when it does not.
Verifiers == {FirstVerifier(readable) : readable \in {hasKeychain, FALSE}}

\* startMcpServer: the token is read once, the check behind the warnings keeps
\* the verifier if there is one, and the engine is warmed.
StartServer ==
  /\ server = "off"
  /\ server' = "up"
  /\ envToken' \in IF transport = "stdio" THEN 0..tokens ELSE {0}
  /\ cached' \in Verifiers
  /\ worker' = Ensured
  /\ UNCHANGED <<authVars, transport, binary, searchVars, inbox, workerFaults>>

\* handleMessage up to its first wait.
FirstReply(kind, allowed) ==
  CASE kind = "notify" -> "silent"
    [] kind = "other" -> "answered"
    [] OTHER -> IF ~allowed THEN "refused"
                ELSE IF kind = "recall" THEN "answered"
                ELSE IF Ensured \in {"none", "down"} THEN "lexical"
                ELSE "encoding"

\* LocalEmbedding.embed for each of the searches, in the order of the messages:
\* every one overwrites the entry of the one before.
Embed(c, asked) ==
  LET query(i) == IF <<c, i>> \in asked THEN <<<<c, i>>>> ELSE <<>>
      queries  == query(1) \o query(2)
  IN  /\ inbox' = inbox \o queries
      /\ entry' = IF asked = {} THEN entry ELSE Last(queries)
      /\ timers' = timers \cup asked

\* Searches that overlap.
Crowded(asked) ==
  IF asked # {} /\ (Waiting # {} \/ Cardinality(asked) > 1) THEN Waiting \cup asked ELSE {}

\* Searches asked while hpm-embed still has the query of one that was given up.
Following(asked) == IF inbox # <<>> THEN asked ELSE {}

\* StdioJsonRpc.drain hands over one message, or fetch handles a POST to /mcp.
\* The first tools/call with a token reads the verifier, and keeps it.
Receive(c) ==
  /\ server = "up"
  /\ reply[<<c, 1>>] = "unsent"
  /\ \E n \in IF transport = "http" /\ c \in Pairs THEN 1..2 ELSE {1},
        token \in IF transport = "http" THEN 0..tokens ELSE {envToken} :
       \E kinds \in [1..n -> Kinds] :
         LET tool(i)    == kinds[i] \in {"search", "recall"}
             reads      == token # 0 /\ cached = 0 /\ \E i \in 1..n : tool(i)
             allowed    == token # 0 /\ cached' = token
             answer     == [i \in 1..2 |-> IF i <= n THEN FirstReply(kinds[i], allowed)
                                                     ELSE "silent"]
             got(reply_) == {<<c, i>> : i \in {j \in 1..n : answer[j] = reply_}}
             searches   == allowed /\ \E i \in 1..n : kinds[i] = "search"
         IN  /\ cached' \in IF reads THEN Verifiers ELSE {cached}
             /\ reply' = [s \in Slots |-> IF s[1] = c THEN answer[s[2]] ELSE reply[s]]
             /\ Embed(c, got("encoding"))
             /\ worker' = IF searches THEN Ensured ELSE worker
             /\ excused' = excused \cup Crowded(got("encoding")) \cup got("lexical")
             /\ mixed' = mixed \cup Crowded(got("encoding")) \cup Following(got("encoding"))
  /\ UNCHANGED <<authVars, transport, server, envToken, binary, workerFaults>>

-----------------------------------------------------------------------------
\* A response over a connection that is closed reaches nobody.
Answered(s, result) == IF s \in Waiting THEN [reply EXCEPT ![s] = result] ELSE reply

\* Mutant: the timeout of a search that was answered is not cleared.
Deliver_TimerLeft(result, blame) ==
  IF entry = NoSlot THEN UNCHANGED searchVars
  ELSE /\ reply' = Answered(entry, result)
       /\ entry' = NoSlot
       /\ excused' = excused \cup blame
       /\ UNCHANGED <<timers, mixed>>

\* handleMessage of an answer: it finds the entry, whichever search that is of.
\* The search then reads the index with the vector or, after an error, without.
Deliver(result, blame) ==
  IF entry = NoSlot THEN UNCHANGED searchVars
  ELSE /\ reply' = Answered(entry, result)
       /\ entry' = NoSlot
       /\ timers' = timers \ {entry}
       /\ excused' = excused \cup blame
       /\ UNCHANGED mixed

\* hpm-embed answers its next query: a vector of that query's text, or an error.
AnswerQuery ==
  /\ worker \in {"ready", "failed"}
  /\ inbox # <<>>
  /\ inbox' = Tail(inbox)
  /\ \/ /\ worker = "ready"
        /\ Deliver(IF Head(inbox) = entry THEN "answered" ELSE "crossed", {})
        /\ UNCHANGED workerFaults
     \/ /\ worker = "failed"
        /\ Deliver("lexical", {entry})
        /\ UNCHANGED workerFaults
     \/ /\ worker = "ready"
        /\ Fault("answersError")
        /\ Deliver("lexical", {entry})
  /\ UNCHANGED <<authVars, serverVars, worker>>

LoadModel ==
  /\ worker = "loading"
  /\ worker' \in {"ready", "failed"}
  /\ UNCHANGED <<authVars, serverVars, searchVars, inbox, workerFaults>>

\* No answer can come for s: another search has its entry, or its answer has
\* gone to another one.
Unanswerable(s) == entry # s \/ ~Contains(inbox, s)

\* Mutant: only the search that has the entry is given up.
QueryTimeout_OwnEntry(s) ==
  /\ s \in timers /\ s = entry
  /\ \/ (Unanswerable(s) \/ worker = "loading") /\ UNCHANGED workerFaults
     \/ Fault("slow")
  /\ timers' = timers \ {s}
  /\ entry' = NoSlot
  /\ reply' = Answered(s, "lexical")
  /\ excused' = excused \cup {s}
  /\ UNCHANGED <<authVars, serverVars, mixed, worker, inbox>>

\* The 60 s of a search are over: nothing could answer it, its model loads for
\* longer, or hpm-embed is too slow.  The timeout deletes the entry of the id
\* that all searches share, so one that has taken it over is not answered either.
QueryTimeout(s) ==
  /\ s \in timers
  /\ \/ Unanswerable(s) /\ UNCHANGED <<workerFaults, excused>>
     \/ ~Unanswerable(s) /\ worker = "loading" /\ excused' = excused \cup {s}
        /\ UNCHANGED workerFaults
     \/ ~Unanswerable(s) /\ worker # "loading" /\ excused' = excused \cup {s}
        /\ Fault("slow")
  /\ timers' = timers \ {s}
  /\ entry' = NoSlot
  /\ reply' = Answered(s, "lexical")
  /\ UNCHANGED <<authVars, serverVars, mixed, worker, inbox>>

\* The process ends: rejectAll knows the entry, not the searches it replaced.
WorkerGone ==
  /\ worker \in {"loading", "ready", "failed"}
  /\ worker' = "down"
  /\ inbox' = <<>>
  /\ Deliver("lexical", {entry})
  /\ UNCHANGED <<authVars, serverVars>>

WorkerDies == Fault("dies") /\ WorkerGone

-----------------------------------------------------------------------------
\* The end of stdin, or a signal to an HTTP server: server.stop(true) closes the
\* connections, those of searches under way too; entry and timers stay.
StopServer ==
  /\ server = "up"
  /\ server' = "stopping"
  /\ reply' = [s \in Slots |-> IF transport = "http" /\ s \in Waiting THEN "closed"
                                                                      ELSE reply[s]]
  /\ UNCHANGED <<authVars, transport, envToken, cached, binary, entry, timers, excused, mixed,
                 worker, inbox, workerFaults>>

\* encoder.stop: hpm-embed ends when it reads the shutdown, or it is killed.
StopEncoder ==
  /\ server = "stopping"
  /\ WorkerGone
  /\ UNCHANGED workerFaults

\* The process ends when nothing keeps its event loop alive.
EndServer ==
  /\ server = "stopping"
  /\ worker \in {"none", "down"} /\ timers = {}
  /\ server' = "ended"
  /\ UNCHANGED <<authVars, transport, envToken, cached, binary, searchVars, worker, inbox,
                 workerFaults>>

\* A build puts hpm-embed where ready() finds it.
InstallBinary ==
  /\ ~binary /\ binary' = TRUE
  /\ UNCHANGED <<authVars, transport, server, envToken, cached, searchVars, worker, inbox,
                 workerFaults>>

Administer == AuthStep /\ UNCHANGED mcpVars

Next ==
  \/ StartServer \/ StopServer \/ StopEncoder \/ EndServer
  \/ \E c \in Calls : Receive(c)
  \/ AnswerQuery \/ LoadModel \/ WorkerDies
  \/ \E s \in Slots : QueryTimeout(s)
  \/ InstallBinary \/ Administer

\* Timeouts fire, and hpm-embed answers when it can.
FairSpec ==
  /\ Init /\ [][Next]_vars
  /\ WF_vars(AnswerQuery)
  /\ WF_vars(\E s \in Slots : QueryTimeout(s))

-----------------------------------------------------------------------------
\* A search goes without a vector (makeQueryEncoder.encode) only if another one
\* overlaps it, if hpm-embed is missing, fails, dies or takes longer than 60 s.
\* It gets another query's vector only if another search overlaps it, or if
\* hpm-embed still has a query that was given up: the late answer of that one is
\* taken for its own, and so on until a search is asked of an idle hpm-embed.
\* Timeouts and entries of searches that are over take nothing from it.
SearchIsSemantic ==
  \A s \in Slots :
    /\ reply[s] = "lexical" => s \in excused
    /\ reply[s] = "crossed" => s \in mixed

\* Every call that the server has read is answered in the end, each search of it,
\* also when its entry is overwritten, when hpm-embed dies or while its model
\* loads for ever, and also after the end of stdin; only a signal to an HTTP
\* server closes the connection before.
RequestsAnswered ==
  \A c \in Calls :
    reply[<<c, 1>>] # "unsent" ~>
      \/ \A i \in 1..2 : reply[<<c, i>>] \notin {"unsent", "encoding", "closed"}
      \/ transport = "http" /\ \E i \in 1..2 : reply[<<c, i>>] = "closed"

\* What the comment of QueryEncoder promises (server.ts:197-199): a vector of the
\* search's own text, or none.  The code breaks it, see the run mcp_crossed.
EncodesOwnQuery == \A s \in Slots : reply[s] # "crossed"

\* However the steps of setups and rotations interleave, what is read first is
\* the verifier of the token stored last, in the keychain or in the file; an
\* invocation that the keychain refused takes nothing from what it holds.
NewestTokenStored == FirstVerifier(hasKeychain) = newest
=============================================================================
