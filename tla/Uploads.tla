------------------------------- MODULE Uploads -------------------------------
(***************************************************************************)
(* Chunked uploads: the browser (chunkedUpload.ts) slices a file and sends *)
(* the slices one after another, each up to three times; the backend       *)
(* (uploadStaging.ts) appends them to a .part file and hands the finished  *)
(* file to the route that asked for it.  A connection may break while its  *)
(* request goes on to the backend, so an attempt and its retry may both be *)
(* there; appends of one session queue on its chain.                       *)
(*                                                                         *)
(* The slice is the unit of data: the file is the slices 0 .. Slices - 1,  *)
(* `received` counts slices, and Scrap is a piece of a slice.              *)
(***************************************************************************)
EXTENDS Naturals, Sequences, FiniteSets

CONSTANTS
  Upload,       \* upload sessions, one per call of uploadInChunks
  Slices,       \* slices of the file
  MaxAttempts,  \* MAX_ATTEMPTS_PER_CHUNK
  MaxTrouble,   \* bound: broken connections and failed writes of an upload
  TornWrites    \* whether a failed write may leave a piece of its slice behind

ASSUME CountAssumption ==
  Slices \in Nat \ {0} /\ MaxAttempts \in Nat \ {0} /\ MaxTrouble \in Nat
ASSUME TornAssumption == TornWrites \in BOOLEAN

VARIABLES
  browser,   \* [Upload -> where uploadInChunks is: the slice, its attempt]
  net,       \* [Upload -> requests on their way]
  session,   \* [Upload -> the StagedUpload; `live`: it is in the map `uploads`]
  chain,     \* [Upload -> the requests whose appends are queued]
  writer,    \* [Upload -> where the appendFile of the chain's head is]
  file,      \* [Upload -> the .part file]
  removing,  \* [Upload -> whether a removal of the .part file is under way]
  use,       \* [Upload -> the consumer that claimed the file]
  given,     \* [Upload -> the file the consumer renamed into place]
  trouble,   \* [Upload -> broken connections and failed writes so far]
  recreated, \* history: [Upload -> an append made the .part file anew]
  cut        \* history: [Upload -> ended by a tab, a clock, a crash or a refusal]

vars == <<browser, net, session, chain, writer, file, removing, use, given,
          trouble, recreated, cut>>

Slice == 0..(Slices - 1)
Scrap == Slices
Piece == Slice \cup {Scrap}
Whole == [k \in 1..Slices |-> k - 1]

Request == [kind: {"chunk", "complete", "claim", "discard"}, index: Slice,
            attempt: 0..(MaxAttempts - 1)]
Chunk(i, a) == [kind |-> "chunk", index |-> i, attempt |-> a]
Bare(kind)  == [kind |-> kind, index |-> 0, attempt |-> 0]

Waiting == {"chunk", "complete", "claim"}
Ended   == {"done", "failed", "left"}
Browser == [pc: {"idle", "send"} \cup Waiting \cup Ended, index: 0..Slices,
            attempt: 0..(MaxAttempts - 1)]

StagedUpload == [live: BOOLEAN, received: 0..Slices, nextIndex: 0..Slices, complete: BOOLEAN]

NoFile     == [there |-> FALSE, data |-> <<>>]
NoSession  == [live |-> FALSE, received |-> 0, nextIndex |-> 0, complete |-> FALSE]
NewSession == [live |-> TRUE, received |-> 0, nextIndex |-> 0, complete |-> FALSE]

Init ==
  /\ browser  = [u \in Upload |-> [pc |-> "idle", index |-> 0, attempt |-> 0]]
  /\ net      = [u \in Upload |-> {}]
  /\ session  = [u \in Upload |-> NoSession]
  /\ chain    = [u \in Upload |-> <<>>]
  /\ writer   = [u \in Upload |-> "none"]
  /\ file     = [u \in Upload |-> NoFile]
  /\ removing = [u \in Upload |-> FALSE]
  /\ use      = [u \in Upload |-> "none"]
  /\ given    = [u \in Upload |-> <<>>]
  /\ trouble  = [u \in Upload |-> 0]
  /\ recreated = [u \in Upload |-> FALSE]
  /\ cut      = [u \in Upload |-> FALSE]

Set(f, u, value) == [f EXCEPT ![u] = value]

-----------------------------------------------------------------------------
\* The browser.

\* The request it waits for.
Current(b) == IF b.pc = "chunk" THEN Chunk(b.index, b.attempt) ELSE Bare(b.pc)

\* What it does next when that request succeeds, and when it fails.
Succeed(b) ==
  CASE b.pc = "chunk"    -> [pc |-> "send", index |-> b.index + 1, attempt |-> 0]
    [] b.pc = "complete" -> [b EXCEPT !.pc = "claim"]
    [] OTHER             -> [b EXCEPT !.pc = "done"]

\* Broken on purpose (for UploadsEnd): an attempt too few.
MayRetryOnceLess(b) == b.pc = "chunk" /\ b.attempt + 2 < MaxAttempts
MayRetry(b) == b.pc = "chunk" /\ b.attempt + 1 < MaxAttempts

Fail(b) ==
  IF MayRetry(b) THEN [b EXCEPT !.pc = "send", !.attempt = @ + 1]
                 ELSE [b EXCEPT !.pc = "failed"]

\* The requests these send: the claim by the page, the DELETE by uploadInChunks.
Sends(b, ok) ==
  IF ok THEN (IF b.pc = "complete" THEN {Bare("claim")} ELSE {})
        ELSE (IF b.pc \in {"chunk", "complete"} /\ ~MayRetry(b) THEN {Bare("discard")} ELSE {})

\* The answer to r reaches the browser if it still waits for it; `rest` is
\* what is on its way apart from r.
Reply(u, r, ok, rest) ==
  LET b      == browser[u]
      heard  == b.pc \in Waiting /\ r = Current(b)
  IN  /\ browser' = IF heard THEN Set(browser, u, IF ok THEN Succeed(b) ELSE Fail(b)) ELSE browser
      /\ net' = Set(net, u, IF heard THEN rest \cup Sends(b, ok) ELSE rest)

SendChunk(u) ==
  LET b == browser[u] IN
  /\ b.pc = "send"
  /\ \/ /\ b.index < Slices
        /\ browser' = [browser EXCEPT ![u].pc = "chunk"]
        /\ net' = [net EXCEPT ![u] = @ \cup {Chunk(b.index, b.attempt)}]
     \/ /\ b.index = Slices
        /\ browser' = [browser EXCEPT ![u].pc = "complete"]
        /\ net' = [net EXCEPT ![u] = @ \cup {Bare("complete")}]
  /\ UNCHANGED <<session, chain, writer, file, removing, use, given, trouble, recreated, cut>>

\* A connection breaks: the request may still arrive, or never.
ConnectionBreaks(u) ==
  LET b == browser[u] IN
  /\ b.pc \in Waiting /\ trouble[u] < MaxTrouble
  /\ \E rest \in {net[u], net[u] \ {Current(b)}}: Reply(u, Current(b), FALSE, rest)
  /\ trouble' = [trouble EXCEPT ![u] = @ + 1]
  /\ cut' = [cut EXCEPT ![u] = @ \/ b.pc # "chunk"]
  /\ UNCHANGED <<session, chain, writer, file, removing, use, given, recreated>>

\* The DELETE of a failed upload is sent once, and may be lost.
DiscardLost(u) ==
  /\ Bare("discard") \in net[u] /\ trouble[u] < MaxTrouble
  /\ net' = [net EXCEPT ![u] = @ \ {Bare("discard")}]
  /\ trouble' = [trouble EXCEPT ![u] = @ + 1]
  /\ UNCHANGED <<browser, session, chain, writer, file, removing, use, given, recreated, cut>>

\* The tab is closed; nothing tells the backend.
TabCloses(u) ==
  /\ browser[u].pc \in Waiting \cup {"send"}
  /\ browser' = [browser EXCEPT ![u].pc = "left"]
  /\ cut' = Set(cut, u, TRUE)
  /\ UNCHANGED <<net, session, chain, writer, file, removing, use, given, trouble, recreated>>

-----------------------------------------------------------------------------
\* The backend's handlers.

\* beginUpload; its answer may be lost, and then nobody knows the id.
BeginUpload(u) ==
  /\ browser[u].pc = "idle"
  /\ \E pc \in {"send", "failed"}:
       /\ browser' = [browser EXCEPT ![u].pc = pc]
       /\ cut' = Set(cut, u, pc = "failed")
  /\ session' = [session EXCEPT ![u] = NewSession]
  /\ file' = [file EXCEPT ![u] = [there |-> TRUE, data |-> <<>>]]
  /\ UNCHANGED <<net, chain, writer, removing, use, given, trouble, recreated>>

\* Too large, or no room on the disk.
BeginRefused(u) ==
  /\ browser[u].pc = "idle"
  /\ browser' = [browser EXCEPT ![u].pc = "failed"]
  /\ cut' = Set(cut, u, TRUE)
  /\ UNCHANGED <<net, session, chain, writer, file, removing, use, given, trouble, recreated>>

Accepts(s) == s.live /\ ~s.complete

\* appendChunk up to the await: refused at once, or queued on the chain.
ChunkArrives(u) ==
  \E r \in net[u]:
    /\ r.kind = "chunk"
    /\ \/ /\ Accepts(session[u])
          /\ chain' = [chain EXCEPT ![u] = Append(@, r)]
          /\ net' = [net EXCEPT ![u] = @ \ {r}]
          /\ UNCHANGED browser
       \/ /\ ~Accepts(session[u])
          /\ Reply(u, r, FALSE, net[u] \ {r})
          /\ UNCHANGED chain
    /\ UNCHANGED <<session, writer, file, removing, use, given, trouble, recreated, cut>>

\* The head of the chain leaves it with an answer.
Answer(u, ok) ==
  /\ Reply(u, Head(chain[u]), ok, net[u])
  /\ chain' = [chain EXCEPT ![u] = Tail(@)]

HeadIs(u, at) == chain[u] # <<>> /\ writer[u] = at

\* Broken on purpose (for SentIsStored and Assembled): the slice that is due
\* counts as stored; a repeated one does not.
RepeatsTooMuch(s, r) == r.index <= s.nextIndex
RepeatsNever(s, r)   == FALSE
Repeats(s, r)   == r.index < s.nextIndex
OutOfTurn(s, r) == r.index > s.nextIndex \/ s.received + 1 > Slices

Storable(s, r) == ~Repeats(s, r) /\ ~OutOfTurn(s, r)

\* The append's turn comes: a slice stored before is a no-op; one that is not
\* the next, or is more than the file declared, is refused.
AppendReturns(u) ==
  /\ HeadIs(u, "none") /\ ~Storable(session[u], Head(chain[u]))
  /\ Answer(u, Repeats(session[u], Head(chain[u])))
  /\ UNCHANGED <<session, writer, file, removing, use, given, trouble, recreated, cut>>

\* appendFile opens the file, creating it if it is not there.
AppendOpens(u) ==
  /\ HeadIs(u, "none") /\ Storable(session[u], Head(chain[u]))
  /\ writer' = Set(writer, u, "open")
  /\ file' = [file EXCEPT ![u].there = TRUE]
  /\ recreated' = [recreated EXCEPT ![u] = @ \/ ~file[u].there]
  /\ UNCHANGED <<browser, net, session, chain, removing, use, given, trouble, cut>>

\* What it wrote into a file that was removed meanwhile is gone with it.
AppendWrites(u) ==
  /\ writer[u] \in {"open", "detached"}
  /\ writer' = Set(writer, u, "written")
  /\ file' = IF writer[u] = "open"
             THEN [file EXCEPT ![u].data = Append(@, Head(chain[u]).index)] ELSE file
  /\ UNCHANGED <<browser, net, session, chain, removing, use, given, trouble, recreated, cut>>

Leftovers(u) == {<<>>} \cup (IF TornWrites /\ writer[u] = "open" THEN {<<Scrap>>} ELSE {})

AppendFails(u) ==
  /\ writer[u] \in {"open", "detached"} /\ trouble[u] < MaxTrouble
  /\ \E left \in Leftovers(u): file' = [file EXCEPT ![u].data = @ \o left]
  /\ Answer(u, FALSE)
  /\ writer' = Set(writer, u, "none")
  /\ trouble' = [trouble EXCEPT ![u] = @ + 1]
  /\ UNCHANGED <<session, removing, use, given, recreated, cut>>

Stored(s) == [s EXCEPT !.received = @ + 1, !.nextIndex = @ + 1]

AppendDone(u) ==
  /\ HeadIs(u, "written")
  /\ session' = [session EXCEPT ![u] = Stored(@)]
  /\ Answer(u, TRUE)
  /\ writer' = Set(writer, u, "none")
  /\ UNCHANGED <<file, removing, use, given, trouble, recreated, cut>>

CompleteUpload(u) ==
  /\ Bare("complete") \in net[u]
  /\ LET ok == session[u].live /\ session[u].received = Slices IN
       /\ session' = IF ok THEN [session EXCEPT ![u].complete = TRUE] ELSE session
       /\ Reply(u, Bare("complete"), ok, net[u] \ {Bare("complete")})
  /\ UNCHANGED <<chain, writer, file, removing, use, given, trouble, recreated, cut>>

\* Broken on purpose (for UploadsEnd): the session is forgotten, its file is not.
RemovedSession(u) == session' = [session EXCEPT ![u].live = FALSE] /\ UNCHANGED removing

\* The session leaves the map and its file's removal begins.
Removed(u) ==
  /\ session' = [session EXCEPT ![u].live = FALSE]
  /\ removing' = Set(removing, u, TRUE)

DiscardUpload(u) ==
  /\ Bare("discard") \in net[u]
  /\ net' = [net EXCEPT ![u] = @ \ {Bare("discard")}]
  /\ IF session[u].live THEN Removed(u) ELSE UNCHANGED <<session, removing>>
  /\ UNCHANGED <<browser, chain, writer, file, use, given, trouble, recreated, cut>>

\* An hour without a slice.  Bound: no append takes an hour.
Sweep(u) ==
  /\ session[u].live /\ chain[u] = <<>>
  /\ Removed(u)
  /\ cut' = Set(cut, u, TRUE)
  /\ UNCHANGED <<browser, net, chain, writer, file, use, given, trouble, recreated>>

RemoveFile(u) ==
  /\ removing[u]
  /\ removing' = Set(removing, u, FALSE)
  /\ file' = Set(file, u, NoFile)
  /\ writer' = IF writer[u] = "open" THEN Set(writer, u, "detached") ELSE writer
  /\ UNCHANGED <<browser, net, session, chain, use, given, trouble, recreated, cut>>

-----------------------------------------------------------------------------
\* The route that consumes the file.

\* Broken on purpose (for HandedOverWhole): a claimed session stays in the map.
ClaimedNotDropped(s) == s

Claimed(s) == [s EXCEPT !.live = FALSE]

\* takeUploadedFile: the session is dropped, the file is the route's.
ClaimUpload(u) ==
  /\ Bare("claim") \in net[u]
  /\ \/ /\ session[u].live /\ session[u].complete
        /\ session' = [session EXCEPT ![u] = Claimed(@)]
        /\ use' = Set(use, u, "holds")
        /\ net' = [net EXCEPT ![u] = @ \ {Bare("claim")}]
        /\ UNCHANGED browser
     \/ /\ ~(session[u].live /\ session[u].complete)
        /\ Reply(u, Bare("claim"), FALSE, net[u] \ {Bare("claim")})
        /\ UNCHANGED <<session, use>>
  /\ UNCHANGED <<chain, writer, file, removing, given, trouble, recreated, cut>>

\* The pack is renamed into place, or the archive has been imported.
ConsumerKeeps(u) ==
  /\ use[u] = "holds"
  /\ use' = Set(use, u, "kept")
  /\ given' = Set(given, u, file[u].data)
  /\ file' = Set(file, u, NoFile)
  /\ Reply(u, Bare("claim"), TRUE, net[u])
  /\ UNCHANGED <<session, chain, writer, removing, trouble, recreated, cut>>

\* A guard of the route, or a failure, after the claim: the file is removed.
ConsumerRefuses(u) ==
  /\ use[u] = "holds"
  /\ use' = Set(use, u, "refused")
  /\ removing' = Set(removing, u, TRUE)
  /\ cut' = Set(cut, u, TRUE)
  /\ Reply(u, Bare("claim"), FALSE, net[u])
  /\ UNCHANGED <<session, chain, writer, file, given, trouble, recreated>>

\* POST /servers returns early when the port or the name is taken: neither its
\* catch block nor anything else removes the file.
CreateReturnsEarly(u) ==
  /\ use[u] = "holds"
  /\ use' = Set(use, u, "stranded")
  /\ cut' = Set(cut, u, TRUE)
  /\ Reply(u, Bare("claim"), FALSE, net[u])
  /\ UNCHANGED <<session, chain, writer, file, removing, given, trouble, recreated>>

-----------------------------------------------------------------------------
\* The process dies and starts again: sessions, chains and the consumer's
\* handler are gone, connections are reset, and every .part file is removed.
CrashAndBoot ==
  LET reset(u) == browser[u].pc \in Waiting /\ Current(browser[u]) \notin net[u] IN
  /\ browser' = [u \in Upload |-> IF reset(u) THEN Fail(browser[u]) ELSE browser[u]]
  /\ net' = [u \in Upload |-> IF reset(u) THEN net[u] \cup Sends(browser[u], FALSE) ELSE net[u]]
  /\ session' = [u \in Upload |-> NoSession]
  /\ chain' = [u \in Upload |-> <<>>]
  /\ writer' = [u \in Upload |-> "none"]
  /\ removing' = [u \in Upload |-> file[u].there]
  /\ use' = [u \in Upload |-> IF use[u] = "holds" THEN "refused" ELSE use[u]]
  /\ cut' = [u \in Upload |-> cut[u] \/ browser[u].pc # "idle"]
  /\ UNCHANGED <<file, given, trouble, recreated>>

Begins(u)   == BeginUpload(u) \/ BeginRefused(u)
Breaks(u)   == ConnectionBreaks(u) \/ DiscardLost(u) \/ TabCloses(u)
Arrives(u)  == ChunkArrives(u) \/ CompleteUpload(u) \/ DiscardUpload(u) \/ ClaimUpload(u)
AppendSteps(u) ==
  \/ AppendReturns(u) \/ AppendOpens(u) \/ AppendWrites(u)
  \/ AppendFails(u) \/ AppendDone(u)
Consumes(u) == ConsumerKeeps(u) \/ ConsumerRefuses(u) \/ CreateReturnsEarly(u)

Next ==
  \/ CrashAndBoot
  \/ \E u \in Upload:
       \/ Begins(u) \/ SendChunk(u) \/ Breaks(u) \/ Arrives(u) \/ AppendSteps(u)
       \/ Consumes(u) \/ Sweep(u) \/ RemoveFile(u)

Spec == Init /\ [][Next]_vars

\* Requests arrive or break, disk calls return, timers fire.  A sweep is sure
\* only for an upload nobody continues.
Fairness ==
  \A u \in Upload:
    /\ WF_vars(SendChunk(u)) /\ WF_vars(Arrives(u)) /\ WF_vars(AppendSteps(u))
    /\ WF_vars(Consumes(u)) /\ WF_vars(RemoveFile(u))
    /\ WF_vars(browser[u].pc \in Ended /\ Sweep(u))

FairSpec == Spec /\ Fairness

-----------------------------------------------------------------------------
\* Properties.

\* Every variable has its type.
TypeOK ==
  /\ browser \in [Upload -> Browser]
  /\ net \in [Upload -> SUBSET Request]
  /\ session \in [Upload -> StagedUpload]
  /\ chain \in [Upload -> Seq(Request)]
  /\ writer \in [Upload -> {"none", "open", "detached", "written"}]
  /\ file \in [Upload -> [there: BOOLEAN, data: Seq(Piece)]]
  /\ removing \in [Upload -> BOOLEAN]
  /\ use \in [Upload -> {"none", "holds", "kept", "refused", "stranded"}]
  /\ given \in [Upload -> Seq(Piece)]
  /\ trouble \in [Upload -> 0..MaxTrouble]
  /\ recreated \in [Upload -> BOOLEAN]
  /\ cut \in [Upload -> BOOLEAN]

\* A slice the browser counts as sent is in the file, at its place, as long as
\* the session lives: the browser goes on by the answers it gets, and a retry
\* may be answered before, after or instead of the attempt it repeats.
SentIsStored ==
  \A u \in Upload: session[u].live =>
    \A k \in 1..browser[u].index: k <= Len(file[u].data) /\ file[u].data[k] = k - 1

\* A consumer holds, and later keeps, exactly the file that was sent: no slice
\* twice, none missing, none of a late request, and no removal under its hands.
HandedOverWhole ==
  \A u \in Upload:
    /\ use[u] = "holds" => file[u] = [there |-> TRUE, data |-> Whole]
    /\ use[u] = "kept"  => given[u] = Whole

\* Sessions implement the promise of Assembly.
StoredOf(u) ==
  IF session[u].live \/ use[u] = "holds" THEN file[u].data
  ELSE IF use[u] = "kept" THEN given[u] ELSE <<>>

FateOf(u) ==
  IF session[u].live THEN "open"
  ELSE IF use[u] = "holds" THEN "taken"
  ELSE IF use[u] = "kept" THEN "used"
  ELSE IF browser[u].pc = "idle" THEN "none" ELSE "gone"

Promise == INSTANCE Assembly WITH stored <- [u \in Upload |-> StoredOf(u)],
                                  fate <- [u \in Upload |-> FateOf(u)]
Assembled == Promise!Spec

\* An upload that meets fewer failures than one slice has attempts reaches its
\* consumer, unless a tab, an idle hour, a crash, a refusal, or the loss of an
\* answer that is not retried ends it: a failed append does not keep the ones
\* queued behind it from running.
Survives ==
  \A u \in Upload:
    browser[u].pc = "send" ~>
      (browser[u].pc = "done" \/ cut[u] \/ trouble[u] >= MaxAttempts)

\* Every .part file goes some time: claimed, discarded, swept or cleared.  The
\* exceptions: an append whose turn comes after the removal creates it again, and
\* a creation may strand it.
Reclaimed ==
  \A u \in Upload:
    file[u].there ~> (~file[u].there \/ recreated[u] \/ use[u] = "stranded")

\* An upload ends well for the file, or for the disk.
UploadsEnd == Survives /\ Reclaimed

\* What claimUpload says of its callers: the file it hands out is renamed or
\* deleted.
CallerDisposes ==
  \A u \in Upload: use[u] = "holds" ~> (~file[u].there \/ session[u].live)
=============================================================================
