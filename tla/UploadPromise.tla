--------------------------- MODULE UploadPromise ----------------------------
(***************************************************************************)
(* Theorems about Uploads, for any number of uploads and slices, any       *)
(* number of attempts and any trouble.  The inductive invariant says what  *)
(* a session's counters mean: the file is as long as they say, or one      *)
(* slice longer while an append has written and not yet counted.  From it  *)
(* follows that Uploads implements Assembly: each step of an upload is a   *)
(* step of Assembly for that upload, or none that Assembly sees.           *)
(***************************************************************************)
EXTENDS Uploads, TLAPS

-----------------------------------------------------------------------------
(* What is stored is what was sent.                                        *)

Prefix(n) == [k \in 1..n |-> k - 1]

\* While an append is under way its slice is the next one.
WriterAt(u) ==
  writer[u] # "none" =>
    /\ chain[u] # <<>> /\ Head(chain[u]).index = session[u].nextIndex
    /\ session[u].nextIndex < Slices

\* The browser waits for slices there are, and only slices queue; the counters
\* agree, and a complete session has all slices.
CountersAt(u) ==
  /\ browser[u].pc = "chunk" => browser[u].index < Slices
  /\ \A k \in 1..Len(chain[u]): chain[u][k].kind = "chunk"
  /\ session[u].received = session[u].nextIndex
  /\ session[u].complete => session[u].nextIndex = Slices

\* What a session that can be claimed says of the file and of the browser.
LiveAt(u) ==
  session[u].live =>
    /\ file[u].there /\ ~removing[u] /\ use[u] = "none" /\ writer[u] # "detached"
    /\ browser[u].index <= session[u].nextIndex

\* The file is what the counters say (unless writes may tear).
ContentAt(u) ==
  ~TornWrites /\ session[u].live =>
    file[u].data = Prefix(IF writer[u] = "written" THEN session[u].nextIndex + 1
                                                   ELSE session[u].nextIndex)

\* A file in a consumer's hands is out of everybody else's.
HeldAt(u) ==
  /\ use[u] = "holds" => ~removing[u] /\ session[u].nextIndex = Slices /\ file[u].there
  /\ ~TornWrites /\ use[u] = "holds" => file[u].data = Whole
  /\ ~TornWrites /\ use[u] = "kept"  => given[u] = Whole

\* Before the upload began nothing of it exists.
IdleAt(u) ==
  browser[u].pc = "idle" =>
    /\ net[u] = {} /\ chain[u] = <<>> /\ writer[u] = "none" /\ ~session[u].live
    /\ use[u] = "none" /\ ~removing[u] /\ ~file[u].there /\ browser[u].index = 0

At(u) == WriterAt(u) /\ CountersAt(u) /\ LiveAt(u) /\ ContentAt(u) /\ HeldAt(u) /\ IdleAt(u)

IInv == TypeOK /\ \A u \in Upload: At(u)

-----------------------------------------------------------------------------
\* Helpers: what the browser does with an answer.

LEMMA BrowserTurns ==
  ASSUME NEW b \in Browser
  PROVE  /\ Fail(b) \in Browser /\ Fail(b).index = b.index
         /\ \A ok \in BOOLEAN: Sends(b, ok) \subseteq Request
         /\ b.pc \in Waiting =>
              /\ Fail(b).pc \notin {"idle", "chunk"}
              /\ Succeed(b).pc \notin {"idle", "chunk"}
              /\ b.pc = "chunk" => Succeed(b).index = b.index + 1
              /\ b.pc # "chunk" => Succeed(b).index = b.index
         /\ b.pc \in Waiting /\ (b.pc = "chunk" => b.index < Slices) => Succeed(b) \in Browser
  <1>1. Slices \in Nat \ {0} /\ MaxAttempts \in Nat \ {0}
    BY CountAssumption
  <1>2. Fail(b) \in Browser /\ Fail(b).index = b.index /\ Fail(b).pc \in {"send", "failed"}
    <2>1. CASE MayRetry(b)
      <3>1. Fail(b) = [b EXCEPT !.pc = "send", !.attempt = @ + 1] /\ b.attempt + 1 < MaxAttempts
        BY <2>1 DEF Fail, MayRetry
      <3>2. b.attempt + 1 \in 0..(MaxAttempts - 1)
        BY <1>1, <3>1 DEF Browser
      <3> QED
        BY <3>1, <3>2 DEF Browser
    <2>2. CASE ~MayRetry(b)
      BY <1>1, <2>2 DEF Fail, Browser, Ended
    <2> QED
      BY <2>1, <2>2
  <1>3. \A ok \in BOOLEAN: Sends(b, ok) \subseteq Request
    BY <1>1 DEF Sends, Bare, Request, Slice
  <1>4. b.pc \in Waiting => /\ Succeed(b).pc \notin {"idle", "chunk"}
                            /\ b.pc = "chunk" => Succeed(b).index = b.index + 1
                            /\ b.pc # "chunk" => Succeed(b).index = b.index
    BY DEF Succeed, Browser, Waiting
  <1>5. b.pc \in Waiting /\ (b.pc = "chunk" => b.index < Slices) => Succeed(b) \in Browser
    BY <1>1 DEF Succeed, Browser, Waiting, Ended
  <1> QED
    BY <1>2, <1>3, <1>4, <1>5

\* What an answer changes: the browser of its upload, which moves on, if at
\* all, to slice i, and what is on its way.
Turned(u, i) ==
  /\ browser' \in [Upload -> Browser] /\ net' \in [Upload -> SUBSET Request]
  /\ \A v \in Upload \ {u}: browser'[v] = browser[v] /\ net'[v] = net[v]
  /\ browser'[u].pc = "idle" => browser[u].pc = "idle"
  /\ browser'[u].pc = "chunk" => browser'[u] = browser[u]
  /\ browser[u].pc = "idle" => net'[u] \subseteq net[u]
  /\ browser'[u].index \in {browser[u].index, i}

LEMMA ReplyTurns ==
  ASSUME TypeOK, NEW u \in Upload, NEW r \in Request, NEW ok \in BOOLEAN,
         NEW rest \in SUBSET net[u], Reply(u, r, ok, rest)
  PROVE  Turned(u, IF ok /\ r.kind = "chunk" THEN r.index + 1 ELSE browser[u].index)
  <1> DEFINE b == browser[u]
             heard == b.pc \in Waiting /\ r = Current(b)
             next == IF ok THEN Succeed(b) ELSE Fail(b)
  <1>1. /\ b \in Browser /\ browser \in [Upload -> Browser] /\ net \in [Upload -> SUBSET Request]
        /\ rest \subseteq Request
    BY DEF TypeOK
  <1>2. /\ browser' = IF heard THEN Set(browser, u, next) ELSE browser
        /\ net' = Set(net, u, IF heard THEN rest \cup Sends(b, ok) ELSE rest)
    BY DEF Reply
  <1>3. heard /\ b.pc = "chunk" => r.kind = "chunk" /\ r.index = b.index /\ b.index < Slices
    BY <1>1, CountAssumption DEF Current, Chunk, Request, Slice, Browser
  <1>4. heard => /\ next \in Browser /\ next.pc \notin {"idle", "chunk"}
                 /\ \/ next.index = b.index
                    \/ ok /\ r.kind = "chunk" /\ next.index = r.index + 1
    BY <1>1, <1>3, BrowserTurns
  <1>5. Sends(b, ok) \subseteq Request
    BY <1>1, BrowserTurns
  <1>6. CASE heard
    <2>1. browser' = Set(browser, u, next) /\ net' = Set(net, u, rest \cup Sends(b, ok))
      BY <1>2, <1>6
    <2>2. b.pc # "idle"
      BY <1>6 DEF Waiting
    <2> HIDE DEF b, next
    <2>3. /\ browser' \in [Upload -> Browser] /\ browser'[u] = next
          /\ \A v \in Upload \ {u}: browser'[v] = browser[v] /\ net'[v] = net[v]
      BY <1>1, <1>4, <1>6, <2>1 DEF Set
    <2>4. net' \in [Upload -> SUBSET Request]
      BY <1>1, <1>5, <2>1 DEF Set
    <2> QED
      BY <1>4, <1>6, <2>2, <2>3, <2>4 DEF b, Turned
  <1>7. CASE ~heard
    BY <1>1, <1>2, <1>7 DEF Set, Turned
  <1> QED
    BY <1>6, <1>7

\* The head of a chain is a chunk, and what is left is a chain.
LEMMA HeadFacts ==
  ASSUME TypeOK, NEW u \in Upload, CountersAt(u), chain[u] # <<>>
  PROVE  /\ Head(chain[u]) \in Request /\ Head(chain[u]).kind = "chunk"
         /\ Tail(chain[u]) \in Seq(Request)
         /\ \A k \in 1..Len(Tail(chain[u])): Tail(chain[u])[k].kind = "chunk"
  BY DEF TypeOK, CountersAt

LEMMA PrefixGrows ==
  ASSUME NEW n \in Nat
  PROVE  Append(Prefix(n), n) = Prefix(n + 1)
  BY DEF Prefix

\* Changing one field of a record keeps its type.
LEMMA LabelChanges ==
  ASSUME TypeOK, NEW u \in Upload, NEW l \in {"idle", "send"} \cup Waiting \cup Ended,
         browser' = [browser EXCEPT ![u].pc = l]
  PROVE  /\ browser' \in [Upload -> Browser] /\ browser'[u].pc = l
         /\ browser'[u].index = browser[u].index
  <1>1. browser \in [Upload -> Browser] /\ browser[u] \in Browser
    BY DEF TypeOK
  <1> DEFINE b == [browser[u] EXCEPT !.pc = l]
  <1>2. b \in Browser /\ b.pc = l /\ b.index = browser[u].index
    BY <1>1 DEF Browser
  <1>3. browser' = [browser EXCEPT ![u] = b]
    OBVIOUS
  <1> HIDE DEF b
  <1>4. browser' \in [Upload -> Browser] /\ browser'[u] = b
    BY <1>1, <1>2, <1>3
  <1> QED
    BY <1>2, <1>4

LEMMA SessionDropped ==
  ASSUME TypeOK, NEW u \in Upload, session' = [session EXCEPT ![u].live = FALSE]
  PROVE  /\ session' \in [Upload -> StagedUpload] /\ ~session'[u].live
         /\ session'[u].received = session[u].received
         /\ session'[u].nextIndex = session[u].nextIndex
         /\ session'[u].complete = session[u].complete
  <1>1. session \in [Upload -> StagedUpload] /\ session[u] \in StagedUpload
    BY DEF TypeOK
  <1> DEFINE s == [session[u] EXCEPT !.live = FALSE]
  <1>2. /\ s \in StagedUpload /\ ~s.live /\ s.received = session[u].received
        /\ s.nextIndex = session[u].nextIndex /\ s.complete = session[u].complete
    BY <1>1 DEF StagedUpload
  <1>3. session' = [session EXCEPT ![u] = s]
    OBVIOUS
  <1> HIDE DEF s
  <1>4. session' \in [Upload -> StagedUpload] /\ session'[u] = s
    BY <1>1, <1>2, <1>3
  <1> QED
    BY <1>2, <1>4
LEMMA SessionReplaced ==
  ASSUME TypeOK, NEW u \in Upload, NEW s \in StagedUpload, session' = [session EXCEPT ![u] = s]
  PROVE  session' \in [Upload -> StagedUpload] /\ session'[u] = s
  BY DEF TypeOK

LEMMA DataReplaced ==
  ASSUME TypeOK, NEW u \in Upload, NEW d \in Seq(Piece), file' = [file EXCEPT ![u].data = d]
  PROVE  file' \in [Upload -> [there: BOOLEAN, data: Seq(Piece)]]
  <1>1. [file[u] EXCEPT !.data = d] \in [there: BOOLEAN, data: Seq(Piece)]
    BY DEF TypeOK
  <1>2. file' = [file EXCEPT ![u] = [file[u] EXCEPT !.data = d]]
    OBVIOUS
  <1> QED
    BY <1>1, <1>2 DEF TypeOK

\* Nothing of upload v changes.
Frame(v) ==
  /\ browser'[v] = browser[v] /\ net'[v] = net[v] /\ session'[v] = session[v]
  /\ chain'[v] = chain[v] /\ writer'[v] = writer[v] /\ file'[v] = file[v]
  /\ removing'[v] = removing[v] /\ use'[v] = use[v] /\ given'[v] = given[v]

LEMMA FrameKeeps ==
  ASSUME NEW v \in Upload, At(v), Frame(v)
  PROVE  At(v)'
  BY DEF At, WriterAt, CountersAt, LiveAt, ContentAt, HeldAt, IdleAt, Frame

\* A step of u keeps the invariant at u and leaves the other uploads alone.
Moves(u) == TypeOK' /\ At(u)' /\ \A v \in Upload \ {u}: Frame(v)

LEMMA OneMoves ==
  ASSUME IInv, NEW u \in Upload, Moves(u)
  PROVE  IInv'
  <1>1. ASSUME NEW v \in Upload PROVE At(v)'
    BY FrameKeeps DEF IInv, Moves
  <1> QED
    BY <1>1 DEF IInv, Moves

-----------------------------------------------------------------------------
\* One lemma per action.

LEMMA SendChunkKeeps ==
  ASSUME IInv, NEW u \in Upload, SendChunk(u)
  PROVE  Moves(u)
  <1>1. TypeOK /\ At(u)
    BY DEF IInv
  <1>2. /\ browser[u].index < Slices => Chunk(browser[u].index, browser[u].attempt) \in Request
        /\ Bare("complete") \in Request
    BY <1>1, CountAssumption DEF TypeOK, Browser, Chunk, Bare, Request, Slice
  <1>3. /\ browser' \in [Upload -> Browser] /\ browser'[u].index = browser[u].index
        /\ browser'[u].pc \in {"chunk", "complete"}
        /\ browser'[u].pc = "chunk" => browser'[u].index < Slices
    BY <1>1, LabelChanges DEF SendChunk, Waiting, Ended
  <1>4. \E r \in Request: net' = [net EXCEPT ![u] = @ \cup {r}]
    BY <1>2 DEF SendChunk
  <1>7. TypeOK'
    <2>1. browser' \in [Upload -> Browser]
      BY <1>1, <1>3 DEF SendChunk, TypeOK, Waiting, Ended
    <2>2. net' \in [Upload -> SUBSET Request]
      BY <1>1, <1>4 DEF SendChunk, TypeOK
    <2> QED
      BY <1>1, <2>1, <2>2 DEF SendChunk, TypeOK
  <1>8. \A v \in Upload \ {u}: Frame(v)
    BY <1>1 DEF SendChunk, Frame, TypeOK, Set
  <1>9. At(u)'
    <2>1. WriterAt(u)'
      BY <1>1, <1>3 DEF SendChunk, At, WriterAt, TypeOK, Waiting, Ended
    <2>2. CountersAt(u)'
      BY <1>1, <1>3 DEF SendChunk, At, CountersAt, TypeOK, Waiting, Ended
    <2>3. LiveAt(u)'
      BY <1>1, <1>3 DEF SendChunk, At, LiveAt, TypeOK, Waiting, Ended
    <2>4. ContentAt(u)'
      BY <1>1, <1>3 DEF SendChunk, At, ContentAt, TypeOK, Waiting, Ended
    <2>5. HeldAt(u)'
      BY <1>1, <1>3 DEF SendChunk, At, HeldAt, TypeOK, Waiting, Ended
    <2>6. IdleAt(u)'
      BY <1>1, <1>3 DEF SendChunk, At, IdleAt, TypeOK, Waiting, Ended
    <2> QED
      BY <2>1, <2>2, <2>3, <2>4, <2>5, <2>6 DEF At
  <1> QED
    BY <1>7, <1>8, <1>9 DEF Moves

LEMMA DiscardLostKeeps ==
  ASSUME IInv, NEW u \in Upload, DiscardLost(u)
  PROVE  Moves(u)
  <1>1. TypeOK /\ At(u)
    BY DEF IInv
  <1>7. TypeOK'
    <2>1. net' \in [Upload -> SUBSET Request]
      BY <1>1 DEF DiscardLost, TypeOK
    <2>2. trouble' \in [Upload -> 0..MaxTrouble]
      BY <1>1, CountAssumption DEF DiscardLost, TypeOK
    <2> QED
      BY <1>1, <2>1, <2>2 DEF DiscardLost, TypeOK
  <1>8. \A v \in Upload \ {u}: Frame(v)
    BY <1>1 DEF DiscardLost, Frame, TypeOK, Set
  <1>9. At(u)'
    <2>1. WriterAt(u)'
      BY <1>1 DEF DiscardLost, At, WriterAt, TypeOK
    <2>2. CountersAt(u)'
      BY <1>1 DEF DiscardLost, At, CountersAt, TypeOK
    <2>3. LiveAt(u)'
      BY <1>1 DEF DiscardLost, At, LiveAt, TypeOK
    <2>4. ContentAt(u)'
      BY <1>1 DEF DiscardLost, At, ContentAt, TypeOK
    <2>5. HeldAt(u)'
      BY <1>1 DEF DiscardLost, At, HeldAt, TypeOK
    <2>6. IdleAt(u)'
      BY <1>1 DEF DiscardLost, At, IdleAt, TypeOK
    <2> QED
      BY <2>1, <2>2, <2>3, <2>4, <2>5, <2>6 DEF At
  <1> QED
    BY <1>7, <1>8, <1>9 DEF Moves

LEMMA TabClosesKeeps ==
  ASSUME IInv, NEW u \in Upload, TabCloses(u)
  PROVE  Moves(u)
  <1>1. TypeOK /\ At(u)
    BY DEF IInv
  <1>3. /\ browser' \in [Upload -> Browser] /\ browser'[u].index = browser[u].index
        /\ browser'[u].pc \in {"left"}
    BY <1>1, LabelChanges DEF TabCloses, Waiting, Ended
  <1>7. TypeOK'
    <2>1. browser' \in [Upload -> Browser]
      BY <1>1, <1>3 DEF TabCloses, TypeOK, Waiting, Ended
    <2>2. cut' \in [Upload -> BOOLEAN]
      BY <1>1 DEF TabCloses, TypeOK, Set
    <2> QED
      BY <1>1, <2>1, <2>2 DEF TabCloses, TypeOK
  <1>8. \A v \in Upload \ {u}: Frame(v)
    BY <1>1 DEF TabCloses, Frame, TypeOK, Set
  <1>9. At(u)'
    <2>1. WriterAt(u)'
      BY <1>1, <1>3 DEF TabCloses, At, WriterAt, TypeOK, Set, Waiting, Ended
    <2>2. CountersAt(u)'
      BY <1>1, <1>3 DEF TabCloses, At, CountersAt, TypeOK, Set, Waiting, Ended
    <2>3. LiveAt(u)'
      BY <1>1, <1>3 DEF TabCloses, At, LiveAt, TypeOK, Set, Waiting, Ended
    <2>4. ContentAt(u)'
      BY <1>1, <1>3 DEF TabCloses, At, ContentAt, TypeOK, Set, Waiting, Ended
    <2>5. HeldAt(u)'
      BY <1>1, <1>3 DEF TabCloses, At, HeldAt, TypeOK, Set, Waiting, Ended
    <2>6. IdleAt(u)'
      BY <1>1, <1>3 DEF TabCloses, At, IdleAt, TypeOK, Set, Waiting, Ended
    <2> QED
      BY <2>1, <2>2, <2>3, <2>4, <2>5, <2>6 DEF At
  <1> QED
    BY <1>7, <1>8, <1>9 DEF Moves

LEMMA BeginUploadKeeps ==
  ASSUME IInv, NEW u \in Upload, BeginUpload(u)
  PROVE  Moves(u)
  <1>1. TypeOK /\ At(u)
    BY DEF IInv
  <1>2. NewSession \in StagedUpload
    BY CountAssumption DEF NewSession, StagedUpload
  <1>3. /\ browser' \in [Upload -> Browser] /\ browser'[u].index = browser[u].index
        /\ browser'[u].pc \in {"send", "failed"}
    BY <1>1, LabelChanges DEF BeginUpload, Waiting, Ended
  <1>7. TypeOK'
    <2>1. browser' \in [Upload -> Browser]
      BY <1>1, <1>3 DEF BeginUpload, TypeOK, Waiting, Ended
    <2>2. cut' \in [Upload -> BOOLEAN]
      BY <1>1 DEF BeginUpload, TypeOK, Set
    <2>3. session' \in [Upload -> StagedUpload]
      BY <1>1, <1>2 DEF BeginUpload, TypeOK
    <2>4. file' \in [Upload -> [there: BOOLEAN, data: Seq(Piece)]]
      BY <1>1 DEF BeginUpload, TypeOK
    <2> QED
      BY <1>1, <2>1, <2>2, <2>3, <2>4 DEF BeginUpload, TypeOK
  <1>8. \A v \in Upload \ {u}: Frame(v)
    BY <1>1 DEF BeginUpload, Frame, TypeOK, Set
  <1>9. At(u)'
    <2>1. WriterAt(u)'
      BY <1>1, <1>2, <1>3 DEF BeginUpload, At, WriterAt, IdleAt
    <2>2. CountersAt(u)'
      BY <1>1, <1>2, <1>3 DEF BeginUpload, At, CountersAt, NewSession
    <2>3. LiveAt(u)'
      BY <1>1, <1>2, <1>3 DEF BeginUpload, At, LiveAt, IdleAt, TypeOK, NewSession
    <2>4. ContentAt(u)'
      BY <1>1, <1>2, <1>3 DEF BeginUpload, At, ContentAt, IdleAt, TypeOK, Prefix, NewSession
    <2>5. HeldAt(u)'
      BY <1>1, <1>2, <1>3 DEF BeginUpload, At, HeldAt, IdleAt
    <2>6. IdleAt(u)'
      BY <1>1, <1>2, <1>3 DEF IdleAt
    <2> QED
      BY <2>1, <2>2, <2>3, <2>4, <2>5, <2>6 DEF At
  <1> QED
    BY <1>7, <1>8, <1>9 DEF Moves

LEMMA BeginRefusedKeeps ==
  ASSUME IInv, NEW u \in Upload, BeginRefused(u)
  PROVE  Moves(u)
  <1>1. TypeOK /\ At(u)
    BY DEF IInv
  <1>3. /\ browser' \in [Upload -> Browser] /\ browser'[u].index = browser[u].index
        /\ browser'[u].pc \in {"failed"}
    BY <1>1, LabelChanges DEF BeginRefused, Waiting, Ended
  <1>7. TypeOK'
    <2>1. browser' \in [Upload -> Browser]
      BY <1>1, <1>3 DEF BeginRefused, TypeOK, Waiting, Ended
    <2>2. cut' \in [Upload -> BOOLEAN]
      BY <1>1 DEF BeginRefused, TypeOK, Set
    <2> QED
      BY <1>1, <2>1, <2>2 DEF BeginRefused, TypeOK
  <1>8. \A v \in Upload \ {u}: Frame(v)
    BY <1>1 DEF BeginRefused, Frame, TypeOK, Set
  <1>9. At(u)'
    <2>1. WriterAt(u)'
      BY <1>1, <1>3 DEF BeginRefused, At, WriterAt, TypeOK, Set, Waiting, Ended
    <2>2. CountersAt(u)'
      BY <1>1, <1>3 DEF BeginRefused, At, CountersAt, TypeOK, Set, Waiting, Ended
    <2>3. LiveAt(u)'
      BY <1>1, <1>3 DEF BeginRefused, At, LiveAt, TypeOK, Set, Waiting, Ended
    <2>4. ContentAt(u)'
      BY <1>1, <1>3 DEF BeginRefused, At, ContentAt, TypeOK, Set, Waiting, Ended
    <2>5. HeldAt(u)'
      BY <1>1, <1>3 DEF BeginRefused, At, HeldAt, TypeOK, Set, Waiting, Ended
    <2>6. IdleAt(u)'
      BY <1>1, <1>3 DEF BeginRefused, At, IdleAt, TypeOK, Set, Waiting, Ended
    <2> QED
      BY <2>1, <2>2, <2>3, <2>4, <2>5, <2>6 DEF At
  <1> QED
    BY <1>7, <1>8, <1>9 DEF Moves

LEMMA AppendOpensKeeps ==
  ASSUME IInv, NEW u \in Upload, AppendOpens(u)
  PROVE  Moves(u)
  <1>1. TypeOK /\ At(u)
    BY DEF IInv
  <1>2. /\ chain[u] # <<>>
        /\ Head(chain[u]) \in Request /\ session[u] \in StagedUpload
    BY <1>1, HeadFacts DEF AppendOpens, HeadIs, At, TypeOK
  <1>3. Head(chain[u]).index = session[u].nextIndex /\ session[u].nextIndex < Slices
    BY <1>1, <1>2, CountAssumption
    DEF AppendOpens, Storable, Repeats, OutOfTurn, Request, Slice, StagedUpload
  <1>7. TypeOK'
    <2>1. writer' \in [Upload -> {"none", "open", "detached", "written"}]
      BY <1>1 DEF AppendOpens, TypeOK, Set
    <2>2. file' \in [Upload -> [there: BOOLEAN, data: Seq(Piece)]]
      BY <1>1 DEF AppendOpens, TypeOK
    <2>3. recreated' \in [Upload -> BOOLEAN]
      BY <1>1 DEF AppendOpens, TypeOK
    <2> QED
      BY <1>1, <2>1, <2>2, <2>3 DEF AppendOpens, TypeOK
  <1>8. \A v \in Upload \ {u}: Frame(v)
    BY <1>1 DEF AppendOpens, Frame, TypeOK, Set
  <1>9. At(u)'
    <2>1. WriterAt(u)'
      BY <1>1, <1>2, <1>3 DEF AppendOpens, At, WriterAt, TypeOK
    <2>2. CountersAt(u)'
      BY <1>1 DEF AppendOpens, At, CountersAt, TypeOK, Set, HeadIs
    <2>3. LiveAt(u)'
      BY <1>1 DEF AppendOpens, At, LiveAt, TypeOK, Set, HeadIs
    <2>4. ContentAt(u)'
      BY <1>1 DEF AppendOpens, At, ContentAt, TypeOK, Set, HeadIs
    <2>5. HeldAt(u)'
      BY <1>1 DEF AppendOpens, At, HeldAt, TypeOK, Set, HeadIs
    <2>6. IdleAt(u)'
      BY <1>1 DEF AppendOpens, At, IdleAt, TypeOK, Set, HeadIs
    <2> QED
      BY <2>1, <2>2, <2>3, <2>4, <2>5, <2>6 DEF At
  <1> QED
    BY <1>7, <1>8, <1>9 DEF Moves

LEMMA DiscardUploadKeeps ==
  ASSUME IInv, NEW u \in Upload, DiscardUpload(u)
  PROVE  Moves(u)
  <1>1. TypeOK /\ At(u)
    BY DEF IInv
  <1>3. \/ ~session[u].live /\ UNCHANGED session
        \/ /\ session' \in [Upload -> StagedUpload] /\ ~session'[u].live
           /\ session'[u].received = session[u].received
           /\ session'[u].nextIndex = session[u].nextIndex
           /\ session'[u].complete = session[u].complete
    BY <1>1, SessionDropped DEF DiscardUpload, Removed
  <1>7. TypeOK'
    <2>1. net' \in [Upload -> SUBSET Request]
      BY <1>1 DEF DiscardUpload, TypeOK
    <2>2. session' \in [Upload -> StagedUpload]
      BY <1>1, <1>3 DEF DiscardUpload, TypeOK, Removed
    <2>3. removing' \in [Upload -> BOOLEAN]
      BY <1>1 DEF DiscardUpload, TypeOK, Removed, Set
    <2> QED
      BY <1>1, <2>1, <2>2, <2>3 DEF DiscardUpload, TypeOK
  <1>8. \A v \in Upload \ {u}: Frame(v)
    BY <1>1 DEF DiscardUpload, Frame, TypeOK, Set, Removed
  <1>9. At(u)'
    <2>1. WriterAt(u)'
      BY <1>1, <1>3 DEF DiscardUpload, At, WriterAt, TypeOK, Set, Removed
    <2>2. CountersAt(u)'
      BY <1>1, <1>3 DEF DiscardUpload, At, CountersAt, TypeOK, Set, Removed
    <2>3. LiveAt(u)'
      BY <1>1, <1>3 DEF DiscardUpload, At, LiveAt, TypeOK, Set, Removed
    <2>4. ContentAt(u)'
      BY <1>1, <1>3 DEF DiscardUpload, At, ContentAt, TypeOK, Set, Removed
    <2>5. HeldAt(u)'
      BY <1>1, <1>3 DEF DiscardUpload, At, LiveAt, HeldAt
    <2>6. IdleAt(u)'
      BY <1>1, <1>3 DEF DiscardUpload, At, IdleAt, TypeOK, Set, Removed
    <2> QED
      BY <2>1, <2>2, <2>3, <2>4, <2>5, <2>6 DEF At
  <1> QED
    BY <1>7, <1>8, <1>9 DEF Moves

LEMMA SweepKeeps ==
  ASSUME IInv, NEW u \in Upload, Sweep(u)
  PROVE  Moves(u)
  <1>1. TypeOK /\ At(u)
    BY DEF IInv
  <1>3. \/ FALSE
        \/ /\ session' \in [Upload -> StagedUpload] /\ ~session'[u].live
           /\ session'[u].received = session[u].received
           /\ session'[u].nextIndex = session[u].nextIndex
           /\ session'[u].complete = session[u].complete
    BY <1>1, SessionDropped DEF Sweep, Removed
  <1>7. TypeOK'
    <2>1. session' \in [Upload -> StagedUpload]
      BY <1>1, <1>3 DEF Sweep, TypeOK, Removed
    <2>2. removing' \in [Upload -> BOOLEAN]
      BY <1>1 DEF Sweep, TypeOK, Removed, Set
    <2>3. cut' \in [Upload -> BOOLEAN]
      BY <1>1 DEF Sweep, TypeOK, Set
    <2> QED
      BY <1>1, <2>1, <2>2, <2>3 DEF Sweep, TypeOK
  <1>8. \A v \in Upload \ {u}: Frame(v)
    BY <1>1 DEF Sweep, Frame, TypeOK, Set, Removed
  <1>9. At(u)'
    <2>1. WriterAt(u)'
      BY <1>1, <1>3 DEF Sweep, At, WriterAt, TypeOK, Set, Removed
    <2>2. CountersAt(u)'
      BY <1>1, <1>3 DEF Sweep, At, CountersAt, TypeOK, Set, Removed
    <2>3. LiveAt(u)'
      BY <1>1, <1>3 DEF Sweep, At, LiveAt, TypeOK, Set, Removed
    <2>4. ContentAt(u)'
      BY <1>1, <1>3 DEF Sweep, At, ContentAt, TypeOK, Set, Removed
    <2>5. HeldAt(u)'
      BY <1>1, <1>3 DEF Sweep, At, LiveAt, HeldAt
    <2>6. IdleAt(u)'
      BY <1>1, <1>3 DEF Sweep, At, IdleAt, TypeOK, Set, Removed
    <2> QED
      BY <2>1, <2>2, <2>3, <2>4, <2>5, <2>6 DEF At
  <1> QED
    BY <1>7, <1>8, <1>9 DEF Moves

LEMMA RemoveFileKeeps ==
  ASSUME IInv, NEW u \in Upload, RemoveFile(u)
  PROVE  Moves(u)
  <1>1. TypeOK /\ At(u)
    BY DEF IInv
  <1>7. TypeOK'
    <2>1. removing' \in [Upload -> BOOLEAN]
      BY <1>1 DEF RemoveFile, TypeOK, Set
    <2>2. file' \in [Upload -> [there: BOOLEAN, data: Seq(Piece)]]
      BY <1>1 DEF RemoveFile, TypeOK, Set, NoFile
    <2>3. writer' \in [Upload -> {"none", "open", "detached", "written"}]
      BY <1>1 DEF RemoveFile, TypeOK, Set
    <2> QED
      BY <1>1, <2>1, <2>2, <2>3 DEF RemoveFile, TypeOK
  <1>8. \A v \in Upload \ {u}: Frame(v)
    BY <1>1 DEF RemoveFile, Frame, TypeOK, Set
  <1>9. At(u)'
    <2>1. WriterAt(u)'
      BY <1>1 DEF RemoveFile, At, WriterAt, TypeOK, Set, NoFile
    <2>2. CountersAt(u)'
      BY <1>1 DEF RemoveFile, At, CountersAt, TypeOK, Set, NoFile
    <2>3. LiveAt(u)'
      BY <1>1 DEF RemoveFile, At, LiveAt, TypeOK, Set, NoFile
    <2>4. ContentAt(u)'
      BY <1>1 DEF RemoveFile, At, LiveAt, ContentAt
    <2>5. HeldAt(u)'
      BY <1>1 DEF RemoveFile, At, HeldAt, TypeOK, Set, NoFile
    <2>6. IdleAt(u)'
      BY <1>1 DEF RemoveFile, At, IdleAt, TypeOK, Set, NoFile
    <2> QED
      BY <2>1, <2>2, <2>3, <2>4, <2>5, <2>6 DEF At
  <1> QED
    BY <1>7, <1>8, <1>9 DEF Moves

LEMMA ConnectionBreaksKeeps ==
  ASSUME IInv, NEW u \in Upload, ConnectionBreaks(u)
  PROVE  Moves(u)
  <1>1. TypeOK /\ At(u)
    BY DEF IInv
  <1>2. /\ Current(browser[u]) \in Request
        /\ \A x \in {net[u], net[u] \ {Current(browser[u])}}: x \in SUBSET net[u]
    BY <1>1, CountAssumption
    DEF At, CountersAt, ConnectionBreaks, TypeOK, Browser, Waiting, Current, Chunk, Bare,
        Request, Slice
  <1>3. PICK x \in {net[u], net[u] \ {Current(browser[u])}}: Reply(u, Current(browser[u]), FALSE, x)
    BY DEF ConnectionBreaks
  <1>4. Turned(u, browser[u].index)
    BY <1>1, <1>2, <1>3, ReplyTurns
  <1>7. TypeOK'
    <2>1. browser' \in [Upload -> Browser]
      BY <1>1, <1>4 DEF ConnectionBreaks, TypeOK, Turned
    <2>2. net' \in [Upload -> SUBSET Request]
      BY <1>1, <1>4 DEF ConnectionBreaks, TypeOK, Turned
    <2>3. trouble' \in [Upload -> 0..MaxTrouble]
      BY <1>1, <1>4, CountAssumption DEF ConnectionBreaks, TypeOK
    <2>4. cut' \in [Upload -> BOOLEAN]
      BY <1>1, <1>4 DEF ConnectionBreaks, TypeOK
    <2> QED
      BY <1>1, <2>1, <2>2, <2>3, <2>4 DEF ConnectionBreaks, TypeOK
  <1>8. \A v \in Upload \ {u}: Frame(v)
    BY <1>1, <1>4 DEF ConnectionBreaks, Frame, TypeOK, Set, Turned
  <1>9. At(u)'
    <2>1. WriterAt(u)'
      BY <1>1, <1>4 DEF ConnectionBreaks, At, WriterAt, TypeOK, Turned
    <2>2. CountersAt(u)'
      BY <1>1, <1>4 DEF ConnectionBreaks, At, CountersAt, TypeOK, Turned
    <2>3. LiveAt(u)'
      BY <1>1, <1>4 DEF ConnectionBreaks, At, LiveAt, TypeOK, Turned
    <2>4. ContentAt(u)'
      BY <1>1, <1>4 DEF ConnectionBreaks, At, ContentAt, TypeOK, Turned
    <2>5. HeldAt(u)'
      BY <1>1, <1>4 DEF ConnectionBreaks, At, HeldAt, TypeOK, Turned
    <2>6. IdleAt(u)'
      BY <1>1, <1>4 DEF ConnectionBreaks, At, IdleAt, TypeOK, Turned
    <2> QED
      BY <2>1, <2>2, <2>3, <2>4, <2>5, <2>6 DEF At
  <1> QED
    BY <1>7, <1>8, <1>9 DEF Moves

LEMMA AppendReturnsKeeps ==
  ASSUME IInv, NEW u \in Upload, AppendReturns(u)
  PROVE  Moves(u)
  <1>1. TypeOK /\ At(u)
    BY DEF IInv
  <1>2. chain[u] # <<>>
    BY <1>1 DEF At, WriterAt, AppendReturns, HeadIs
  <1>3. /\ Head(chain[u]) \in Request /\ Head(chain[u]).kind = "chunk"
        /\ Tail(chain[u]) \in Seq(Request)
        /\ \A k \in 1..Len(Tail(chain[u])): Tail(chain[u])[k].kind = "chunk"
        /\ net[u] \in SUBSET Request
    BY <1>1, <1>2, HeadFacts DEF At, TypeOK
  <1> DEFINE ok == Repeats(session[u], Head(chain[u]))
  <1>4. Turned(u, IF ok THEN Head(chain[u]).index + 1 ELSE browser[u].index)
    <2>1. ok \in BOOLEAN /\ net[u] \in SUBSET net[u]
      BY DEF Repeats
    <2>2. Reply(u, Head(chain[u]), ok, net[u])
      BY DEF AppendReturns, Answer
    <2> HIDE DEF ok
    <2> QED
      BY <1>1, <1>3, <2>1, <2>2, ReplyTurns
  <1>7. TypeOK'
    <2>1. browser' \in [Upload -> Browser]
      BY <1>1, <1>4 DEF AppendReturns, TypeOK, Turned
    <2>2. net' \in [Upload -> SUBSET Request]
      BY <1>1, <1>4 DEF AppendReturns, TypeOK, Turned
    <2>3. chain' \in [Upload -> Seq(Request)]
      BY <1>1, <1>3 DEF AppendReturns, TypeOK, Answer
    <2> QED
      BY <1>1, <2>1, <2>2, <2>3 DEF AppendReturns, TypeOK
  <1>8. \A v \in Upload \ {u}: Frame(v)
    BY <1>1, <1>4 DEF AppendReturns, Frame, TypeOK, Set, Turned, Answer
  <1>9. At(u)'
    <2>1. WriterAt(u)'
      BY <1>1, <1>4 DEF AppendReturns, WriterAt, HeadIs
    <2>2. CountersAt(u)'
      BY <1>1, <1>3, <1>4 DEF AppendReturns, At, CountersAt, Answer, Turned
    <2>3. LiveAt(u)'
      BY <1>1, <1>3, <1>4, CountAssumption
      DEF AppendReturns, At, LiveAt, TypeOK, Repeats, Request, Slice, StagedUpload, Turned
    <2>4. ContentAt(u)'
      BY <1>1, <1>4 DEF AppendReturns, At, ContentAt
    <2>5. HeldAt(u)'
      BY <1>1, <1>4 DEF AppendReturns, At, HeldAt
    <2>6. IdleAt(u)'
      BY <1>1, <1>4 DEF AppendReturns, At, IdleAt, HeadIs, Turned
    <2> QED
      BY <2>1, <2>2, <2>3, <2>4, <2>5, <2>6 DEF At
  <1> QED
    BY <1>7, <1>8, <1>9 DEF Moves

LEMMA AppendFailsKeeps ==
  ASSUME IInv, NEW u \in Upload, AppendFails(u)
  PROVE  Moves(u)
  <1>1. TypeOK /\ At(u)
    BY DEF IInv
  <1>2. chain[u] # <<>>
    BY <1>1 DEF At, WriterAt, AppendFails, HeadIs
  <1>3. /\ Head(chain[u]) \in Request /\ Head(chain[u]).kind = "chunk"
        /\ Tail(chain[u]) \in Seq(Request)
        /\ \A k \in 1..Len(Tail(chain[u])): Tail(chain[u])[k].kind = "chunk"
        /\ net[u] \in SUBSET Request
    BY <1>1, <1>2, HeadFacts DEF At, TypeOK
  <1>4. Turned(u, browser[u].index)
    BY <1>1, <1>3, ReplyTurns DEF AppendFails, Answer
  <1>7. TypeOK'
    <2>1. browser' \in [Upload -> Browser]
      BY <1>1, <1>4 DEF AppendFails, TypeOK, Turned
    <2>2. net' \in [Upload -> SUBSET Request]
      BY <1>1, <1>4 DEF AppendFails, TypeOK, Turned
    <2>3. chain' \in [Upload -> Seq(Request)]
      BY <1>1, <1>3 DEF AppendFails, TypeOK, Answer
    <2>4. file' \in [Upload -> [there: BOOLEAN, data: Seq(Piece)]]
      <3>1. Scrap \in Piece
        BY DEF Piece, Scrap
      <3>2. <<>> \in Seq(Piece) /\ <<Scrap>> \in Seq(Piece)
        BY <3>1
      <3>3. \A x \in Leftovers(u): x \in Seq(Piece)
        BY <3>2 DEF Leftovers
      <3>4. PICK x \in Leftovers(u): file' = [file EXCEPT ![u].data = @ \o x]
        BY DEF AppendFails
      <3>5. file[u].data \o x \in Seq(Piece)
        BY <1>1, <3>3 DEF TypeOK
      <3> QED
        BY <1>1, <3>4, <3>5, DataReplaced
    <2>5. writer' \in [Upload -> {"none", "open", "detached", "written"}]
      BY <1>1, <1>4 DEF AppendFails, TypeOK, Set
    <2>6. trouble' \in [Upload -> 0..MaxTrouble]
      BY <1>1, <1>4, CountAssumption DEF AppendFails, TypeOK
    <2> QED
      BY <1>1, <2>1, <2>2, <2>3, <2>4, <2>5, <2>6 DEF AppendFails, TypeOK
  <1>8. \A v \in Upload \ {u}: Frame(v)
    BY <1>1, <1>4 DEF AppendFails, Frame, TypeOK, Set, Turned, Answer
  <1>9. At(u)'
    <2>1. WriterAt(u)'
      BY <1>1, <1>4 DEF AppendFails, WriterAt, TypeOK, Set
    <2>2. CountersAt(u)'
      BY <1>1, <1>3, <1>4 DEF AppendFails, At, CountersAt, Answer, Turned
    <2>3. LiveAt(u)'
      BY <1>1, <1>4 DEF AppendFails, At, LiveAt, Set, Turned
    <2>4. ContentAt(u)'
      BY <1>1, <1>4 DEF AppendFails, At, ContentAt, Set, Leftovers
    <2>5. HeldAt(u)'
      BY <1>1, <1>4 DEF AppendFails, At, HeldAt, TypeOK, Leftovers
    <2>6. IdleAt(u)'
      BY <1>1, <1>4 DEF AppendFails, At, IdleAt, Turned
    <2> QED
      BY <2>1, <2>2, <2>3, <2>4, <2>5, <2>6 DEF At
  <1> QED
    BY <1>7, <1>8, <1>9 DEF Moves

LEMMA AppendDoneKeeps ==
  ASSUME IInv, NEW u \in Upload, AppendDone(u)
  PROVE  Moves(u)
  <1>1. TypeOK /\ At(u)
    BY DEF IInv
  <1>2. chain[u] # <<>>
    BY <1>1 DEF At, WriterAt, AppendDone, HeadIs
  <1>3. /\ Head(chain[u]) \in Request /\ Head(chain[u]).kind = "chunk"
        /\ Tail(chain[u]) \in Seq(Request)
        /\ \A k \in 1..Len(Tail(chain[u])): Tail(chain[u])[k].kind = "chunk"
        /\ net[u] \in SUBSET Request
    BY <1>1, <1>2, HeadFacts DEF At, TypeOK
  <1>4. Turned(u, session[u].nextIndex + 1)
    BY <1>1, <1>3, ReplyTurns DEF AppendDone, Answer, At, WriterAt, HeadIs
  <1>5. session[u] \in StagedUpload /\ session[u].nextIndex < Slices
    BY <1>1 DEF At, WriterAt, AppendDone, HeadIs, TypeOK
  <1>6. /\ Stored(session[u]) \in StagedUpload
        /\ Stored(session[u]).received = session[u].received + 1
        /\ Stored(session[u]).nextIndex = session[u].nextIndex + 1
        /\ Stored(session[u]).complete = session[u].complete
        /\ Stored(session[u]).live = session[u].live
    <2>1. session[u].received + 1 \in 0..Slices /\ session[u].nextIndex + 1 \in 0..Slices
      BY <1>1, <1>5, CountAssumption DEF At, CountersAt, StagedUpload
    <2> QED
      BY <1>5, <2>1 DEF Stored, StagedUpload
  <1>10. session' \in [Upload -> StagedUpload] /\ session'[u] = Stored(session[u])
    BY <1>1, <1>6, SessionReplaced DEF AppendDone
  <1>7. TypeOK'
    <2>1. browser' \in [Upload -> Browser]
      BY <1>1, <1>4 DEF AppendDone, TypeOK, Turned
    <2>2. net' \in [Upload -> SUBSET Request]
      BY <1>1, <1>4 DEF AppendDone, TypeOK, Turned
    <2>3. chain' \in [Upload -> Seq(Request)]
      BY <1>1, <1>3 DEF AppendDone, TypeOK, Answer
    <2>4. session' \in [Upload -> StagedUpload]
      BY <1>10
    <2>5. writer' \in [Upload -> {"none", "open", "detached", "written"}]
      BY <1>1, <1>4 DEF AppendDone, TypeOK, Set
    <2> QED
      BY <1>1, <2>1, <2>2, <2>3, <2>4, <2>5 DEF AppendDone, TypeOK
  <1>8. \A v \in Upload \ {u}: Frame(v)
    BY <1>1, <1>4 DEF AppendDone, Frame, TypeOK, Set, Turned, Answer
  <1>9. At(u)'
    <2>1. WriterAt(u)'
      BY <1>1, <1>4, <1>5, <1>6, <1>10 DEF AppendDone, WriterAt, TypeOK, Set
    <2>2. CountersAt(u)'
      BY <1>1, <1>3, <1>4, <1>5, <1>6, <1>10
      DEF AppendDone, At, CountersAt, Answer, StagedUpload, Turned
    <2>3. LiveAt(u)'
      BY <1>1, <1>4, <1>5, <1>6, <1>10
      DEF AppendDone, At, LiveAt, Set, StagedUpload, Browser, Turned
    <2>4. ContentAt(u)'
      BY <1>1, <1>4, <1>5, <1>6, <1>10 DEF AppendDone, At, ContentAt, TypeOK, Set, HeadIs
    <2>5. HeldAt(u)'
      BY <1>1, <1>4, <1>5, <1>6, <1>10 DEF AppendDone, At, HeldAt, StagedUpload
    <2>6. IdleAt(u)'
      BY <1>1, <1>4, <1>5, <1>6, <1>10 DEF AppendDone, At, IdleAt, HeadIs, Turned
    <2> QED
      BY <2>1, <2>2, <2>3, <2>4, <2>5, <2>6 DEF At
  <1> QED
    BY <1>7, <1>8, <1>9 DEF Moves

LEMMA CompleteUploadKeeps ==
  ASSUME IInv, NEW u \in Upload, CompleteUpload(u)
  PROVE  Moves(u)
  <1>1. TypeOK /\ At(u)
    BY DEF IInv
  <1>2. Bare("complete") \in Request /\ Bare("complete").kind = "complete" /\ net[u] \ {Bare("complete")} \in SUBSET Request
    BY <1>1 DEF CompleteUpload, TypeOK, Bare
  <1>3. PICK ok \in BOOLEAN: Reply(u, Bare("complete"), ok, net[u] \ {Bare("complete")})
    BY DEF CompleteUpload
  <1>4. Turned(u, browser[u].index)
    BY <1>1, <1>2, <1>3, ReplyTurns
  <1>7. TypeOK'
    <2>1. browser' \in [Upload -> Browser]
      BY <1>1, <1>4 DEF CompleteUpload, TypeOK, Turned
    <2>2. net' \in [Upload -> SUBSET Request]
      BY <1>1, <1>4 DEF CompleteUpload, TypeOK, Turned
    <2>3. session' \in [Upload -> StagedUpload]
      <3>1. [session[u] EXCEPT !.complete = TRUE] \in StagedUpload
        <4>1. session[u] \in StagedUpload
          BY <1>1 DEF TypeOK
        <4> QED
          BY <4>1 DEF StagedUpload
      <3>2. \/ session' = session
            \/ session' = [session EXCEPT ![u] = [session[u] EXCEPT !.complete = TRUE]]
        BY DEF CompleteUpload
      <3> QED
        BY <1>1, <3>1, <3>2, SessionReplaced DEF TypeOK
    <2> QED
      BY <1>1, <2>1, <2>2, <2>3 DEF CompleteUpload, TypeOK
  <1>8. \A v \in Upload \ {u}: Frame(v)
    BY <1>1, <1>4 DEF CompleteUpload, Frame, TypeOK, Set, Turned
  <1>9. At(u)'
    <2>1. WriterAt(u)'
      BY <1>1, <1>4 DEF CompleteUpload, At, WriterAt, TypeOK, StagedUpload, Turned
    <2>2. CountersAt(u)'
      BY <1>1, <1>4 DEF CompleteUpload, At, CountersAt, TypeOK, StagedUpload, Turned
    <2>3. LiveAt(u)'
      BY <1>1, <1>4 DEF CompleteUpload, At, LiveAt, TypeOK, StagedUpload, Turned
    <2>4. ContentAt(u)'
      BY <1>1, <1>4 DEF CompleteUpload, At, ContentAt, TypeOK, StagedUpload, Turned
    <2>5. HeldAt(u)'
      BY <1>1, <1>4 DEF CompleteUpload, At, HeldAt, TypeOK, StagedUpload, Turned
    <2>6. IdleAt(u)'
      BY <1>1, <1>4 DEF CompleteUpload, At, IdleAt, TypeOK, StagedUpload, Turned
    <2> QED
      BY <2>1, <2>2, <2>3, <2>4, <2>5, <2>6 DEF At
  <1> QED
    BY <1>7, <1>8, <1>9 DEF Moves

LEMMA ChunkArrivesKeeps ==
  ASSUME IInv, NEW u \in Upload, ChunkArrives(u)
  PROVE  Moves(u)
  <1>1. TypeOK /\ At(u)
    BY DEF IInv
  <1>2. net[u] \in SUBSET Request
    BY <1>1 DEF TypeOK
  <1>3. PICK r \in net[u]: /\ r.kind = "chunk"
        /\ \/ /\ Accepts(session[u])
              /\ chain' = [chain EXCEPT ![u] = Append(@, r)]
              /\ net' = [net EXCEPT ![u] = @ \ {r}]
              /\ UNCHANGED browser
           \/ /\ ~Accepts(session[u])
              /\ Reply(u, r, FALSE, net[u] \ {r})
              /\ UNCHANGED chain
    BY DEF ChunkArrives
  <1>4. Turned(u, browser[u].index)
    <2>1. CASE UNCHANGED browser /\ net' = [net EXCEPT ![u] = @ \ {r}]
      BY <1>1, <1>2, <2>1 DEF Turned, TypeOK
    <2>2. CASE Reply(u, r, FALSE, net[u] \ {r})
      BY <1>1, <1>2, <2>2, ReplyTurns
    <2> QED
      BY <1>3, <2>1, <2>2
  <1>5. r \in Request /\ r.kind = "chunk" /\ chain[u] \in Seq(Request)
    BY <1>1, <1>2, <1>3 DEF TypeOK
  <1>6. \/ chain' = chain
        \/ chain' = [chain EXCEPT ![u] = Append(@, r)] /\ session[u].live
    BY <1>3 DEF Accepts
  <1>10. \/ chain'[u] = chain[u]
         \/ /\ chain'[u] = Append(chain[u], r) /\ session[u].live
            /\ Len(chain'[u]) = Len(chain[u]) + 1 /\ chain'[u][Len(chain[u]) + 1] = r
            /\ \A k \in 1..Len(chain[u]): chain'[u][k] = chain[u][k]
            /\ chain[u] # <<>> => chain'[u] # <<>> /\ Head(chain'[u]) = Head(chain[u])
    <2>1. CASE chain' = [chain EXCEPT ![u] = Append(@, r)] /\ session[u].live
      <3>1. chain'[u] = Append(chain[u], r)
        BY <1>1, <2>1 DEF TypeOK
      <3>2. /\ Len(Append(chain[u], r)) = Len(chain[u]) + 1
            /\ Append(chain[u], r)[Len(chain[u]) + 1] = r
            /\ \A k \in 1..Len(chain[u]): Append(chain[u], r)[k] = chain[u][k]
        BY <1>5
      <3>3. chain[u] # <<>> =>
              Append(chain[u], r) # <<>> /\ Head(Append(chain[u], r)) = Head(chain[u])
        BY <1>5
      <3> QED
        BY <2>1, <3>1, <3>2, <3>3
    <2> QED
      BY <1>6, <2>1
  <1>7. TypeOK'
    <2>1. browser' \in [Upload -> Browser]
      BY <1>1, <1>4 DEF ChunkArrives, TypeOK, Turned
    <2>2. net' \in [Upload -> SUBSET Request]
      BY <1>1, <1>4 DEF ChunkArrives, TypeOK, Turned
    <2>3. chain' \in [Upload -> Seq(Request)]
      <3>1. Append(chain[u], r) \in Seq(Request)
        BY <1>5
      <3> QED
        BY <1>1, <1>6, <3>1 DEF TypeOK
    <2> QED
      BY <1>1, <2>1, <2>2, <2>3 DEF ChunkArrives, TypeOK
  <1>8. \A v \in Upload \ {u}: Frame(v)
    BY <1>1, <1>4 DEF ChunkArrives, Frame, TypeOK, Set, Turned
  <1>9. At(u)'
    <2>1. WriterAt(u)'
      BY <1>1, <1>4, <1>5, <1>10 DEF ChunkArrives, At, WriterAt, TypeOK, Turned
    <2>2. CountersAt(u)'
      BY <1>1, <1>4, <1>5, <1>10 DEF ChunkArrives, At, CountersAt, TypeOK, Turned
    <2>3. LiveAt(u)'
      BY <1>1, <1>4 DEF ChunkArrives, At, LiveAt, TypeOK, Turned
    <2>4. ContentAt(u)'
      BY <1>1, <1>4 DEF ChunkArrives, At, ContentAt, TypeOK, Turned
    <2>5. HeldAt(u)'
      BY <1>1, <1>4 DEF ChunkArrives, At, HeldAt, TypeOK, Turned
    <2>6. IdleAt(u)'
      BY <1>1, <1>4, <1>5, <1>10 DEF ChunkArrives, At, IdleAt, TypeOK, Turned
    <2> QED
      BY <2>1, <2>2, <2>3, <2>4, <2>5, <2>6 DEF At
  <1> QED
    BY <1>7, <1>8, <1>9 DEF Moves

LEMMA ClaimUploadKeeps ==
  ASSUME IInv, NEW u \in Upload, ClaimUpload(u)
  PROVE  Moves(u)
  <1>1. TypeOK /\ At(u)
    BY DEF IInv
  <1>2. Bare("claim") \in Request /\ Bare("claim").kind = "claim" /\ net[u] \ {Bare("claim")} \in SUBSET Request
    BY <1>1 DEF ClaimUpload, TypeOK, Bare
  <1>3. \/ /\ session[u].live /\ session[u].complete
           /\ session' = [session EXCEPT ![u].live = FALSE]
           /\ use' = [use EXCEPT ![u] = "holds"]
           /\ net' = [net EXCEPT ![u] = @ \ {Bare("claim")}]
           /\ UNCHANGED browser
        \/ /\ Reply(u, Bare("claim"), FALSE, net[u] \ {Bare("claim")})
           /\ UNCHANGED <<session, use>>
    BY DEF ClaimUpload, Claimed, Set
  <1>4. Turned(u, browser[u].index)
    <2>1. CASE UNCHANGED browser /\ net' = [net EXCEPT ![u] = @ \ {Bare("claim")}]
      BY <1>1, <2>1 DEF Turned, TypeOK
    <2>2. CASE Reply(u, Bare("claim"), FALSE, net[u] \ {Bare("claim")})
      BY <1>1, <1>2, <2>2, ReplyTurns
    <2> QED
      BY <1>3, <2>1, <2>2
  <1>5. \/ UNCHANGED <<session, use>>
        \/ /\ session' \in [Upload -> StagedUpload] /\ ~session'[u].live
           /\ session'[u].received = session[u].received
           /\ session'[u].nextIndex = session[u].nextIndex
           /\ session'[u].complete = session[u].complete
           /\ session[u].live /\ session[u].complete /\ use'[u] = "holds"
    BY <1>1, <1>3, SessionDropped DEF TypeOK
  <1>6. session[u] \in StagedUpload /\ Whole = Prefix(Slices)
    BY <1>1 DEF TypeOK, Whole, Prefix
  <1>7. TypeOK'
    <2>1. browser' \in [Upload -> Browser]
      BY <1>1, <1>4 DEF ClaimUpload, TypeOK, Turned
    <2>2. net' \in [Upload -> SUBSET Request]
      BY <1>1, <1>4 DEF ClaimUpload, TypeOK, Turned
    <2>3. session' \in [Upload -> StagedUpload]
      BY <1>1, <1>5 DEF TypeOK
    <2>4. use' \in [Upload -> {"none", "holds", "kept", "refused", "stranded"}]
      BY <1>1, <1>4 DEF ClaimUpload, TypeOK, Set
    <2> QED
      BY <1>1, <2>1, <2>2, <2>3, <2>4 DEF ClaimUpload, TypeOK
  <1>8. \A v \in Upload \ {u}: Frame(v)
    BY <1>1, <1>4 DEF ClaimUpload, Frame, TypeOK, Set, Turned
  <1>9. At(u)'
    <2>1. WriterAt(u)'
      BY <1>1, <1>4, <1>5, <1>6 DEF ClaimUpload, At, WriterAt
    <2>2. CountersAt(u)'
      BY <1>1, <1>4, <1>5, <1>6 DEF ClaimUpload, At, CountersAt, Turned
    <2>3. LiveAt(u)'
      BY <1>1, <1>4, <1>5, <1>6 DEF ClaimUpload, At, LiveAt, Turned
    <2>4. ContentAt(u)'
      BY <1>1, <1>4, <1>5, <1>6 DEF ClaimUpload, At, ContentAt
    <2>5. HeldAt(u)'
      BY <1>1, <1>4, <1>5, <1>6
      DEF ClaimUpload, At, WriterAt, CountersAt, LiveAt, ContentAt, HeldAt, StagedUpload
    <2>6. IdleAt(u)'
      BY <1>1, <1>4, <1>5, <1>6 DEF ClaimUpload, At, IdleAt, Turned
    <2> QED
      BY <2>1, <2>2, <2>3, <2>4, <2>5, <2>6 DEF At
  <1> QED
    BY <1>7, <1>8, <1>9 DEF Moves

LEMMA ConsumerKeepsKeeps ==
  ASSUME IInv, NEW u \in Upload, ConsumerKeeps(u)
  PROVE  Moves(u)
  <1>1. TypeOK /\ At(u)
    BY DEF IInv
  <1>2. /\ Bare("claim") \in Request /\ net[u] \in SUBSET Request
        /\ Bare("claim").kind = "claim"
    BY <1>1, CountAssumption DEF TypeOK, Bare, Request, Slice
  <1>4. Turned(u, browser[u].index)
    BY <1>1, <1>2, ReplyTurns DEF ConsumerKeeps
  <1>7. TypeOK'
    <2>1. browser' \in [Upload -> Browser]
      BY <1>1, <1>4 DEF ConsumerKeeps, TypeOK, Turned
    <2>2. net' \in [Upload -> SUBSET Request]
      BY <1>1, <1>4 DEF ConsumerKeeps, TypeOK, Turned
    <2>3. use' \in [Upload -> {"none", "holds", "kept", "refused", "stranded"}]
      BY <1>1, <1>4 DEF ConsumerKeeps, TypeOK, Set
    <2>4. given' \in [Upload -> Seq(Piece)]
      BY <1>1, <1>4 DEF ConsumerKeeps, TypeOK, Set
    <2>5. file' \in [Upload -> [there: BOOLEAN, data: Seq(Piece)]]
      BY <1>1, <1>4 DEF ConsumerKeeps, TypeOK, Set, NoFile
    <2> QED
      BY <1>1, <2>1, <2>2, <2>3, <2>4, <2>5 DEF ConsumerKeeps, TypeOK
  <1>8. \A v \in Upload \ {u}: Frame(v)
    BY <1>1, <1>4 DEF ConsumerKeeps, Frame, TypeOK, Set, Turned
  <1>9. At(u)'
    <2>1. WriterAt(u)'
      BY <1>1, <1>4 DEF ConsumerKeeps, At, WriterAt, TypeOK, Set, NoFile, Turned
    <2>2. CountersAt(u)'
      BY <1>1, <1>4 DEF ConsumerKeeps, At, CountersAt, TypeOK, Set, NoFile, Turned
    <2>3. LiveAt(u)'
      BY <1>1, <1>4 DEF ConsumerKeeps, At, LiveAt, TypeOK, Set, NoFile, Turned
    <2>4. ContentAt(u)'
      BY <1>1, <1>4 DEF ConsumerKeeps, At, LiveAt, ContentAt
    <2>5. HeldAt(u)'
      BY <1>1, <1>4 DEF ConsumerKeeps, At, HeldAt, TypeOK, Set, NoFile, Turned
    <2>6. IdleAt(u)'
      BY <1>1, <1>4 DEF ConsumerKeeps, At, IdleAt, TypeOK, Set, NoFile, Turned
    <2> QED
      BY <2>1, <2>2, <2>3, <2>4, <2>5, <2>6 DEF At
  <1> QED
    BY <1>7, <1>8, <1>9 DEF Moves

LEMMA ConsumerRefusesKeeps ==
  ASSUME IInv, NEW u \in Upload, ConsumerRefuses(u)
  PROVE  Moves(u)
  <1>1. TypeOK /\ At(u)
    BY DEF IInv
  <1>2. /\ Bare("claim") \in Request /\ net[u] \in SUBSET Request
        /\ Bare("claim").kind = "claim"
    BY <1>1, CountAssumption DEF TypeOK, Bare, Request, Slice
  <1>4. Turned(u, browser[u].index)
    BY <1>1, <1>2, ReplyTurns DEF ConsumerRefuses
  <1>7. TypeOK'
    <2>1. browser' \in [Upload -> Browser]
      BY <1>1, <1>4 DEF ConsumerRefuses, TypeOK, Turned
    <2>2. net' \in [Upload -> SUBSET Request]
      BY <1>1, <1>4 DEF ConsumerRefuses, TypeOK, Turned
    <2>3. use' \in [Upload -> {"none", "holds", "kept", "refused", "stranded"}]
      BY <1>1, <1>4 DEF ConsumerRefuses, TypeOK, Set
    <2>4. removing' \in [Upload -> BOOLEAN]
      BY <1>1, <1>4 DEF ConsumerRefuses, TypeOK, Set
    <2>5. cut' \in [Upload -> BOOLEAN]
      BY <1>1, <1>4 DEF ConsumerRefuses, TypeOK, Set
    <2> QED
      BY <1>1, <2>1, <2>2, <2>3, <2>4, <2>5 DEF ConsumerRefuses, TypeOK
  <1>8. \A v \in Upload \ {u}: Frame(v)
    BY <1>1, <1>4 DEF ConsumerRefuses, Frame, TypeOK, Set, Turned
  <1>9. At(u)'
    <2>1. WriterAt(u)'
      BY <1>1, <1>4 DEF ConsumerRefuses, At, WriterAt, TypeOK, Set, Turned
    <2>2. CountersAt(u)'
      BY <1>1, <1>4 DEF ConsumerRefuses, At, CountersAt, TypeOK, Set, Turned
    <2>3. LiveAt(u)'
      BY <1>1, <1>4 DEF ConsumerRefuses, At, LiveAt, TypeOK, Set, Turned
    <2>4. ContentAt(u)'
      BY <1>1, <1>4 DEF ConsumerRefuses, At, ContentAt, TypeOK, Set, Turned
    <2>5. HeldAt(u)'
      BY <1>1, <1>4 DEF ConsumerRefuses, At, HeldAt, TypeOK, Set, Turned
    <2>6. IdleAt(u)'
      BY <1>1, <1>4 DEF ConsumerRefuses, At, IdleAt, TypeOK, Set, Turned
    <2> QED
      BY <2>1, <2>2, <2>3, <2>4, <2>5, <2>6 DEF At
  <1> QED
    BY <1>7, <1>8, <1>9 DEF Moves

LEMMA CreateReturnsEarlyKeeps ==
  ASSUME IInv, NEW u \in Upload, CreateReturnsEarly(u)
  PROVE  Moves(u)
  <1>1. TypeOK /\ At(u)
    BY DEF IInv
  <1>2. /\ Bare("claim") \in Request /\ net[u] \in SUBSET Request
        /\ Bare("claim").kind = "claim"
    BY <1>1, CountAssumption DEF TypeOK, Bare, Request, Slice
  <1>4. Turned(u, browser[u].index)
    BY <1>1, <1>2, ReplyTurns DEF CreateReturnsEarly
  <1>7. TypeOK'
    <2>1. browser' \in [Upload -> Browser]
      BY <1>1, <1>4 DEF CreateReturnsEarly, TypeOK, Turned
    <2>2. net' \in [Upload -> SUBSET Request]
      BY <1>1, <1>4 DEF CreateReturnsEarly, TypeOK, Turned
    <2>3. use' \in [Upload -> {"none", "holds", "kept", "refused", "stranded"}]
      BY <1>1, <1>4 DEF CreateReturnsEarly, TypeOK, Set
    <2>4. cut' \in [Upload -> BOOLEAN]
      BY <1>1, <1>4 DEF CreateReturnsEarly, TypeOK, Set
    <2> QED
      BY <1>1, <2>1, <2>2, <2>3, <2>4 DEF CreateReturnsEarly, TypeOK
  <1>8. \A v \in Upload \ {u}: Frame(v)
    BY <1>1, <1>4 DEF CreateReturnsEarly, Frame, TypeOK, Set, Turned
  <1>9. At(u)'
    <2>1. WriterAt(u)'
      BY <1>1, <1>4 DEF CreateReturnsEarly, At, WriterAt, TypeOK, Set, Turned
    <2>2. CountersAt(u)'
      BY <1>1, <1>4 DEF CreateReturnsEarly, At, CountersAt, TypeOK, Set, Turned
    <2>3. LiveAt(u)'
      BY <1>1, <1>4 DEF CreateReturnsEarly, At, LiveAt, TypeOK, Set, Turned
    <2>4. ContentAt(u)'
      BY <1>1, <1>4 DEF CreateReturnsEarly, At, ContentAt, TypeOK, Set, Turned
    <2>5. HeldAt(u)'
      BY <1>1, <1>4 DEF CreateReturnsEarly, At, HeldAt, TypeOK, Set, Turned
    <2>6. IdleAt(u)'
      BY <1>1, <1>4 DEF CreateReturnsEarly, At, IdleAt, TypeOK, Set, Turned
    <2> QED
      BY <2>1, <2>2, <2>3, <2>4, <2>5, <2>6 DEF At
  <1> QED
    BY <1>7, <1>8, <1>9 DEF Moves

LEMMA AppendWritesKeeps ==
  ASSUME IInv, NEW u \in Upload, AppendWrites(u)
  PROVE  Moves(u)
  <1>1. TypeOK /\ At(u)
    BY DEF IInv
  <1>2. chain[u] # <<>> /\ session[u].nextIndex \in Nat
    BY <1>1 DEF At, WriterAt, AppendWrites, TypeOK, StagedUpload
  <1>4. Head(chain[u]).index \in Piece
    BY <1>1, <1>2, HeadFacts DEF At, Request, Piece
  <1>3. Append(Prefix(session[u].nextIndex), session[u].nextIndex) = Prefix(session[u].nextIndex + 1)
    BY <1>2, PrefixGrows
  <1>5. use[u] # "holds"
    BY <1>1, CountAssumption DEF AppendWrites, At, WriterAt, HeldAt
  <1>7. TypeOK'
    <2>1. writer' \in [Upload -> {"none", "open", "detached", "written"}]
      BY <1>1 DEF AppendWrites, TypeOK, Set
    <2>2. file' \in [Upload -> [there: BOOLEAN, data: Seq(Piece)]]
      <3>1. Append(file[u].data, Head(chain[u]).index) \in Seq(Piece)
        BY <1>1, <1>4 DEF TypeOK
      <3> QED
        BY <1>1, <3>1, DataReplaced DEF AppendWrites, TypeOK
    <2> QED
      BY <1>1, <2>1, <2>2 DEF AppendWrites, TypeOK
  <1>8. \A v \in Upload \ {u}: Frame(v)
    BY <1>1 DEF AppendWrites, Frame, TypeOK, Set
  <1>9. At(u)'
    <2>1. WriterAt(u)'
      BY <1>1 DEF AppendWrites, At, WriterAt, TypeOK, Set
    <2>2. CountersAt(u)'
      BY <1>1 DEF AppendWrites, At, CountersAt, TypeOK, Set
    <2>3. LiveAt(u)'
      BY <1>1 DEF AppendWrites, At, LiveAt, TypeOK, Set
    <2>4. ContentAt(u)'
      BY <1>1, <1>2, <1>3 DEF AppendWrites, At, WriterAt, LiveAt, ContentAt, TypeOK, Set
    <2>5. HeldAt(u)'
      BY <1>1, <1>5 DEF AppendWrites, At, HeldAt, TypeOK
    <2>6. IdleAt(u)'
      BY <1>1 DEF AppendWrites, At, IdleAt, TypeOK, Set
    <2> QED
      BY <2>1, <2>2, <2>3, <2>4, <2>5, <2>6 DEF At
  <1> QED
    BY <1>7, <1>8, <1>9 DEF Moves

-----------------------------------------------------------------------------
\* A crash resets every upload at once.

LEMMA CrashKeeps ==
  ASSUME IInv, CrashAndBoot
  PROVE  IInv'
  <1> DEFINE reset(v) == browser[v].pc \in Waiting /\ Current(browser[v]) \notin net[v]
  <1>1. TypeOK /\ \A v \in Upload: At(v)
    BY DEF IInv
  <1>2. ASSUME NEW v \in Upload
        PROVE  /\ browser'[v] \in Browser /\ net'[v] \in SUBSET Request
               /\ browser'[v].index = browser[v].index
               /\ \/ browser'[v] = browser[v] /\ net'[v] = net[v]
                  \/ browser[v].pc # "idle" /\ browser'[v].pc \notin {"idle", "chunk"}
    <2>1. browser[v] \in Browser /\ net[v] \in SUBSET Request
      BY <1>1, <1>2 DEF TypeOK
    <2>2. /\ browser'[v] = IF reset(v) THEN Fail(browser[v]) ELSE browser[v]
          /\ net'[v] = IF reset(v) THEN net[v] \cup Sends(browser[v], FALSE) ELSE net[v]
      BY <1>2 DEF CrashAndBoot
    <2>3. /\ Fail(browser[v]) \in Browser /\ Fail(browser[v]).index = browser[v].index
          /\ Sends(browser[v], FALSE) \subseteq Request
          /\ reset(v) => Fail(browser[v]).pc \notin {"idle", "chunk"} /\ browser[v].pc # "idle"
      BY <2>1, BrowserTurns DEF Waiting
    <2>4. CASE reset(v)
      <3>1. /\ browser'[v] = Fail(browser[v])
            /\ net'[v] = net[v] \cup Sends(browser[v], FALSE)
        BY <2>2, <2>4
      <3> QED
        BY <2>1, <2>3, <2>4, <3>1
    <2>5. CASE ~reset(v)
      BY <2>1, <2>2, <2>5
    <2> QED
      BY <2>4, <2>5
  <1>3. NoSession \in StagedUpload
    BY CountAssumption DEF NoSession, StagedUpload
  <1>4. TypeOK'
    <2>1. browser' \in [Upload -> Browser] /\ net' \in [Upload -> SUBSET Request]
      BY <1>2 DEF CrashAndBoot
    <2>2. session' \in [Upload -> StagedUpload]
      BY <1>3 DEF CrashAndBoot
    <2>3. chain' \in [Upload -> Seq(Request)]
      BY DEF CrashAndBoot
    <2> QED
      BY <1>1, <2>1, <2>2, <2>3 DEF CrashAndBoot, TypeOK
  <1>5. ASSUME NEW v \in Upload PROVE At(v)'
    <2>1. /\ session'[v] = NoSession /\ chain'[v] = <<>> /\ writer'[v] = "none"
          /\ file'[v] = file[v] /\ given'[v] = given[v]
          /\ use'[v] = IF use[v] = "holds" THEN "refused" ELSE use[v]
          /\ removing'[v] = file[v].there
      BY <1>1, <1>5 DEF CrashAndBoot, TypeOK
    <2>2. WriterAt(v)' /\ LiveAt(v)' /\ ContentAt(v)'
      BY <2>1 DEF WriterAt, LiveAt, ContentAt, NoSession
    <2>3. CountersAt(v)'
      BY <1>1, <1>2, <1>5, <2>1 DEF At, CountersAt, NoSession
    <2>4. HeldAt(v)'
      BY <1>1, <1>5, <2>1 DEF At, HeldAt
    <2>5. IdleAt(v)'
      BY <1>1, <1>2, <1>5, <2>1 DEF At, IdleAt, NoSession
    <2> QED
      BY <2>2, <2>3, <2>4, <2>5 DEF At
  <1> QED
    BY <1>4, <1>5 DEF IInv

-----------------------------------------------------------------------------
\* The invariant holds in every reachable state.

LEMMA StartsRight == Init => IInv
  <1> SUFFICES ASSUME Init PROVE IInv
    OBVIOUS
  <1>1. TypeOK
    <2>1. NoSession \in StagedUpload
      BY CountAssumption DEF NoSession, StagedUpload
    <2>2. [pc |-> "idle", index |-> 0, attempt |-> 0] \in Browser
      BY CountAssumption DEF Browser
    <2>3. <<>> \in Seq(Request) /\ <<>> \in Seq(Piece) /\ 0 \in 0..MaxTrouble
      BY CountAssumption
    <2> QED
      BY <2>1, <2>2, <2>3 DEF Init, TypeOK, NoFile
  <1>2. ASSUME NEW u \in Upload PROVE At(u)
    BY <1>2
    DEF Init, NoSession, NoFile, At, WriterAt, CountersAt, LiveAt, ContentAt, HeldAt, IdleAt
  <1> QED
    BY <1>1, <1>2 DEF IInv

LEMMA UploadMoves ==
  ASSUME IInv, NEW u \in Upload,
         \/ Begins(u) \/ SendChunk(u) \/ Breaks(u) \/ Arrives(u) \/ AppendSteps(u)
         \/ Consumes(u) \/ Sweep(u) \/ RemoveFile(u)
  PROVE  Moves(u)
  <1>1. Begins(u) => Moves(u)
    BY BeginUploadKeeps, BeginRefusedKeeps DEF Begins
  <1>2. Breaks(u) => Moves(u)
    BY ConnectionBreaksKeeps, DiscardLostKeeps, TabClosesKeeps DEF Breaks
  <1>3. Arrives(u) => Moves(u)
    BY ChunkArrivesKeeps, CompleteUploadKeeps, DiscardUploadKeeps, ClaimUploadKeeps
    DEF Arrives
  <1>4. AppendSteps(u) => Moves(u)
    BY AppendReturnsKeeps, AppendOpensKeeps, AppendWritesKeeps, AppendFailsKeeps,
       AppendDoneKeeps DEF AppendSteps
  <1>5. Consumes(u) => Moves(u)
    BY ConsumerKeepsKeeps, ConsumerRefusesKeeps, CreateReturnsEarlyKeeps DEF Consumes
  <1>6. SendChunk(u) \/ Sweep(u) \/ RemoveFile(u) => Moves(u)
    BY SendChunkKeeps, SweepKeeps, RemoveFileKeeps
  <1> QED
    BY <1>1, <1>2, <1>3, <1>4, <1>5, <1>6

LEMMA StutterKeeps ==
  ASSUME IInv, UNCHANGED vars
  PROVE  IInv'
  BY DEF IInv, TypeOK, At, WriterAt, CountersAt, LiveAt, ContentAt, HeldAt, IdleAt, vars

LEMMA InvariantHolds == Spec => []IInv
  <1>1. IInv /\ [Next]_vars => IInv'
    BY UploadMoves, OneMoves, CrashKeeps, StutterKeeps DEF Next
  <1> QED
    BY StartsRight, <1>1, PTL DEF Spec

\* Every variable of Uploads keeps its type.
THEOREM UploadTypeCorrect == Spec => []TypeOK
  <1>1. IInv => TypeOK
    BY DEF IInv
  <1> QED
    BY <1>1, InvariantHolds, PTL

\* Whatever connections break, whatever is retried, late, swept or lost in a
\* crash: a slice the browser counts as sent is in the file, at its place.
THEOREM SentStored ==
  ASSUME ~TornWrites
  PROVE  Spec => []SentIsStored
  <1>1. IInv => SentIsStored
    <2> SUFFICES ASSUME IInv, NEW u \in Upload, session[u].live, NEW k \in 1..browser[u].index
                 PROVE  k <= Len(file[u].data) /\ file[u].data[k] = k - 1
      BY DEF SentIsStored
    <2>1. TypeOK /\ LiveAt(u) /\ ContentAt(u)
      BY DEF IInv, At
    <2>2. PICK n \in Nat: file[u].data = Prefix(n) /\ browser[u].index <= n
      BY <2>1 DEF LiveAt, ContentAt, TypeOK, StagedUpload, Browser
    <2>3. browser[u].index \in Nat
      BY <2>1, CountAssumption DEF TypeOK, Browser
    <2> QED
      BY <2>2, <2>3 DEF Prefix
  <1> QED
    BY <1>1, InvariantHolds, PTL

\* A consumer gets, and keeps, exactly the file that was sent.
THEOREM DeliveredWhole ==
  ASSUME ~TornWrites
  PROVE  Spec => []HandedOverWhole
  <1>1. IInv => HandedOverWhole
    <2> SUFFICES ASSUME IInv, NEW u \in Upload
                 PROVE  /\ use[u] = "holds" => file[u] = [there |-> TRUE, data |-> Whole]
                        /\ use[u] = "kept"  => given[u] = Whole
      BY DEF HandedOverWhole
    <2>1. HeldAt(u) /\ file[u] \in [there: BOOLEAN, data: Seq(Piece)]
      BY DEF IInv, At, TypeOK
    <2> QED
      BY <2>1 DEF HeldAt
  <1> QED
    BY <1>1, InvariantHolds, PTL

-----------------------------------------------------------------------------
(* Uploads implements Assembly.                                            *)

\* What Assembly may see of a step of u.
Seen(u) ==
  \/ FateOf(u)' = FateOf(u) /\ StoredOf(u)' = StoredOf(u)
  \/ FateOf(u) = "none" /\ FateOf(u)' = "open" /\ StoredOf(u)' = StoredOf(u)
  \/ /\ FateOf(u) = "open" /\ FateOf(u)' = "open" /\ Len(StoredOf(u)) < Slices
     /\ StoredOf(u)' = Append(StoredOf(u), Len(StoredOf(u)))
  \/ /\ FateOf(u) = "open" /\ FateOf(u)' = "taken"
     /\ StoredOf(u) = Whole /\ StoredOf(u)' = StoredOf(u)
  \/ FateOf(u) = "taken" /\ FateOf(u)' = "used" /\ StoredOf(u)' = StoredOf(u)
  \/ FateOf(u) \in {"none", "open", "taken"} /\ FateOf(u)' = "gone" /\ StoredOf(u)' = <<>>

LEMMA FrameUnseen ==
  ASSUME NEW v \in Upload, Frame(v)
  PROVE  FateOf(v)' = FateOf(v) /\ StoredOf(v)' = StoredOf(v)
  BY DEF Frame, FateOf, StoredOf

\* A step that touches neither the session, the consumer nor the data, and does
\* not begin the upload, is not seen.
LEMMA QuietUnseen ==
  ASSUME NEW u \in Upload, session'[u] = session[u], use'[u] = use[u], given'[u] = given[u],
         file'[u].data = file[u].data,
         browser'[u].pc = "idle" <=> browser[u].pc = "idle"
  PROVE  Seen(u)
  BY DEF Seen, FateOf, StoredOf

\* An answer never begins an upload.
LEMMA ReplyBegins ==
  ASSUME TypeOK, NEW u \in Upload, NEW r \in Request, NEW ok \in BOOLEAN,
         NEW rest \in SUBSET net[u], Reply(u, r, ok, rest)
  PROVE  browser'[u].pc = "idle" <=> browser[u].pc = "idle"
  <1>1. browser'[u].pc = "idle" => browser[u].pc = "idle"
    BY ReplyTurns DEF Turned
  <1>2. browser[u].pc = "idle" => browser' = browser
    BY DEF Reply, Waiting
  <1> QED
    BY <1>1, <1>2

\* The seen changes of one upload are a step of Assembly.
LEMMA SeenSteps ==
  ASSUME NEW u \in Upload, Seen(u), \A v \in Upload \ {u}: Frame(v)
  PROVE  [Promise!Next]_(Promise!vars)
  <1> DEFINE fate == [v \in Upload |-> FateOf(v)]
             stored == [v \in Upload |-> StoredOf(v)]
             nextFate == [v \in Upload |-> FateOf(v)']
             nextStored == [v \in Upload |-> StoredOf(v)']
  <1>1. \A v \in Upload \ {u}: FateOf(v)' = FateOf(v) /\ StoredOf(v)' = StoredOf(v)
    BY FrameUnseen
  <1>2. nextFate = [fate EXCEPT ![u] = FateOf(u)']
    BY <1>1
  <1>3. nextStored = [stored EXCEPT ![u] = StoredOf(u)']
    BY <1>1
  <1>4. fate[u] = FateOf(u) /\ stored[u] = StoredOf(u)
    OBVIOUS
  <1>5. FateOf(u)' = FateOf(u) => nextFate = fate
    BY <1>1
  <1>6. StoredOf(u)' = StoredOf(u) => nextStored = stored
    BY <1>1
  <1>7. CASE FateOf(u)' = FateOf(u) /\ StoredOf(u)' = StoredOf(u)
    BY <1>5, <1>6, <1>7 DEF Promise!vars
  <1>8. CASE FateOf(u) = "none" /\ FateOf(u)' = "open" /\ StoredOf(u)' = StoredOf(u)
    <2>1. Promise!Open(u)
      BY <1>2, <1>4, <1>6, <1>8 DEF Promise!Open, Promise!Become
    <2> QED
      BY <2>1 DEF Promise!Next
  <1>9. CASE /\ FateOf(u) = "open" /\ FateOf(u)' = "open" /\ Len(StoredOf(u)) < Slices
             /\ StoredOf(u)' = Append(StoredOf(u), Len(StoredOf(u)))
    <2>1. Promise!Grow(u)
      BY <1>3, <1>4, <1>5, <1>9 DEF Promise!Grow
    <2> QED
      BY <2>1 DEF Promise!Next
  <1>10. CASE /\ FateOf(u) = "open" /\ FateOf(u)' = "taken"
              /\ StoredOf(u) = Whole /\ StoredOf(u)' = StoredOf(u)
    <2>1. Promise!Take(u)
      BY <1>2, <1>4, <1>6, <1>10 DEF Promise!Take, Promise!Become, Promise!Whole, Whole
    <2> QED
      BY <2>1 DEF Promise!Next
  <1>11. CASE FateOf(u) = "taken" /\ FateOf(u)' = "used" /\ StoredOf(u)' = StoredOf(u)
    <2>1. Promise!Use(u)
      BY <1>2, <1>4, <1>6, <1>11 DEF Promise!Use, Promise!Become
    <2> QED
      BY <2>1 DEF Promise!Next
  <1>12. CASE FateOf(u) \in {"none", "open", "taken"} /\ FateOf(u)' = "gone" /\ StoredOf(u)' = <<>>
    <2>1. Promise!Drop(u)
      BY <1>2, <1>3, <1>4, <1>12 DEF Promise!Drop, Promise!Become
    <2> QED
      BY <2>1 DEF Promise!Next
  <1> QED
    BY <1>7, <1>8, <1>9, <1>10, <1>11, <1>12 DEF Seen

-----------------------------------------------------------------------------
\* What the steps of an upload look like.

\* The steps that Assembly does not see.
LEMMA QuietSteps ==
  ASSUME IInv, ~TornWrites, NEW u \in Upload,
         \/ SendChunk(u) \/ Breaks(u) \/ ChunkArrives(u) \/ AppendReturns(u)
         \/ AppendOpens(u) \/ AppendFails(u) \/ RemoveFile(u)
  PROVE  Seen(u)
  <1>1. TypeOK /\ At(u)
    BY DEF IInv
  <1>2. Slices \in Nat \ {0} /\ MaxAttempts \in Nat \ {0}
    BY CountAssumption
  <1>3. CASE SendChunk(u)
    <2>1. browser'[u].pc \in {"chunk", "complete"} /\ browser[u].pc = "send"
      BY <1>1, <1>3 DEF SendChunk, TypeOK, Browser
    <2> QED
      BY <1>3, <2>1, QuietUnseen DEF SendChunk
  <1>4. CASE DiscardLost(u)
    BY <1>4, QuietUnseen DEF DiscardLost
  <1>5. CASE TabCloses(u)
    BY <1>1, <1>5, QuietUnseen DEF TabCloses, TypeOK, Waiting
  <1>6. CASE ConnectionBreaks(u)
    <2>1. PICK rest \in {net[u], net[u] \ {Current(browser[u])}}:
            Reply(u, Current(browser[u]), FALSE, rest)
      BY <1>6 DEF ConnectionBreaks
    <2>2. browser[u].pc # "idle" /\ browser[u].pc \in Waiting
      BY <1>6 DEF ConnectionBreaks, Waiting
    <2>3. Current(browser[u]) \in Request
      BY <1>1, <1>2, <2>2 DEF At, CountersAt, Current, Chunk, Bare, Request, Slice, Waiting,
                              TypeOK, Browser
    <2>4. browser'[u].pc = "idle" <=> browser[u].pc = "idle"
      BY <1>1, <2>1, <2>3, ReplyBegins DEF TypeOK
    <2> QED
      BY <1>6, <2>4, QuietUnseen DEF ConnectionBreaks
  <1>7. CASE ChunkArrives(u)
    <2>1. PICK r \in net[u]:
            UNCHANGED browser \/ Reply(u, r, FALSE, net[u] \ {r})
      BY <1>7 DEF ChunkArrives
    <2>2. browser'[u].pc = "idle" <=> browser[u].pc = "idle"
      BY <1>1, <2>1, ReplyBegins DEF TypeOK
    <2> QED
      BY <1>7, <2>2, QuietUnseen DEF ChunkArrives
  <1>8. CASE AppendReturns(u)
    <2>1. Head(chain[u]) \in Request
      BY <1>1, <1>8, HeadFacts DEF AppendReturns, HeadIs, At
    <2>2. Repeats(session[u], Head(chain[u])) \in BOOLEAN
      BY DEF Repeats
    <2>3. browser'[u].pc = "idle" <=> browser[u].pc = "idle"
      BY <1>1, <1>8, <2>1, <2>2, ReplyBegins DEF AppendReturns, Answer
    <2> QED
      BY <1>8, <2>3, QuietUnseen DEF AppendReturns
  <1>9. CASE AppendOpens(u)
    BY <1>1, <1>9, QuietUnseen DEF AppendOpens, TypeOK
  <1>10. CASE AppendFails(u)
    <2>1. writer[u] # "none" /\ chain[u] # <<>>
      BY <1>1, <1>10 DEF AppendFails, At, WriterAt
    <2>2. Head(chain[u]) \in Request
      BY <1>1, <2>1, HeadFacts DEF At
    <2>3. browser'[u].pc = "idle" <=> browser[u].pc = "idle"
      BY <1>1, <1>10, <2>2, ReplyBegins DEF AppendFails, Answer
    <2>4. file' = [file EXCEPT ![u].data = @ \o <<>>]
      BY <1>10 DEF AppendFails, Leftovers
    <2>5. file'[u].data = file[u].data
      BY <1>1, <2>4 DEF TypeOK
    <2> QED
      BY <1>10, <2>3, <2>5, QuietUnseen DEF AppendFails
  <1>11. CASE RemoveFile(u)
    <2>1. ~session[u].live /\ use[u] # "holds"
      BY <1>1, <1>11 DEF RemoveFile, At, LiveAt, HeldAt
    <2>2. session' = session /\ use' = use /\ given' = given /\ browser' = browser
      BY <1>11 DEF RemoveFile
    <2> QED
      BY <2>1, <2>2 DEF FateOf, StoredOf, Seen
  <1> QED
    BY <1>3, <1>4, <1>5, <1>6, <1>7, <1>8, <1>9, <1>10, <1>11 DEF Breaks

LEMMA BeginSteps ==
  ASSUME IInv, NEW u \in Upload, Begins(u)
  PROVE  Seen(u)
  <1>1. TypeOK /\ At(u)
    BY DEF IInv
  <1>2. browser[u].pc = "idle" /\ ~session[u].live /\ use[u] = "none" /\ use' = use
    BY <1>1 DEF Begins, BeginUpload, BeginRefused, At, IdleAt
  <1>3. FateOf(u) = "none" /\ StoredOf(u) = <<>>
    BY <1>2 DEF FateOf, StoredOf
  <1>4. CASE BeginUpload(u)
    <2>1. session'[u].live /\ file'[u].data = <<>>
      BY <1>1, <1>4 DEF BeginUpload, NewSession, TypeOK
    <2> QED
      BY <1>3, <2>1 DEF FateOf, StoredOf, Seen
  <1>5. CASE BeginRefused(u)
    <2>1. session' = session /\ browser'[u].pc = "failed"
      BY <1>1, <1>5 DEF BeginRefused, TypeOK, Browser
    <2> QED
      BY <1>2, <1>3, <2>1 DEF FateOf, StoredOf, Seen
  <1> QED
    BY <1>4, <1>5 DEF Begins

\* The one append that is seen is the next slice of a session that lives.
LEMMA WriteSteps ==
  ASSUME IInv, ~TornWrites, NEW u \in Upload, AppendWrites(u)
  PROVE  Seen(u)
  <1>1. TypeOK /\ At(u)
    BY DEF IInv
  <1>2. /\ session' = session /\ use' = use /\ given' = given /\ browser' = browser
        /\ writer[u] \in {"open", "detached"}
    BY DEF AppendWrites
  <1>3. CASE session[u].live
    <2>1. writer[u] = "open" /\ Head(chain[u]).index = session[u].nextIndex
          /\ session[u].nextIndex < Slices
      BY <1>1, <1>2, <1>3 DEF At, WriterAt, LiveAt
    <2>2. file'[u].data = Append(file[u].data, session[u].nextIndex)
      BY <1>1, <2>1 DEF AppendWrites, TypeOK
    <2>3. file[u].data = Prefix(session[u].nextIndex) /\ session[u].nextIndex \in Nat
      BY <1>1, <1>3, <2>1, CountAssumption DEF At, ContentAt, TypeOK, StagedUpload
    <2>4. Len(file[u].data) = session[u].nextIndex
      BY <2>3 DEF Prefix
    <2> QED
      BY <1>2, <1>3, <2>1, <2>2, <2>4 DEF FateOf, StoredOf, Seen
  <1>4. CASE ~session[u].live
    <2>1. use[u] # "holds"
      BY <1>1, <1>2 DEF At, HeldAt, WriterAt, TypeOK, StagedUpload
    <2> QED
      BY <1>2, <1>4, <2>1 DEF FateOf, StoredOf, Seen
  <1> QED
    BY <1>3, <1>4

\* Counting a slice, and completing, keep the session and its data.
LEMMA SessionSteps ==
  ASSUME IInv, NEW u \in Upload, AppendDone(u) \/ CompleteUpload(u)
  PROVE  Seen(u)
  <1>1. TypeOK /\ At(u)
    BY DEF IInv
  <1>2. use' = use /\ given' = given /\ file' = file
    BY DEF AppendDone, CompleteUpload
  <1>3. session'[u].live = session[u].live
    <2>1. session \in [Upload -> StagedUpload] /\ session[u] \in StagedUpload
      BY <1>1 DEF TypeOK
    <2>2. PICK s \in {session[u], Stored(session[u]), [session[u] EXCEPT !.complete = TRUE]}:
            session'[u] = s
      BY <2>1 DEF AppendDone, CompleteUpload
    <2> QED
      BY <2>1, <2>2 DEF Stored, StagedUpload
  <1>4. browser'[u].pc = "idle" <=> browser[u].pc = "idle"
    <2>1. CASE AppendDone(u)
      <3>1. Head(chain[u]) \in Request
        BY <1>1, <2>1, HeadFacts DEF AppendDone, HeadIs, At
      <3> QED
        BY <1>1, <2>1, <3>1, ReplyBegins DEF AppendDone, Answer
    <2>2. CASE CompleteUpload(u)
      <3>1. PICK ok \in BOOLEAN: Reply(u, Bare("complete"), ok, net[u] \ {Bare("complete")})
        BY <2>2 DEF CompleteUpload
      <3>2. Bare("complete") \in Request
        BY <1>1, <2>2 DEF CompleteUpload, TypeOK
      <3> QED
        BY <1>1, <3>1, <3>2, ReplyBegins
    <2> QED
      BY <2>1, <2>2
  <1> QED
    BY <1>2, <1>3, <1>4 DEF FateOf, StoredOf, Seen

\* A session that is discarded or swept drops its file; an answer that finds no
\* session changes nothing.
LEMMA RemovedSteps ==
  ASSUME IInv, NEW u \in Upload, DiscardUpload(u) \/ Sweep(u)
  PROVE  Seen(u)
  <1>1. TypeOK /\ At(u)
    BY DEF IInv
  <1>2. use' = use /\ given' = given /\ file' = file /\ browser' = browser
    BY DEF DiscardUpload, Sweep
  <1>3. CASE session[u].live
    <2>1. session' = [session EXCEPT ![u].live = FALSE]
      BY <1>3 DEF DiscardUpload, Sweep, Removed
    <2>2. ~session'[u].live /\ use[u] = "none" /\ browser[u].pc # "idle"
      BY <1>1, <1>3, <2>1, SessionDropped DEF At, LiveAt, IdleAt
    <2> QED
      BY <1>2, <1>3, <2>2 DEF FateOf, StoredOf, Seen
  <1>4. CASE ~session[u].live
    BY <1>2, <1>4, QuietUnseen DEF DiscardUpload, Sweep
  <1> QED
    BY <1>3, <1>4

\* Only a complete session is claimed, and it holds the whole file.
LEMMA ClaimSteps ==
  ASSUME IInv, ~TornWrites, NEW u \in Upload, ClaimUpload(u)
  PROVE  Seen(u)
  <1>1. TypeOK /\ At(u)
    BY DEF IInv
  <1>2. CASE session[u].live /\ session[u].complete
    <2>1. /\ session' = [session EXCEPT ![u].live = FALSE]
          /\ use' = Set(use, u, "holds") /\ file' = file
      BY <1>2 DEF ClaimUpload, Claimed
    <2>2. ~session'[u].live /\ use'[u] = "holds"
      BY <1>1, <2>1, SessionDropped DEF TypeOK, Set
    <2>3. session[u].nextIndex = Slices /\ writer[u] # "written"
      BY <1>1, <1>2 DEF At, CountersAt, WriterAt, TypeOK, StagedUpload
    <2>4. file[u].data = Whole
      BY <1>1, <1>2, <2>3 DEF At, ContentAt, Prefix, Whole
    <2> QED
      BY <1>2, <2>1, <2>2, <2>4 DEF FateOf, StoredOf, Seen
  <1>3. CASE ~(session[u].live /\ session[u].complete)
    <2>1. Reply(u, Bare("claim"), FALSE, net[u] \ {Bare("claim")}) /\ Bare("claim") \in Request
      BY <1>1, <1>3 DEF ClaimUpload, TypeOK
    <2>2. browser'[u].pc = "idle" <=> browser[u].pc = "idle"
      BY <1>1, <2>1, ReplyBegins
    <2> QED
      BY <1>3, <2>2, QuietUnseen DEF ClaimUpload
  <1> QED
    BY <1>2, <1>3

LEMMA ConsumerSteps ==
  ASSUME IInv, NEW u \in Upload, Consumes(u)
  PROVE  Seen(u)
  <1>1. TypeOK /\ At(u)
    BY DEF IInv
  <1>2. /\ use[u] = "holds" /\ ~session[u].live /\ session' = session
        /\ browser[u].pc # "idle"
    BY <1>1
    DEF Consumes, ConsumerKeeps, ConsumerRefuses, CreateReturnsEarly, At, LiveAt, IdleAt
  <1>3. CASE ConsumerKeeps(u)
    <2>1. use'[u] = "kept" /\ given'[u] = file[u].data
      BY <1>1, <1>3 DEF ConsumerKeeps, TypeOK, Set
    <2> QED
      BY <1>2, <2>1 DEF FateOf, StoredOf, Seen
  <1>4. CASE ConsumerRefuses(u) \/ CreateReturnsEarly(u)
    <2>1. use'[u] \in {"refused", "stranded"}
      BY <1>1, <1>4 DEF ConsumerRefuses, CreateReturnsEarly, TypeOK, Set
    <2>2. Reply(u, Bare("claim"), FALSE, net[u]) /\ Bare("claim") \in Request
      <3>1. 0 \in Slice /\ 0 \in 0..(MaxAttempts - 1)
        BY CountAssumption DEF Slice
      <3> QED
        BY <1>4, <3>1 DEF ConsumerRefuses, CreateReturnsEarly, Bare, Request
    <2>3. browser'[u].pc # "idle"
      BY <1>1, <1>2, <2>2, ReplyBegins
    <2> QED
      BY <1>2, <2>1, <2>3 DEF FateOf, StoredOf, Seen
  <1> QED
    BY <1>3, <1>4 DEF Consumes

-----------------------------------------------------------------------------
\* The steps of all uploads, and a crash.

LEMMA UploadSeen ==
  ASSUME IInv, ~TornWrites, NEW u \in Upload,
         \/ Begins(u) \/ SendChunk(u) \/ Breaks(u) \/ Arrives(u) \/ AppendSteps(u)
         \/ Consumes(u) \/ Sweep(u) \/ RemoveFile(u)
  PROVE  [Promise!Next]_(Promise!vars)
  <1>1. Seen(u)
    BY BeginSteps, QuietSteps, WriteSteps, SessionSteps, RemovedSteps, ClaimSteps,
       ConsumerSteps
    DEF Arrives, AppendSteps
  <1>2. Moves(u)
    BY UploadMoves
  <1> QED
    BY <1>1, <1>2, SeenSteps DEF Moves

LEMMA CrashSeen ==
  ASSUME IInv, CrashAndBoot
  PROVE  Promise!Next
  <1> DEFINE fate == [v \in Upload |-> FateOf(v)]
             stored == [v \in Upload |-> StoredOf(v)]
  <1>1. ASSUME NEW v \in Upload
        PROVE  /\ FateOf(v)' = IF FateOf(v) \in {"open", "taken"} THEN "gone" ELSE FateOf(v)
               /\ StoredOf(v)' = IF FateOf(v) \in {"open", "taken"} THEN <<>> ELSE StoredOf(v)
    <2>1. TypeOK /\ At(v)
      BY <1>1 DEF IInv
    <2>2. /\ session'[v] = NoSession /\ given'[v] = given[v]
          /\ use'[v] = IF use[v] = "holds" THEN "refused" ELSE use[v]
      BY <1>1 DEF CrashAndBoot
    <2>3. browser'[v].pc = "idle" <=> browser[v].pc = "idle"
      BY <1>1, <2>1, BrowserTurns DEF CrashAndBoot, TypeOK, Waiting
    <2>4. browser[v].pc = "idle" => ~session[v].live /\ use[v] = "none"
      BY <2>1 DEF At, IdleAt
    <2>5. session[v].live => use[v] = "none"
      BY <2>1 DEF At, LiveAt
    <2> QED
      BY <2>2, <2>3, <2>4, <2>5 DEF FateOf, StoredOf, NoSession
  <1>2. Promise!LoseAll
    BY <1>1 DEF Promise!LoseAll, Promise!Lost
  <1> QED
    BY <1>2 DEF Promise!Next

\* Uploads keeps the promise of Assembly: whatever breaks, is retried, late or
\* crashes, a file grows slice by slice and is handed over once, whole.
THEOREM UploadsAssemble ==
  ASSUME ~TornWrites
  PROVE  Spec => Assembled
  <1>1. Init => Promise!Init
    BY DEF Init, Promise!Init, FateOf, StoredOf, NoSession
  <1>2. ASSUME IInv, [Next]_vars
        PROVE  [Promise!Next]_(Promise!vars)
    <2>1. CASE Next
      BY <1>2, <2>1, UploadSeen, CrashSeen DEF Next
    <2>2. CASE UNCHANGED vars
      BY <2>2 DEF vars, Promise!vars, FateOf, StoredOf
    <2> QED
      BY <1>2, <2>1, <2>2
  <1> QED
    BY <1>1, <1>2, InvariantHolds, PTL DEF Spec, Assembled, Promise!Spec
=============================================================================
