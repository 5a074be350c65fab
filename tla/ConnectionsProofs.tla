-------------------------- MODULE ConnectionsProofs --------------------------
(***************************************************************************)
(* What the connections promise, for every batch of commands, every number *)
(* of runs, boots, lines and tabs.                                         *)
(***************************************************************************)
EXTENDS Connections, SequenceTheorems, TLAPS

-----------------------------------------------------------------------------
(* The RCON client.                                                        *)

\* A chunk, the number of chunks of an answer, and the i-th of them.
Chunk == [of: Command, short: BOOLEAN]
Size(c) == IF c \in Exact THEN Full[c] ELSE Full[c] + 1
ChunkAt(c, i) == [of |-> c, short |-> i > Full[c]]

\* What is on its way to the client, or will be.
Stream == toClient \o game

\* The game has read the request of this command.
HasRead(c) == c < inFlight \/ (c = inFlight /\ toGame = <<>>)

\* The rest of an answer of which so many chunks have been received lies behind
\* the first a chunks of a stream, in one piece and in order.
Block(str, c, a, got) ==
  /\ a \in Nat /\ got <= Size(c) /\ a + (Size(c) - got) <= Len(str)
  /\ \A i \in 1..Len(str):
       /\ str[i].of = c <=> a < i /\ i <= a + (Size(c) - got)
       /\ str[i].of = c => str[i] = ChunkAt(c, got + i - a)

BatchTypes ==
  /\ phase \in {"connecting", "authenticating", "running", "done", "failed"}
  /\ inFlight \in 0..Len(Full)
  /\ grace \in BOOLEAN
  /\ answers \in [Command -> Seq(Chunk)]
  /\ game \in Seq(Chunk) /\ toClient \in Seq(Chunk)
  /\ toGame = <<>> \/ (inFlight > 0 /\ toGame = <<inFlight>>)
  /\ hasty \subseteq Command

BatchOrder ==
  /\ phase \in {"connecting", "authenticating"} => inFlight = 0
  /\ phase = "running" => inFlight > 0
  /\ grace => phase = "running" /\ toGame = <<>>
  /\ phase = "done" => inFlight = Len(Full)

\* What is received and what is on its way make up an answer that was begun.
Begun(c) ==
  /\ \E a \in Nat: Block(Stream, c, a, Len(answers[c]))
  /\ \A k \in 1..Len(answers[c]): answers[c][k] = ChunkAt(c, k)

NotBegun(c) == answers[c] = <<>> /\ \A i \in 1..Len(Stream): Stream[i].of # c

AnswersFlow == \A c \in Command: IF HasRead(c) THEN Begun(c) ELSE NotBegun(c)

\* The command before the awaited one has its answer, or was given up.
Served(c) == c \in hasty \/ Len(answers[c]) = Size(c)
EarlierServed == \A c \in Command: c < inFlight \/ phase = "done" => Served(c)

BatchInv == BatchTypes /\ BatchOrder /\ AnswersFlow /\ EarlierServed

LEMMA BatchConstants ==
  /\ Command = 1..Len(Full) /\ Full \in Seq(Nat) /\ Len(Full) \in Nat \ {0}
  /\ Exact \subseteq Command
  /\ \A c \in Command: Full[c] \in Nat /\ (c \in Exact => Full[c] > 0)
BY ConnectionsAssumption DEF Rcon!RconAssumption

LEMMA SizesCount == ASSUME NEW c \in Command PROVE Size(c) \in Nat \ {0}
BY BatchConstants DEF Size

LEMMA ChunksCount == ASSUME NEW c \in Command, NEW i \in 1..Size(c) PROVE ChunkAt(c, i) \in Chunk
<1>1. Full[c] \in Nat /\ Size(c) \in Nat  BY BatchConstants, SizesCount
<1> QED  BY <1>1 DEF ChunkAt, Chunk

\* What the game writes for a request.
LEMMA ChunksAre ==
  ASSUME NEW c \in Command
  PROVE  /\ Rcon!Chunks(c) \in Seq(Chunk)
         /\ Len(Rcon!Chunks(c)) = Size(c)
         /\ \A i \in 1..Size(c): Rcon!Chunks(c)[i] = ChunkAt(c, i)
<1> DEFINE full == [i \in 1..Full[c] |-> [of |-> c, short |-> FALSE]]
           end == IF c \in Exact THEN <<>> ELSE <<[of |-> c, short |-> TRUE]>>
<1>1. Full[c] \in Nat /\ Size(c) \in Nat  BY BatchConstants, SizesCount
<1>2. full \in Seq(Chunk) /\ Len(full) = Full[c]
  <2>1. full \in [1..Full[c] -> Chunk] /\ DOMAIN full = 1..Full[c]  BY DEF Chunk
  <2>2. full \in Seq(Chunk)  BY <1>1, <2>1, SeqDef
  <2> QED  BY <1>1, <2>1, <2>2, LenProperties
<1>3. end \in Seq(Chunk) /\ Len(end) = Size(c) - Full[c] /\ (Len(end) > 0 => end[1] = ChunkAt(c, Full[c] + 1))
  <2>1. CASE c \in Exact
    <3>1. end = <<>> /\ Size(c) = Full[c]  BY <2>1 DEF Size
    <3> QED  BY <1>1, <3>1
  <2>2. CASE c \notin Exact
    <3>1. end = <<[of |-> c, short |-> TRUE]>> /\ Size(c) = Full[c] + 1  BY <2>2 DEF Size
    <3>2. [of |-> c, short |-> TRUE] \in Chunk  BY DEF Chunk
    <3>3. [of |-> c, short |-> TRUE] = ChunkAt(c, Full[c] + 1)
      <4>1. (Full[c] + 1 > Full[c]) = TRUE  BY <1>1
      <4> QED  BY <4>1 DEF ChunkAt
    <3> QED  BY <1>1, <3>1, <3>2, <3>3
  <2> QED  BY <2>1, <2>2
<1>4. ASSUME NEW i \in 1..Full[c] PROVE full[i] = ChunkAt(c, i)
  <2>1. (i > Full[c]) = FALSE  BY <1>1
  <2> QED  BY <2>1 DEF ChunkAt
<1>6. Len(end) \in {0, 1}  BY <1>1, <1>3 DEF Size
<1>7. Rcon!Chunks(c) = full \o end  BY DEF Rcon!Chunks
<1> HIDE DEF full, end
<1>8. /\ full \o end \in Seq(Chunk)
      /\ Len(full \o end) = Size(c)
      /\ \A i \in 1..Size(c): (full \o end)[i] = ChunkAt(c, i)
  BY <1>1, <1>2, <1>3, <1>4, <1>6, ConcatProperties
<1> QED  BY <1>7, <1>8

\* The head of a stream goes to its answer; every other answer stays in one piece.
LEMMA BlockTaken ==
  ASSUME NEW str \in Seq(Chunk), str # <<>>, NEW c \in Command, NEW a, NEW got \in Nat,
         Block(str, c, a, got), str[1].of = c
  PROVE  str[1] = ChunkAt(c, got + 1) /\ got < Size(c) /\ Block(Tail(str), c, 0, got + 1)
<1>1. Size(c) \in Nat  BY SizesCount
<1>2. Len(str) \in Nat /\ Len(str) > 0 /\ Len(Tail(str)) = Len(str) - 1
      /\ \A i \in 1..Len(Tail(str)): Tail(str)[i] = str[i + 1]
  OBVIOUS
<1>3. a = 0 /\ got < Size(c) /\ str[1] = ChunkAt(c, got + 1)
  BY <1>1, <1>2 DEF Block
<1>4. ASSUME NEW i \in 1..Len(Tail(str))
      PROVE  /\ Tail(str)[i].of = c <=> 0 < i /\ i <= 0 + (Size(c) - (got + 1))
             /\ Tail(str)[i].of = c => Tail(str)[i] = ChunkAt(c, (got + 1) + i - 0)
  <2>1. i + 1 \in 1..Len(str) /\ Tail(str)[i] = str[i + 1]  BY <1>2
  <2>2. /\ str[i + 1].of = c <=> a < i + 1 /\ i + 1 <= a + (Size(c) - got)
        /\ str[i + 1].of = c => str[i + 1] = ChunkAt(c, got + (i + 1) - a)
    BY <2>1 DEF Block
  <2>3. got + (i + 1) - a = (got + 1) + i - 0  BY <1>3
  <2> QED  BY <1>1, <1>3, <2>1, <2>2, <2>3
<1>5. got + 1 <= Size(c) /\ 0 + (Size(c) - (got + 1)) <= Len(Tail(str))
  BY <1>1, <1>2, <1>3 DEF Block
<1> QED  BY <1>3, <1>4, <1>5 DEF Block

LEMMA BlockMoves ==
  ASSUME NEW str \in Seq(Chunk), str # <<>>, NEW c \in Command, NEW a, NEW got \in Nat,
         Block(str, c, a, got), str[1].of # c
  PROVE  \E b \in Nat: Block(Tail(str), c, b, got)
<1>1. Size(c) \in Nat /\ a \in Nat /\ got <= Size(c)  BY SizesCount DEF Block
<1>2. Len(str) \in Nat /\ Len(str) > 0 /\ Len(Tail(str)) = Len(str) - 1
      /\ \A i \in 1..Len(Tail(str)): Tail(str)[i] = str[i + 1]
  OBVIOUS
<1>3. got = Size(c) \/ a > 0
  BY <1>1, <1>2 DEF Block
<1>4. CASE got = Size(c)
  <2>1. ASSUME NEW i \in 1..Len(Tail(str)) PROVE Tail(str)[i].of # c
    BY <1>1, <1>2, <1>4 DEF Block
  <2>2. 0 + (Size(c) - got) <= Len(Tail(str)) /\ Size(c) - got = 0  BY <1>1, <1>2, <1>4
  <2>3. ASSUME NEW i \in 1..Len(Tail(str)) PROVE ~ (0 < i /\ i <= 0 + (Size(c) - got))
    BY <1>2, <2>2
  <2>4. Block(Tail(str), c, 0, got)
    BY <1>4, <2>1, <2>2, <2>3 DEF Block
  <2> QED  BY <2>4
<1>5. CASE got < Size(c)
  <2>1. PICK b \in Nat: a = b + 1  BY <1>1, <1>3, <1>5
  <2>2. ASSUME NEW i \in 1..Len(Tail(str))
        PROVE  /\ Tail(str)[i].of = c <=> b < i /\ i <= b + (Size(c) - got)
               /\ Tail(str)[i].of = c => Tail(str)[i] = ChunkAt(c, got + i - b)
    <3>1. i + 1 \in 1..Len(str) /\ Tail(str)[i] = str[i + 1]  BY <1>2
    <3>2. /\ str[i + 1].of = c <=> a < i + 1 /\ i + 1 <= a + (Size(c) - got)
          /\ str[i + 1].of = c => str[i + 1] = ChunkAt(c, got + (i + 1) - a)
      BY <3>1 DEF Block
    <3>3. got + (i + 1) - a = got + i - b  BY <2>1
    <3> QED  BY <1>1, <2>1, <3>1, <3>2, <3>3
  <2>3. b + (Size(c) - got) <= Len(Tail(str))  BY <1>1, <1>2, <2>1 DEF Block
  <2> QED  BY <1>1, <2>2, <2>3 DEF Block
<1> QED  BY <1>1, <1>4, <1>5

\* A new answer goes behind the others, and keeps them in one piece.
LEMMA BlockAppended ==
  ASSUME NEW str \in Seq(Chunk), NEW d \in Command,
         \A i \in 1..Len(str): str[i].of # d
  PROVE  /\ Block(str \o Rcon!Chunks(d), d, Len(str), 0)
         /\ \A c \in Command \ {d}: \A a, got \in Nat:
              Block(str, c, a, got) => Block(str \o Rcon!Chunks(d), c, a, got)
         /\ \A c \in Command \ {d}:
              (\A i \in 1..Len(str): str[i].of # c) =>
                \A i \in 1..Len(str \o Rcon!Chunks(d)): (str \o Rcon!Chunks(d))[i].of # c
<1>1. PICK new \in Seq(Chunk): new = Rcon!Chunks(d)  BY ChunksAre
<1>2. /\ Size(d) \in Nat /\ Len(new) = Size(d)
      /\ \A i \in 1..Size(d): new[i] = ChunkAt(d, i) /\ new[i].of = d
  BY <1>1, ChunksAre, SizesCount DEF ChunkAt
<1>3. PICK all \in Seq(Chunk): all = str \o new  BY ConcatProperties
<1>4. /\ Len(all) = Len(str) + Size(d) /\ Len(str) \in Nat
      /\ \A i \in 1..Len(str): all[i] = str[i]
      /\ \A i \in Len(str)+1..Len(all): all[i] = new[i - Len(str)]
  <2>1. Len(str) \in Nat  OBVIOUS
  <2>2. Len(str \o new) = Len(str) + Len(new)
        /\ \A i \in 1..Len(str) + Len(new): (str \o new)[i] = IF i <= Len(str) THEN str[i] ELSE new[i - Len(str)]
    BY ConcatProperties
  <2>3. Len(all) = Len(str) + Size(d)  BY <1>2, <1>3, <2>2
  <2>4. ASSUME NEW i \in 1..Len(all) PROVE all[i] = IF i <= Len(str) THEN str[i] ELSE new[i - Len(str)]
    <3>1. i \in 1..Len(str) + Len(new)  BY <1>2, <2>3
    <3> QED  BY <1>3, <2>2, <3>1
  <2>5. ASSUME NEW i \in 1..Len(str) PROVE all[i] = str[i]
    <3>1. i \in 1..Len(all) /\ i <= Len(str)  BY <1>2, <2>1, <2>3
    <3> QED  BY <2>4, <3>1
  <2>6. ASSUME NEW i \in Len(str)+1..Len(all) PROVE all[i] = new[i - Len(str)]
    <3>1. i \in 1..Len(all) /\ ~ (i <= Len(str))  BY <1>2, <2>1, <2>3
    <3> QED  BY <2>4, <3>1
  <2> QED  BY <2>1, <2>3, <2>5, <2>6
<1>5. ASSUME NEW i \in Len(str)+1..Len(all) PROVE all[i] = ChunkAt(d, i - Len(str)) /\ all[i].of = d
  <2>1. i - Len(str) \in 1..Size(d)  BY <1>2, <1>4
  <2> QED  BY <1>2, <1>4, <2>1
<1>6. Block(all, d, Len(str), 0)
  <2>1. ASSUME NEW i \in 1..Len(all)
        PROVE  /\ all[i].of = d <=> Len(str) < i /\ i <= Len(str) + (Size(d) - 0)
               /\ all[i].of = d => all[i] = ChunkAt(d, 0 + i - Len(str))
    <3>1. CASE i <= Len(str)
      <4>1. all[i].of # d  BY <1>4, <3>1
      <4> QED  BY <1>2, <1>4, <3>1, <4>1
    <3>2. CASE i > Len(str)
      <4>1. i \in Len(str)+1..Len(all)  BY <1>4, <3>2
      <4>2. all[i] = ChunkAt(d, i - Len(str)) /\ all[i].of = d  BY <1>5, <4>1
      <4>3. 0 + i - Len(str) = i - Len(str)  BY <1>4
      <4> QED  BY <1>2, <1>4, <3>2, <4>2, <4>3
    <3> QED  BY <1>4, <3>1, <3>2
  <2> QED  BY <1>2, <1>4, <2>1 DEF Block
<1>7. ASSUME NEW c \in Command \ {d}, NEW a \in Nat, NEW got \in Nat, Block(str, c, a, got)
      PROVE  Block(all, c, a, got)
  <2>1. Size(c) \in Nat  BY SizesCount
  <2>2. ASSUME NEW i \in 1..Len(all)
        PROVE  /\ all[i].of = c <=> a < i /\ i <= a + (Size(c) - got)
               /\ all[i].of = c => all[i] = ChunkAt(c, got + i - a)
    <3>1. CASE i <= Len(str)
      <4>1. i \in 1..Len(str) /\ all[i] = str[i]  BY <1>4, <3>1
      <4> QED  BY <1>7, <4>1 DEF Block
    <3>2. CASE i > Len(str)
      <4>1. i \in Len(str)+1..Len(all)  BY <1>4, <3>2
      <4>2. all[i].of = d  BY <1>5, <4>1
      <4>3. a + (Size(c) - got) <= Len(str)  BY <1>7 DEF Block
      <4> QED  BY <1>4, <2>1, <3>2, <4>2, <4>3
    <3> QED  BY <1>4, <3>1, <3>2
  <2>3. a + (Size(c) - got) <= Len(all) /\ got <= Size(c)  BY <1>2, <1>4, <1>7, <2>1 DEF Block
  <2> QED  BY <2>2, <2>3 DEF Block
<1>8. ASSUME NEW c \in Command \ {d}, \A i \in 1..Len(str): str[i].of # c, NEW i \in 1..Len(all)
      PROVE  all[i].of # c
  <2>1. CASE i <= Len(str)  BY <1>4, <1>8, <2>1
  <2>2. CASE i > Len(str)
    <3>1. i \in Len(str)+1..Len(all)  BY <1>4, <2>2
    <3> QED  BY <1>5, <3>1
  <2> QED  BY <1>4, <2>1, <2>2
<1> QED  BY <1>1, <1>3, <1>6, <1>7, <1>8

LEMMA BatchStarts == Rcon!Init => BatchInv
<1> SUFFICES ASSUME Rcon!Init PROVE BatchInv  OBVIOUS
<1>1. Len(Full) \in Nat \ {0} /\ Command = 1..Len(Full)  BY BatchConstants
<1>2. <<>> \in Seq(Chunk)  OBVIOUS
<1>3. BatchTypes
  <2>1. answers \in [Command -> Seq(Chunk)]  BY <1>2 DEF Rcon!Init
  <2>2. inFlight \in 0..Len(Full) /\ hasty \subseteq Command  BY <1>1 DEF Rcon!Init
  <2>3. /\ phase = "connecting" /\ grace = FALSE /\ toGame = <<>>
        /\ game \in Seq(Chunk) /\ toClient \in Seq(Chunk)
    BY <1>2 DEF Rcon!Init
  <2> QED  BY <2>1, <2>2, <2>3 DEF BatchTypes
<1>4. BatchOrder  BY DEF BatchOrder, Rcon!Init
<1>5. Stream = <<>>  BY DEF Stream, Rcon!Init
<1>6. AnswersFlow
  <2>1. ASSUME NEW c \in Command PROVE ~ HasRead(c) /\ answers[c] = <<>>
    BY <1>1 DEF HasRead, Rcon!Init
  <2> QED  BY <1>5, <2>1 DEF AnswersFlow, NotBegun
<1>7. EarlierServed
  BY <1>1 DEF EarlierServed, Rcon!Init
<1> QED  BY <1>3, <1>4, <1>6, <1>7 DEF BatchInv

\* Nothing happens to the answers.
LEMMA FlowKept ==
  ASSUME AnswersFlow, Stream' = Stream, answers' = answers,
         \A c \in Command: HasRead(c)' <=> HasRead(c)
  PROVE  AnswersFlow'
<1> SUFFICES ASSUME NEW c \in Command PROVE IF HasRead(c)' THEN Begun(c)' ELSE NotBegun(c)'
  BY DEF AnswersFlow
<1>1. IF HasRead(c) THEN Begun(c) ELSE NotBegun(c)  BY DEF AnswersFlow
<1>2. Begun(c) => Begun(c)'  BY DEF Begun
<1>3. NotBegun(c) => NotBegun(c)'  BY DEF NotBegun
<1> QED  BY <1>1, <1>2, <1>3

\* sendNext asks for no answer before the one it waited for has been read.
LEMMA SendGoesOn ==
  ASSUME BatchTypes, BatchOrder, phase = "running", toGame = <<>>, Rcon!SendNext
  PROVE  /\ phase' \in {"running", "done"} /\ inFlight' \in 0..Len(Full) /\ grace' = FALSE /\ game' = game
         /\ toGame' = <<>> \/ (inFlight' > 0 /\ toGame' = <<inFlight'>>)
         /\ BatchOrder'
         /\ \A c \in Command: HasRead(c)' <=> HasRead(c)
         /\ \A c \in Command: c < inFlight' \/ phase' = "done" => c < inFlight \/ c = inFlight
<1>1. /\ Len(Full) \in Nat \ {0} /\ Command = 1..Len(Full) /\ inFlight \in 0..Len(Full) /\ inFlight > 0
  BY BatchConstants DEF BatchTypes, BatchOrder
<1>2. CASE inFlight = Len(Full)
  <2>1. phase' = "done" /\ grace' = FALSE /\ toGame' = toGame /\ game' = game /\ inFlight' = inFlight
    BY <1>2 DEF Rcon!SendNext, Rcon!Settle
  <2> QED  BY <1>1, <1>2, <2>1 DEF BatchOrder, HasRead
<1>3. CASE inFlight # Len(Full)
  <2>1. phase' = phase /\ grace' = FALSE /\ game' = game /\ inFlight' = inFlight + 1
        /\ toGame' = Append(toGame, inFlight + 1)
    BY <1>3 DEF Rcon!SendNext
  <2>2. toGame' = <<inFlight + 1>> /\ toGame' # <<>>  BY <2>1
  <2>3. \A c \in Command: HasRead(c)' <=> HasRead(c)
    BY <1>1, <2>1, <2>2 DEF HasRead
  <2> QED  BY <1>1, <1>3, <2>1, <2>2, <2>3 DEF BatchOrder
<1> QED  BY <1>2, <1>3

LEMMA StreamIs ==
  ASSUME BatchTypes
  PROVE  /\ Stream \in Seq(Chunk) /\ Len(Stream) = Len(toClient) + Len(game)
         /\ \A i \in 1..Len(Stream): Stream[i] \in Chunk /\ Stream[i].of \in Command
<1>1. Stream \in Seq(Chunk) /\ Len(Stream) = Len(toClient) + Len(game)
  BY ConcatProperties DEF BatchTypes, Stream
<1>2. ASSUME NEW i \in 1..Len(Stream) PROVE Stream[i] \in Chunk  BY <1>1, ElementOfSeq
<1> QED  BY <1>1, <1>2 DEF Chunk

LEMMA ConnectKeeps == BatchInv /\ (Rcon!Connect \/ Rcon!Authenticated) => BatchInv'
<1> SUFFICES ASSUME BatchInv, Rcon!Connect \/ Rcon!Authenticated PROVE BatchInv'  OBVIOUS
<1>1. /\ BatchTypes /\ BatchOrder /\ AnswersFlow /\ EarlierServed
      /\ Len(Full) \in Nat \ {0} /\ Command = 1..Len(Full)
  BY BatchConstants DEF BatchInv
<1>2. inFlight = 0 /\ toGame = <<>> /\ phase \in {"connecting", "authenticating"} /\ grace = FALSE
  BY <1>1 DEF BatchTypes, BatchOrder, Rcon!Connect, Rcon!Authenticated
<1>3. UNCHANGED <<grace, answers, game, toClient, hasty>> /\ Stream' = Stream
  BY DEF Rcon!Connect, Rcon!Authenticated, Stream
<1>4. \/ phase' = "authenticating" /\ inFlight' = inFlight /\ toGame' = toGame
      \/ phase' = "running" /\ inFlight' = 1 /\ toGame' = <<1>>
  BY DEF Rcon!Connect, Rcon!Authenticated
<1>5. BatchTypes'  BY <1>1, <1>2, <1>3, <1>4 DEF BatchTypes
<1>6. BatchOrder'  BY <1>1, <1>2, <1>3, <1>4 DEF BatchOrder
<1>7. \A c \in Command: HasRead(c)' <=> HasRead(c)
  <2>1. <<1>> # <<>>  OBVIOUS
  <2> QED  BY <1>1, <1>2, <1>4, <2>1 DEF HasRead
<1>8. AnswersFlow'  BY <1>1, <1>3, <1>7, FlowKept
<1>9. EarlierServed'  BY <1>1, <1>4, <1>2 DEF EarlierServed
<1> QED  BY <1>5, <1>6, <1>8, <1>9 DEF BatchInv

LEMMA FailKeeps == BatchInv /\ Rcon!Fail => BatchInv'
<1> SUFFICES ASSUME BatchInv, Rcon!Fail PROVE BatchInv'  OBVIOUS
<1>1. phase' = "failed" /\ grace' = FALSE /\ UNCHANGED <<toGame, game, inFlight, answers, toClient, hasty>>
  BY DEF Rcon!Fail, Rcon!Settle
<1>2. BatchTypes' /\ BatchOrder' /\ EarlierServed'
  BY <1>1 DEF BatchInv, BatchTypes, BatchOrder, EarlierServed, Served
<1>3. AnswersFlow'
  <2>1. Stream' = Stream /\ \A c \in Command: HasRead(c)' <=> HasRead(c)  BY <1>1 DEF Stream, HasRead
  <2> QED  BY <1>1, <2>1, FlowKept DEF BatchInv
<1> QED  BY <1>2, <1>3 DEF BatchInv

\* A grace period that ends too early is in hasty; one that does not, ends behind
\* the last chunk.
LEMMA GraceKeeps == BatchInv /\ Rcon!GraceOver => BatchInv'
<1> SUFFICES ASSUME BatchInv, Rcon!GraceOver PROVE BatchInv'  OBVIOUS
<1>1. /\ BatchTypes /\ BatchOrder /\ AnswersFlow /\ EarlierServed /\ Rcon!SendNext
      /\ phase = "running" /\ toGame = <<>> /\ UNCHANGED <<answers, toClient>>
      /\ inFlight \in Command
  BY BatchConstants DEF BatchInv, BatchTypes, BatchOrder, Rcon!GraceOver
<1>2. /\ phase' \in {"running", "done"} /\ inFlight' \in 0..Len(Full) /\ grace' = FALSE /\ game' = game
      /\ toGame' = <<>> \/ (inFlight' > 0 /\ toGame' = <<inFlight'>>)
      /\ BatchOrder'
      /\ \A c \in Command: HasRead(c)' <=> HasRead(c)
      /\ \A c \in Command: c < inFlight' \/ phase' = "done" => c < inFlight \/ c = inFlight
  BY <1>1, SendGoesOn
<1>3. hasty' \in {hasty, hasty \cup {inFlight}}  BY DEF Rcon!GraceOver
<1>4. BatchTypes'  BY <1>1, <1>2, <1>3 DEF BatchTypes
<1>5. AnswersFlow'
  <2>1. Stream' = Stream  BY <1>1, <1>2 DEF Stream
  <2> QED  BY <1>1, <1>2, <2>1, FlowKept
<1>6. inFlight \in hasty' \/ Len(answers[inFlight]) = Size(inFlight)
  <2> SUFFICES ASSUME inFlight \notin hasty' PROVE Len(answers[inFlight]) = Size(inFlight)  OBVIOUS
  <2>1. \A i \in DOMAIN (game \o toClient): (game \o toClient)[i].of # inFlight
    BY DEF Rcon!GraceOver
  <2>2. \A i \in 1..Len(Stream): Stream[i].of # inFlight
    <3>1. /\ game \in Seq(Chunk) /\ toClient \in Seq(Chunk)
          /\ Len(game) \in Nat /\ Len(toClient) \in Nat
      BY <1>1 DEF BatchTypes
    <3>2. game \o toClient \in Seq(Chunk) /\ Len(game \o toClient) = Len(game) + Len(toClient)
          /\ \A i \in 1..Len(game) + Len(toClient): (game \o toClient)[i] =
               IF i <= Len(game) THEN game[i] ELSE toClient[i - Len(game)]
      BY <3>1, ConcatProperties
    <3>3. DOMAIN (game \o toClient) = 1..Len(game) + Len(toClient)  BY <3>2, LenProperties
    <3>4. ASSUME NEW i \in 1..Len(game) PROVE game[i].of # inFlight
      <4>1. i \in 1..Len(game) + Len(toClient) /\ i <= Len(game)  BY <3>1
      <4> QED  BY <2>1, <3>2, <3>3, <4>1
    <3>5. ASSUME NEW i \in 1..Len(toClient) PROVE toClient[i].of # inFlight
      <4>1. PICK k \in Int: k = i + Len(game)  BY <3>1
      <4>2. k \in 1..Len(game) + Len(toClient) /\ ~ (k <= Len(game)) /\ k - Len(game) = i  BY <3>1, <4>1
      <4> QED  BY <2>1, <3>2, <3>3, <4>2
    <3>6. Len(Stream) = Len(toClient) + Len(game)
          /\ \A i \in 1..Len(toClient) + Len(game): Stream[i] =
               IF i <= Len(toClient) THEN toClient[i] ELSE game[i - Len(toClient)]
      BY <3>1, ConcatProperties DEF Stream
    <3>7. ASSUME NEW i \in 1..Len(Stream) PROVE Stream[i].of # inFlight
      <4>1. CASE i <= Len(toClient)  BY <3>1, <3>5, <3>6, <4>1
      <4>2. CASE i > Len(toClient)
        <5>1. i - Len(toClient) \in 1..Len(game) /\ ~ (i <= Len(toClient))  BY <3>1, <3>6, <4>2
        <5> QED  BY <3>4, <3>6, <5>1
      <4> QED  BY <3>1, <4>1, <4>2
    <3> QED  BY <3>7
  <2>3. Begun(inFlight)  BY <1>1 DEF AnswersFlow, HasRead
  <2>4. PICK a \in Nat: Block(Stream, inFlight, a, Len(answers[inFlight]))  BY <2>3 DEF Begun
  <2>5. Size(inFlight) \in Nat /\ Len(answers[inFlight]) \in Nat /\ Len(Stream) \in Nat
    BY <1>1, SizesCount, StreamIs DEF BatchTypes
  <2>6. ASSUME Len(answers[inFlight]) # Size(inFlight) PROVE FALSE
    <3>1. a + 1 \in 1..Len(Stream) /\ a < a + 1 /\ a + 1 <= a + (Size(inFlight) - Len(answers[inFlight]))
      BY <2>4, <2>5, <2>6 DEF Block
    <3> QED  BY <2>2, <2>4, <3>1 DEF Block
  <2> QED  BY <2>6
<1>7. EarlierServed'
  BY <1>1, <1>2, <1>3, <1>6 DEF EarlierServed, Served
<1> QED  BY <1>2, <1>4, <1>5, <1>7 DEF BatchInv

\* The chunks reach the game's side of the stream, and cross it.
LEMMA GameKeeps == BatchInv /\ (Rcon!GameReads \/ Rcon!GameWrites) => BatchInv'
<1> SUFFICES ASSUME BatchInv, Rcon!GameReads \/ Rcon!GameWrites PROVE BatchInv'  OBVIOUS
<1>1. BatchTypes /\ BatchOrder /\ AnswersFlow /\ EarlierServed  BY DEF BatchInv
<1>2. CASE Rcon!GameWrites
  <2>1. /\ game # <<>> /\ toClient' = Append(toClient, Head(game)) /\ game' = Tail(game)
        /\ UNCHANGED <<phase, inFlight, grace, answers, toGame, hasty>>
    BY <1>2 DEF Rcon!GameWrites
  <2>2. game \in Seq(Chunk) /\ toClient \in Seq(Chunk)  BY <1>1 DEF BatchTypes
  <2>3. Head(game) \in Chunk /\ Tail(game) \in Seq(Chunk)  BY <2>1, <2>2
  <2>4. game' \in Seq(Chunk) /\ toClient' \in Seq(Chunk)
    BY <2>1, <2>2, <2>3, AppendProperties
  <2>5. Stream' = Stream
    <3>1. game = <<Head(game)>> \o Tail(game)
      BY <2>1, <2>2, <2>3, SeqEqual, ConcatProperties
    <3>2. <<Head(game)>> \in Seq(Chunk)  BY <2>3
    <3>3. toClient' = toClient \o <<Head(game)>>  BY <2>1, <2>2, <2>3, AppendIsConcat
    <3>4. (toClient \o <<Head(game)>>) \o Tail(game) = toClient \o (<<Head(game)>> \o Tail(game))
      BY <2>2, <2>3, <3>2, ConcatAssociative
    <3> QED  BY <2>1, <3>1, <3>3, <3>4 DEF Stream
  <2>6. BatchTypes'  BY <1>1, <2>1, <2>4 DEF BatchTypes
  <2>7. BatchOrder' /\ EarlierServed'  BY <1>1, <2>1 DEF BatchOrder, EarlierServed, Served
  <2>8. AnswersFlow'
    <3>1. \A c \in Command: HasRead(c)' <=> HasRead(c)  BY <2>1 DEF HasRead
    <3> QED  BY <1>1, <2>1, <2>5, <3>1, FlowKept
  <2> QED  BY <2>6, <2>7, <2>8 DEF BatchInv
<1>3. CASE Rcon!GameReads
  <2>1. /\ toGame # <<>> /\ game = <<>>
        /\ game' = Rcon!Chunks(Head(toGame)) /\ toGame' = Tail(toGame)
        /\ UNCHANGED <<phase, inFlight, grace, answers, toClient, hasty>>
    BY <1>3 DEF Rcon!GameReads
  <2>2. PICK d \in Command: d = inFlight /\ toGame = <<d>>
    BY <1>1, <2>1, BatchConstants DEF BatchTypes
  <2>3. Head(toGame) = d /\ toGame' = <<>>  BY <2>1, <2>2
  <2>4. game' \in Seq(Chunk)  BY <2>1, <2>2, <2>3, ChunksAre
  <2>5. Stream = toClient /\ Stream' = toClient \o Rcon!Chunks(d) /\ toClient \in Seq(Chunk)
    <3>1. toClient \in Seq(Chunk)  BY <1>1 DEF BatchTypes
    <3> QED  BY <2>1, <2>3, <3>1, ConcatEmptySeq DEF Stream
  <2>6. BatchTypes'  BY <1>1, <2>1, <2>3, <2>4 DEF BatchTypes
  <2>7. BatchOrder' /\ EarlierServed'
    BY <1>1, <2>1, <2>3 DEF BatchOrder, EarlierServed, Served
  <2>8. NotBegun(d) /\ HasRead(d)' /\ ~ HasRead(d)
    <3>1. inFlight \in Nat  BY <1>1, BatchConstants DEF BatchTypes
    <3> QED  BY <1>1, <2>1, <2>2, <2>3, <3>1 DEF AnswersFlow, HasRead
  <2>9. \A c \in Command \ {d}: HasRead(c)' <=> HasRead(c)
    BY <2>1, <2>2 DEF HasRead
  <2>10. /\ Block(Stream', d, Len(toClient), 0)
         /\ \A c \in Command \ {d}: \A a, got \in Nat:
              Block(Stream, c, a, got) => Block(Stream', c, a, got)
         /\ \A c \in Command \ {d}:
              (\A i \in 1..Len(Stream): Stream[i].of # c) =>
                \A i \in 1..Len(Stream'): Stream'[i].of # c
    <3>1. \A i \in 1..Len(toClient): toClient[i].of # d  BY <2>5, <2>8 DEF NotBegun
    <3>2. PICK str \in Seq(Chunk): str = toClient  BY <2>5
    <3>3. \A i \in 1..Len(str): str[i].of # d  BY <3>1, <3>2
    <3>4. /\ Block(str \o Rcon!Chunks(d), d, Len(str), 0)
          /\ \A c \in Command \ {d}: \A a, got \in Nat:
               Block(str, c, a, got) => Block(str \o Rcon!Chunks(d), c, a, got)
          /\ \A c \in Command \ {d}:
               (\A i \in 1..Len(str): str[i].of # c) =>
                 \A i \in 1..Len(str \o Rcon!Chunks(d)): (str \o Rcon!Chunks(d))[i].of # c
      BY <3>3, BlockAppended
    <3>5. Stream = str /\ Stream' = str \o Rcon!Chunks(d)  BY <2>5, <3>2
    <3> QED  BY <3>2, <3>4, <3>5
  <2>11. Begun(d)'
    <3>1. answers'[d] = <<>> /\ Len(answers'[d]) = 0  BY <2>1, <2>8 DEF NotBegun
    <3>2. Len(toClient) \in Nat  BY <2>5
    <3> QED  BY <2>10, <3>1, <3>2 DEF Begun
  <2>12. ASSUME NEW c \in Command \ {d}
         PROVE  IF HasRead(c)' THEN Begun(c)' ELSE NotBegun(c)'
    <3>1. CASE HasRead(c)
      <4>1. Begun(c)  BY <1>1, <3>1 DEF AnswersFlow
      <4>2. Len(answers[c]) \in Nat  BY <1>1 DEF BatchTypes
      <4>3. PICK a \in Nat: Block(Stream, c, a, Len(answers[c]))  BY <4>1 DEF Begun
      <4>4. Block(Stream', c, a, Len(answers'[c]))  BY <2>1, <2>10, <4>2, <4>3
      <4>5. Begun(c)'  BY <2>1, <4>1, <4>4 DEF Begun
      <4> QED  BY <2>9, <3>1, <4>5
    <3>2. CASE ~ HasRead(c)
      <4>1. NotBegun(c)  BY <1>1, <3>2 DEF AnswersFlow
      <4>2. NotBegun(c)'  BY <2>1, <2>10, <4>1 DEF NotBegun
      <4> QED  BY <2>9, <3>2, <4>2
    <3> QED  BY <3>1, <3>2
  <2>13. AnswersFlow'  BY <2>8, <2>11, <2>12 DEF AnswersFlow
  <2> QED  BY <2>6, <2>7, <2>13 DEF BatchInv
<1> QED  BY <1>2, <1>3

\* A chunk goes to the command it answers, and is the next of its answer.
LEMMA ReceiveKeeps == BatchInv /\ Rcon!Receive => BatchInv'
<1> SUFFICES ASSUME BatchInv, Rcon!Receive PROVE BatchInv'  OBVIOUS
<1>1. BatchTypes /\ BatchOrder /\ AnswersFlow /\ EarlierServed  BY DEF BatchInv
<1>2. PICK chunk: chunk = Head(toClient)  OBVIOUS
<1>3. /\ phase = "running" /\ toClient # <<>> /\ toClient' = Tail(toClient) /\ hasty' = hasty
      /\ answers' = [answers EXCEPT ![chunk.of] = Append(@, chunk)]
      /\ \/ Rcon!Ends(chunk) /\ Rcon!SendNext
         \/ ~ Rcon!Ends(chunk) /\ grace' = (grace \/ chunk.of = inFlight)
            /\ UNCHANGED <<phase, inFlight, toGame, game>>
  BY <1>2 DEF Rcon!Receive
<1>4. toClient \in Seq(Chunk) /\ game \in Seq(Chunk) /\ Len(toClient) > 0 /\ Len(toClient) \in Nat
  BY <1>1, <1>3, EmptySeq DEF BatchTypes
<1>5. /\ Stream \in Seq(Chunk) /\ Stream # <<>> /\ Stream[1] = chunk /\ chunk \in Chunk
      /\ Tail(Stream) = Tail(toClient) \o game
  <2>1. Stream \in Seq(Chunk) /\ Len(Stream) = Len(toClient) + Len(game)
        /\ \A i \in 1..Len(toClient) + Len(game): Stream[i] =
             IF i <= Len(toClient) THEN toClient[i] ELSE game[i - Len(toClient)]
    BY <1>4, ConcatProperties DEF Stream
  <2>2. Len(game) \in Nat  BY <1>4
  <2>3. Stream # <<>>  BY <1>4, <2>1, <2>2, EmptySeq
  <2>4. Stream[1] = chunk /\ chunk \in Chunk
    <3>1. 1 \in 1..Len(toClient) + Len(game) /\ 1 <= Len(toClient)  BY <1>4, <2>2
    <3>2. toClient[1] = chunk /\ chunk \in Chunk  BY <1>2, <1>3, <1>4, HeadTailProperties
    <3> QED  BY <2>1, <3>1, <3>2
  <2>5. PICK rest \in Seq(Chunk): rest = Tail(toClient)  BY <1>3, <1>4, HeadTailProperties
  <2>6. Len(rest) = Len(toClient) - 1 /\ \A i \in 1..Len(rest): rest[i] = toClient[i + 1]
    BY <1>3, <1>4, <2>5, HeadTailProperties
  <2>7. /\ rest \o game \in Seq(Chunk) /\ Len(rest \o game) = Len(rest) + Len(game)
        /\ \A i \in 1..Len(rest) + Len(game): (rest \o game)[i] =
             IF i <= Len(rest) THEN rest[i] ELSE game[i - Len(rest)]
    BY <1>4, <2>5, ConcatProperties
  <2>8. PICK tail \in Seq(Chunk): tail = Tail(Stream)  BY <2>1, <2>3, HeadTailProperties
  <2>9. Len(tail) = Len(Stream) - 1 /\ \A i \in 1..Len(tail): tail[i] = Stream[i + 1]
    BY <2>1, <2>3, <2>8, HeadTailProperties
  <2>10. ASSUME NEW i \in 1..Len(tail) PROVE tail[i] = (rest \o game)[i]
    <3>1. i + 1 \in 1..Len(toClient) + Len(game) /\ i \in 1..Len(rest) + Len(game)
          /\ (i + 1) - Len(toClient) = i - Len(rest) /\ (i + 1 <= Len(toClient) <=> i <= Len(rest))
      BY <1>4, <2>1, <2>2, <2>6, <2>9
    <3>2. tail[i] = Stream[i + 1]  BY <2>9
    <3>3. CASE i <= Len(rest)
      <4>1. i \in 1..Len(rest)  BY <1>4, <2>6, <3>3
      <4> QED  BY <2>1, <2>6, <2>7, <3>1, <3>2, <3>3, <4>1
    <3>4. CASE ~ (i <= Len(rest))  BY <2>1, <2>7, <3>1, <3>2, <3>4
    <3> QED  BY <3>3, <3>4
  <2>11. Len(tail) = Len(rest \o game)  BY <1>4, <2>1, <2>2, <2>6, <2>7, <2>9
  <2>12. tail = rest \o game  BY <2>7, <2>10, <2>11, SeqEqual
  <2> QED  BY <2>1, <2>3, <2>4, <2>5, <2>8, <2>12
<1>6. PICK d \in Command: d = chunk.of  BY <1>5 DEF Chunk
<1>7. PICK got \in Nat: got = Len(answers[d])  BY <1>1 DEF BatchTypes
<1>8. HasRead(d) /\ Begun(d)
  <2>1. 1 \in 1..Len(Stream) /\ Stream[1].of = d  BY <1>5, <1>6
  <2> QED  BY <1>1, <2>1 DEF AnswersFlow, NotBegun
<1>9. /\ chunk = ChunkAt(d, got + 1) /\ got < Size(d)
      /\ Block(Tail(Stream), d, 0, got + 1)
  <2>1. PICK a \in Nat: Block(Stream, d, a, got)  BY <1>7, <1>8 DEF Begun
  <2> QED  BY <1>5, <1>6, <2>1, BlockTaken
<1>10. /\ answers' \in [Command -> Seq(Chunk)]
       /\ answers'[d] = Append(answers[d], chunk) /\ Len(answers'[d]) = got + 1
       /\ \A c \in Command \ {d}: answers'[c] = answers[c]
  BY <1>1, <1>3, <1>5, <1>6, <1>7 DEF BatchTypes
<1>11. /\ game' = game
       /\ BatchTypes' /\ BatchOrder'
       /\ \A c \in Command: HasRead(c)' <=> HasRead(c)
       /\ \A c \in Command: c < inFlight' \/ phase' = "done" =>
            c < inFlight \/ (c = inFlight /\ Rcon!Ends(chunk))
  <2>1. toClient' \in Seq(Chunk)  BY <1>3, <1>4
  <2>2. CASE ~ Rcon!Ends(chunk)
    <3>1. /\ UNCHANGED <<phase, inFlight, toGame, game, hasty>>
          /\ grace' = (grace \/ d = inFlight)
      BY <1>3, <1>6, <2>2
    <3>2. d = inFlight => toGame = <<>>
      BY <1>6, <1>8, BatchConstants DEF HasRead
    <3>3. BatchTypes'  BY <1>1, <1>10, <2>1, <3>1 DEF BatchTypes
    <3>4. BatchOrder'  BY <1>1, <1>3, <3>1, <3>2 DEF BatchOrder, BatchTypes
    <3>5. \A c \in Command: HasRead(c)' <=> HasRead(c)  BY <3>1 DEF HasRead
    <3> QED  BY <1>3, <3>1, <3>3, <3>4, <3>5
  <2>3. CASE Rcon!Ends(chunk)
    <3>1. d = inFlight /\ toGame = <<>>
      BY <1>6, <1>8, <2>3, BatchConstants DEF HasRead, Rcon!Ends
    <3>2. /\ phase' \in {"running", "done"} /\ inFlight' \in 0..Len(Full) /\ grace' = FALSE /\ game' = game
          /\ toGame' = <<>> \/ (inFlight' > 0 /\ toGame' = <<inFlight'>>)
          /\ BatchOrder'
          /\ \A c \in Command: HasRead(c)' <=> HasRead(c)
          /\ \A c \in Command: c < inFlight' \/ phase' = "done" => c < inFlight \/ c = inFlight
      BY <1>1, <1>3, <2>3, <3>1, SendGoesOn
    <3>3. BatchTypes'  BY <1>1, <1>3, <1>10, <2>1, <3>2 DEF BatchTypes
    <3> QED  BY <2>3, <3>2, <3>3
  <2> QED  BY <2>2, <2>3
<1>12. Stream' = Tail(Stream)  BY <1>3, <1>5, <1>11 DEF Stream
<1>13. Begun(d)'
  <2>1. Block(Stream', d, 0, Len(answers'[d]))  BY <1>9, <1>10, <1>12
  <2>2. ASSUME NEW k \in 1..Len(answers'[d]) PROVE answers'[d][k] = ChunkAt(d, k)
    <3>1. answers[d] \in Seq(Chunk)  BY <1>1 DEF BatchTypes
    <3>2. CASE k = got + 1
      <4>1. answers'[d][got + 1] = chunk  BY <1>5, <1>7, <1>10, <3>1, AppendProperties
      <4> QED  BY <1>9, <3>2, <4>1
    <3>3. CASE k # got + 1
      <4>1. k \in 1..Len(answers[d])  BY <1>7, <1>10, <3>3
      <4>2. answers'[d][k] = answers[d][k]  BY <1>5, <1>10, <3>1, <4>1, AppendProperties
      <4> QED  BY <1>8, <4>1, <4>2 DEF Begun
    <3> QED  BY <3>2, <3>3
  <2> QED  BY <2>1, <2>2 DEF Begun
<1>14. AnswersFlow'
  <2>1. ASSUME NEW c \in Command \ {d}
        PROVE  IF HasRead(c)' THEN Begun(c)' ELSE NotBegun(c)'
    <3>1. CASE HasRead(c)
      <4>1. Begun(c) /\ Len(answers[c]) \in Nat  BY <1>1, <3>1 DEF AnswersFlow, BatchTypes
      <4>2. PICK a \in Nat: Block(Stream, c, a, Len(answers[c]))  BY <4>1 DEF Begun
      <4>3. PICK b \in Nat: Block(Tail(Stream), c, b, Len(answers[c]))
        BY <1>5, <1>6, <4>1, <4>2, BlockMoves
      <4>4. Block(Stream', c, b, Len(answers'[c]))  BY <1>10, <1>12, <4>3
      <4>5. Begun(c)'  BY <1>10, <4>1, <4>4 DEF Begun
      <4> QED  BY <1>11, <3>1, <4>5
    <3>2. CASE ~ HasRead(c)
      <4>1. NotBegun(c)  BY <1>1, <3>2 DEF AnswersFlow
      <4>2. \A i \in 1..Len(Tail(Stream)): i + 1 \in 1..Len(Stream) /\ Tail(Stream)[i] = Stream[i + 1]
        BY <1>5
      <4>3. NotBegun(c)'  BY <1>10, <1>12, <4>1, <4>2 DEF NotBegun
      <4> QED  BY <1>11, <3>2, <4>3
    <3> QED  BY <3>1, <3>2
  <2>2. HasRead(d)'  BY <1>8, <1>11
  <2> QED  BY <1>13, <2>1, <2>2 DEF AnswersFlow
<1>15. EarlierServed'
  <2> SUFFICES ASSUME NEW c \in Command, c < inFlight' \/ phase' = "done"
               PROVE  c \in hasty' \/ Len(answers'[c]) = Size(c)
    BY DEF EarlierServed, Served
  <2>1. CASE c # d
    <3>1. c < inFlight
      BY <1>6, <1>11, <2>1 DEF Rcon!Ends
    <3> QED  BY <1>1, <1>3, <1>10, <2>1, <3>1 DEF EarlierServed, Served
  <2>2. CASE c = d
    <3>1. Size(d) \in Nat /\ Full[d] \in Nat  BY SizesCount, BatchConstants
    <3>2. CASE Rcon!Ends(chunk)
      <4>1. chunk.short  BY <3>2 DEF Rcon!Ends
      <4>2. got + 1 > Full[d]  BY <1>9, <4>1 DEF ChunkAt
      <4>3. Size(d) <= Full[d] + 1  BY <3>1 DEF Size
      <4> QED  BY <1>9, <1>10, <2>2, <3>1, <4>2, <4>3
    <3>3. CASE ~ Rcon!Ends(chunk)
      <4>1. c < inFlight  BY <1>11, <3>3
      <4>2. c \in hasty  BY <1>1, <1>7, <1>9, <2>2, <3>1, <4>1 DEF EarlierServed, Served
      <4> QED  BY <1>3, <4>2
    <3> QED  BY <3>2, <3>3
  <2> QED  BY <2>1, <2>2
<1> QED  BY <1>11, <1>14, <1>15 DEF BatchInv

LEMMA BatchHolds == BatchInv => Rcon!RepliesBelong
<1> SUFFICES ASSUME BatchInv PROVE Rcon!RepliesBelong  OBVIOUS
<1>1. BatchTypes /\ BatchOrder /\ AnswersFlow /\ EarlierServed  BY DEF BatchInv
<1>2. Len(toGame) <= 1
  <2>1. CASE toGame = <<>>  BY <2>1
  <2>2. CASE toGame = <<inFlight>>  BY <2>2
  <2> QED  BY <1>1, <2>1, <2>2 DEF BatchTypes
<1>3. ASSUME phase = "done", NEW c \in Command, c \notin hasty PROVE answers[c] = Rcon!Chunks(c)
  <2>1. Len(answers[c]) = Size(c) /\ answers[c] \in Seq(Chunk)
    BY <1>1, <1>3 DEF EarlierServed, Served, BatchTypes
  <2>2. \A k \in 1..Len(answers[c]): answers[c][k] = ChunkAt(c, k)
    <3>1. HasRead(c) \/ c = inFlight
      BY <1>1, <1>3, BatchConstants DEF BatchOrder, HasRead
    <3>2. Size(c) > 0  BY SizesCount
    <3>3. Begun(c)
      <4>1. answers[c] # <<>>  BY <2>1, <3>2
      <4> QED  BY <1>1, <4>1 DEF AnswersFlow, NotBegun
    <3> QED  BY <3>3 DEF Begun
  <2> QED  BY <2>1, <2>2, ChunksAre, SeqEqual
<1> QED  BY <1>2, <1>3 DEF Rcon!RepliesBelong

LEMMA BatchStutters == BatchInv /\ UNCHANGED rconVars => BatchInv'
<1> SUFFICES ASSUME BatchInv, UNCHANGED rconVars PROVE BatchInv'  OBVIOUS
<1>1. UNCHANGED <<phase, inFlight, grace, answers, toGame, game, toClient, hasty>>  BY DEF rconVars
<1>2. BatchTypes' /\ BatchOrder' /\ EarlierServed'
  BY <1>1 DEF BatchInv, BatchTypes, BatchOrder, EarlierServed, Served
<1>3. AnswersFlow'
  <2>1. Stream' = Stream /\ \A c \in Command: HasRead(c)' <=> HasRead(c)  BY <1>1 DEF Stream, HasRead
  <2> QED  BY <1>1, <2>1, FlowKept DEF BatchInv
<1> QED  BY <1>2, <1>3 DEF BatchInv

LEMMA BatchKept == BatchInv /\ Rcon!Next => BatchInv'
BY ConnectKeeps, FailKeeps, GraceKeeps, GameKeeps, ReceiveKeeps DEF Rcon!Next

-----------------------------------------------------------------------------
(* The TPS readings.                                                       *)

TpsTypes ==
  /\ run \in Nat /\ up \in BOOLEAN /\ stopSeen \in Nat /\ sample \in Nat
  /\ entry \in [state: {"none", "stopped", "unavailable", "unsupported", "available"},
                points: Seq(Nat), pending: BOOLEAN, fresh: BOOLEAN]
  /\ looks \subseteq [up: BOOLEAN, run: Nat]

\* What a tab has seen end, or will have, is over, ...
SeenIsOver ==
  /\ stopSeen <= run /\ (stopSeen = run => ~ up)
  /\ \A look \in looks: look.run <= run /\ (look.up \/ look.run < run \/ ~ up)

\* ... and neither the entry nor a sample that will reach it is of such a run.
SampleIsNew == sample <= run /\ (sample # 0 => entry.pending /\ sample > stopSeen)

TpsInv == TpsTypes /\ SeenIsOver /\ SampleIsNew /\ Tps!NoOldReadings

LEMMA TpsConstants == MostPoints \in Nat \ {0} /\ MaxRun \in Nat \ {0}
BY ConnectionsAssumption DEF Tps!TpsAssumption

LEMMA TpsStarts == Tps!Init => TpsInv
<1> SUFFICES ASSUME Tps!Init PROVE TpsInv  OBVIOUS
<1>1. entry = [state |-> "none", points |-> <<>>, pending |-> FALSE, fresh |-> FALSE] /\ entry.points = <<>>
  BY DEF Tps!Init, Tps!NoEntry
<1>2. <<>> \in Seq(Nat) /\ DOMAIN <<>> = {}  OBVIOUS
<1>3. TpsTypes  BY <1>1, <1>2 DEF TpsTypes, Tps!Init, Tps!NoSample
<1>4. SeenIsOver /\ SampleIsNew  BY DEF SeenIsOver, SampleIsNew, Tps!Init, Tps!NoSample
<1>5. Tps!NoOldReadings  BY <1>1, <1>2 DEF Tps!NoOldReadings
<1> QED  BY <1>3, <1>4, <1>5 DEF TpsInv

\* The last readings are among the readings.
LEMMA LastAre ==
  ASSUME NEW points \in Seq(Nat), NEW n \in Nat \ {0}
  PROVE  /\ Tps!Last(points, n) \in Seq(Nat)
         /\ \A i \in DOMAIN Tps!Last(points, n):
              \E j \in 1..Len(points): Tps!Last(points, n)[i] = points[j]
<1>1. Len(points) \in Nat /\ DOMAIN points = 1..Len(points)  BY LenProperties
<1>2. CASE Len(points) > n
  <2>1. PICK m \in Int: m = Len(points) - n + 1
    <3>1. Len(points) - n + 1 \in Int  BY <1>1
    <3> QED  BY <3>1
  <2>2. m >= 1 /\ m <= Len(points) /\ Len(points) - m + 1 = n  BY <1>1, <1>2, <2>1
  <2>3. \A i \in m..Len(points): points[i] \in Nat
    <3> SUFFICES ASSUME NEW i \in m..Len(points) PROVE points[i] \in Nat  OBVIOUS
    <3>1. i \in 1..Len(points)  BY <1>1, <2>2
    <3> QED  BY <3>1, ElementOfSeq
  <2>4. /\ SubSeq(points, m, Len(points)) \in Seq(Nat)
        /\ Len(SubSeq(points, m, Len(points))) = n
        /\ \A i \in 1..n: SubSeq(points, m, Len(points))[i] = points[m + i - 1]
    BY <1>1, <2>2, <2>3, SubSeqProperties
  <2>5. Tps!Last(points, n) = SubSeq(points, m, Len(points))  BY <1>2, <2>1 DEF Tps!Last
  <2>6. DOMAIN SubSeq(points, m, Len(points)) = 1..n  BY <2>4, LenProperties
  <2>7. \A i \in 1..n: m + i - 1 \in 1..Len(points)  BY <1>1, <2>1, <2>2
  <2> QED  BY <2>4, <2>5, <2>6, <2>7
<1>3. CASE ~ (Len(points) > n)
  <2>1. Tps!Last(points, n) = points  BY <1>3 DEF Tps!Last
  <2> QED  BY <1>1, <2>1
<1> QED  BY <1>2, <1>3

\* A step that leaves the readings, or drops them.
LEMMA ReadingsKept ==
  ASSUME TpsInv, entry' = entry \/ entry'.points = entry.points \/ entry'.points = <<>>,
         stopSeen' = stopSeen \/ entry'.points = <<>>
  PROVE  Tps!NoOldReadings'
<1>1. Tps!NoOldReadings  BY DEF TpsInv
<1>2. CASE entry'.points = <<>>
  <2>1. DOMAIN <<>> = {}  OBVIOUS
  <2> QED  BY <1>2, <2>1 DEF Tps!NoOldReadings
<1>3. CASE stopSeen' = stopSeen /\ entry'.points = entry.points
  BY <1>1, <1>3 DEF Tps!NoOldReadings
<1> QED  BY <1>2, <1>3

LEMMA ReadsKeep == TpsInv /\ Tps!Read => TpsInv'
<1> SUFFICES ASSUME TpsInv, Tps!Read PROVE TpsInv'  OBVIOUS
<1>1. TpsTypes /\ SeenIsOver /\ SampleIsNew  BY DEF TpsInv
<1>2. PICK look \in looks:
        /\ looks' = looks \ {look}
        /\ Tps!ReadStopped(look) \/ Tps!ReadShared(look) \/ Tps!ReadCached(look) \/ Tps!ReadSamples(look)
  BY DEF Tps!Read
<1>3. CASE Tps!ReadStopped(look)
  <2>1. /\ ~ look.up /\ run' = run /\ up' = up
        /\ entry' = [state |-> "stopped", points |-> <<>>, pending |-> FALSE, fresh |-> TRUE]
        /\ entry'.points = <<>> /\ entry'.pending = FALSE
        /\ stopSeen' = IF look.run > stopSeen THEN look.run ELSE stopSeen
    BY <1>3 DEF Tps!ReadStopped, Tps!Invalidated, Tps!NoEntry
  <2>2. sample' = 0  BY <1>3, <2>1 DEF Tps!ReadStopped, Tps!NoSample
  <2>3. look.run \in Nat  BY <1>1, <1>2 DEF TpsTypes
  <2>4. <<>> \in Seq(Nat)  OBVIOUS
  <2>5. stopSeen' \in Nat  BY <1>1, <2>1, <2>3 DEF TpsTypes
  <2>6. TpsTypes'  BY <1>1, <1>2, <2>1, <2>2, <2>4, <2>5 DEF TpsTypes
  <2>7. SeenIsOver'  BY <1>1, <1>2, <2>1, <2>3 DEF SeenIsOver, TpsTypes
  <2>8. SampleIsNew'  BY <1>1, <2>1, <2>2 DEF SampleIsNew, TpsTypes
  <2>9. Tps!NoOldReadings'  BY <2>1, ReadingsKept
  <2> QED  BY <2>6, <2>7, <2>8, <2>9 DEF TpsInv
<1>4. CASE Tps!ReadShared(look) \/ Tps!ReadCached(look) \/ Tps!ReadSamples(look)
  <2>1. UNCHANGED <<run, up, sample, stopSeen>>
    BY <1>4 DEF Tps!ReadShared, Tps!ReadCached, Tps!ReadSamples
  <2>2. entry' = entry \/ entry' = [entry EXCEPT !.pending = TRUE]
    BY <1>4 DEF Tps!ReadShared, Tps!ReadCached, Tps!ReadSamples
  <2>3. entry'.points = entry.points /\ (entry.pending => entry'.pending)
        /\ entry' \in [state: {"none", "stopped", "unavailable", "unsupported", "available"},
                       points: Seq(Nat), pending: BOOLEAN, fresh: BOOLEAN]
    BY <1>1, <2>2 DEF TpsTypes
  <2>4. TpsTypes'  BY <1>1, <1>2, <2>1, <2>3 DEF TpsTypes
  <2>5. SeenIsOver' /\ SampleIsNew'  BY <1>1, <1>2, <2>1, <2>3 DEF SeenIsOver, SampleIsNew, TpsTypes
  <2>6. Tps!NoOldReadings'  BY <2>1, <2>3, ReadingsKept
  <2> QED  BY <2>4, <2>5, <2>6 DEF TpsInv
<1> QED  BY <1>2, <1>3, <1>4

LEMMA SamplesKeep == TpsInv /\ (Tps!SampleAsked \/ Tps!SampleDone) => TpsInv'
<1> SUFFICES ASSUME TpsInv, Tps!SampleAsked \/ Tps!SampleDone PROVE TpsInv'  OBVIOUS
<1>1. TpsTypes /\ SeenIsOver /\ SampleIsNew /\ Tps!NoOldReadings  BY DEF TpsInv
<1>2. CASE Tps!SampleAsked
  <2>1. UNCHANGED <<run, up, entry, stopSeen, looks>> /\ entry.pending
        /\ (sample' = 0 \/ (up /\ sample' = run))
    BY <1>2 DEF Tps!SampleAsked, Tps!Reading, Tps!NoSample
  <2>2. TpsTypes' /\ SeenIsOver' /\ SampleIsNew'
    BY <1>1, <2>1 DEF TpsTypes, SeenIsOver, SampleIsNew
  <2>3. Tps!NoOldReadings'  BY <2>1, ReadingsKept
  <2> QED  BY <2>2, <2>3 DEF TpsInv
<1>3. CASE Tps!SampleDone
  <2>1. PICK state \in {"unavailable", "unsupported", "available"}:
          entry' = [state |-> state, points |-> Tps!Last(Append(entry.points, sample), MostPoints),
                    pending |-> FALSE, fresh |-> TRUE]
    BY <1>3 DEF Tps!SampleDone
  <2>2. UNCHANGED <<run, up, stopSeen, looks>> /\ sample' = 0  BY <1>3 DEF Tps!SampleDone, Tps!NoSample
  <2>3. entry.points \in Seq(Nat) /\ sample \in Nat  BY <1>1 DEF TpsTypes
  <2>4. PICK all \in Seq(Nat): all = Append(entry.points, sample)  BY <2>3, AppendProperties
  <2>5. /\ Len(all) = Len(entry.points) + 1 /\ all[Len(entry.points) + 1] = sample
        /\ \A j \in 1..Len(entry.points): all[j] = entry.points[j]
    BY <2>3, <2>4, AppendProperties
  <2>6. PICK points \in Seq(Nat): points = Tps!Last(all, MostPoints)
    BY LastAre, TpsConstants
  <2>7. \A i \in DOMAIN points: \E j \in 1..Len(all): points[i] = all[j]
    BY <2>6, LastAre, TpsConstants
  <2>8. entry' = [state |-> state, points |-> points, pending |-> FALSE, fresh |-> TRUE]
        /\ entry'.points = points
    BY <2>1, <2>4, <2>6
  <2>9. Len(entry.points) \in Nat /\ DOMAIN entry.points = 1..Len(entry.points)  BY <2>3, LenProperties
  <2>10. \A j \in 1..Len(all): all[j] = 0 \/ all[j] > stopSeen
    <3> SUFFICES ASSUME NEW j \in 1..Len(all) PROVE all[j] = 0 \/ all[j] > stopSeen  OBVIOUS
    <3>1. CASE j = Len(entry.points) + 1
      BY <1>1, <2>5, <3>1 DEF SampleIsNew
    <3>2. CASE j # Len(entry.points) + 1
      <4>1. j \in 1..Len(entry.points)  BY <2>5, <2>9, <3>2
      <4> QED  BY <1>1, <2>5, <2>9, <4>1 DEF Tps!NoOldReadings, Tps!NoSample
    <3> QED  BY <3>1, <3>2
  <2>11. TpsTypes'
    <3>1. entry' \in [state: {"none", "stopped", "unavailable", "unsupported", "available"},
                      points: Seq(Nat), pending: BOOLEAN, fresh: BOOLEAN]
      BY <2>8
    <3> QED  BY <1>1, <2>2, <3>1 DEF TpsTypes
  <2>12. SeenIsOver' /\ SampleIsNew'  BY <1>1, <2>2 DEF TpsTypes, SeenIsOver, SampleIsNew
  <2>13. Tps!NoOldReadings'
    <3> SUFFICES ASSUME NEW i \in DOMAIN points PROVE points[i] = 0 \/ points[i] > stopSeen
      BY <2>2, <2>8 DEF Tps!NoOldReadings, Tps!NoSample
    <3> QED  BY <2>7, <2>10
  <2> QED  BY <2>11, <2>12, <2>13 DEF TpsInv
<1> QED  BY <1>2, <1>3

LEMMA TpsOthersKeep ==
  TpsInv /\ (\/ Tps!Look \/ Tps!OrphanDone \/ Tps!Stales \/ Tps!Expires
             \/ Tps!Stops \/ Tps!Starts \/ Tps!Recreated \/ UNCHANGED tpsVars) => TpsInv'
<1> SUFFICES ASSUME TpsInv PROVE
      (\/ Tps!Look \/ Tps!OrphanDone \/ Tps!Stales \/ Tps!Expires
       \/ Tps!Stops \/ Tps!Starts \/ Tps!Recreated \/ UNCHANGED tpsVars) => TpsInv'
  OBVIOUS
<1>1. TpsTypes /\ SeenIsOver /\ SampleIsNew /\ Tps!NoOldReadings  BY DEF TpsInv
<1>2. CASE Tps!OrphanDone \/ UNCHANGED tpsVars
  <2>1. UNCHANGED <<run, up, entry, sample, stopSeen, looks>>  BY <1>2 DEF Tps!OrphanDone, tpsVars
  <2> QED  BY <1>1, <2>1 DEF TpsInv, TpsTypes, SeenIsOver, SampleIsNew, Tps!NoOldReadings
<1>3. CASE Tps!Look \/ Tps!Stops \/ Tps!Starts
  <2>1. UNCHANGED <<entry, sample, stopSeen>>  BY <1>3 DEF Tps!Look, Tps!Stops, Tps!Starts
  <2>2. Tps!NoOldReadings'  BY <2>1, ReadingsKept
  <2>3. CASE Tps!Look
    <3>1. UNCHANGED <<run, up>> /\ looks' = looks \cup {[up |-> up, run |-> run]}  BY <2>3 DEF Tps!Look
    <3>2. TpsTypes' /\ SeenIsOver' /\ SampleIsNew'
      BY <1>1, <2>1, <3>1 DEF TpsTypes, SeenIsOver, SampleIsNew
    <3> QED  BY <2>2, <3>2 DEF TpsInv
  <2>4. CASE Tps!Stops
    <3>1. UNCHANGED <<run, looks>> /\ up' = FALSE  BY <2>4 DEF Tps!Stops
    <3>2. TpsTypes' /\ SeenIsOver' /\ SampleIsNew'
      BY <1>1, <2>1, <3>1 DEF TpsTypes, SeenIsOver, SampleIsNew
    <3> QED  BY <2>2, <3>2 DEF TpsInv
  <2>5. CASE Tps!Starts
    <3>1. looks' = looks /\ run' = run + 1 /\ up' = TRUE  BY <2>5 DEF Tps!Starts
    <3>2. TpsTypes' /\ SampleIsNew'
      BY <1>1, <2>1, <3>1 DEF TpsTypes, SampleIsNew
    <3>3. \A look \in looks: look.run \in Nat  BY <1>1 DEF TpsTypes
    <3>4. SeenIsOver'  BY <1>1, <2>1, <3>1, <3>3 DEF TpsTypes, SeenIsOver
    <3> QED  BY <2>2, <3>2, <3>4 DEF TpsInv
  <2> QED  BY <1>3, <2>3, <2>4, <2>5
<1>4. CASE Tps!Stales
  <2>1. UNCHANGED <<run, up, sample, stopSeen, looks>> /\ entry' = [entry EXCEPT !.fresh = FALSE]
    BY <1>4 DEF Tps!Stales
  <2>2. entry'.points = entry.points /\ entry'.pending = entry.pending
        /\ entry' \in [state: {"none", "stopped", "unavailable", "unsupported", "available"},
                       points: Seq(Nat), pending: BOOLEAN, fresh: BOOLEAN]
    BY <1>1, <2>1 DEF TpsTypes
  <2>3. TpsTypes'  BY <1>1, <2>1, <2>2 DEF TpsTypes
  <2>4. SeenIsOver' /\ SampleIsNew'  BY <1>1, <2>1, <2>2 DEF SeenIsOver, SampleIsNew
  <2>5. Tps!NoOldReadings'  BY <2>1, <2>2, ReadingsKept
  <2> QED  BY <2>3, <2>4, <2>5 DEF TpsInv
<1>5. CASE Tps!Expires \/ Tps!Recreated
  <2>1. /\ UNCHANGED <<run, up, stopSeen, looks>>
        /\ entry' = [state |-> "none", points |-> <<>>, pending |-> FALSE, fresh |-> FALSE]
        /\ entry'.points = <<>>
    BY <1>5 DEF Tps!Expires, Tps!Recreated, Tps!NoEntry
  <2>2. sample' = 0
    BY <1>1, <1>5 DEF Tps!Expires, Tps!Recreated, Tps!NoSample, SampleIsNew
  <2>3. <<>> \in Seq(Nat)  OBVIOUS
  <2>4. TpsTypes'  BY <1>1, <2>1, <2>2, <2>3 DEF TpsTypes
  <2>5. SeenIsOver' /\ SampleIsNew'  BY <1>1, <2>1, <2>2 DEF SeenIsOver, SampleIsNew, TpsTypes
  <2>6. Tps!NoOldReadings'  BY <2>1, ReadingsKept
  <2> QED  BY <2>4, <2>5, <2>6 DEF TpsInv
<1> QED  BY <1>2, <1>3, <1>4, <1>5

LEMMA TpsKept == TpsInv /\ Tps!Next => TpsInv'
BY ReadsKeep, SamplesKeep, TpsOthersKeep DEF Tps!Next

-----------------------------------------------------------------------------
(* The readings of a container.                                            *)

Line == [boot: Nat, kind: Readings!Kind, at: Nat]

ReadingTypes ==
  /\ boot \in Nat /\ live \in BOOLEAN /\ startedAt \in Nat /\ time \in Nat
  /\ log \in Seq(Line)
  /\ check \in [step: {"none", "inspect", "logs", "file"}, seen: Nat, since: Nat]
  /\ verdict \in [ready: BOOLEAN, seen: Nat]
  /\ study \in [step: {"none", "flags", "helper", "after"}, before: Nat, flags: Nat]
  /\ report \in [flags: Nat, after: Nat]

\* The log is chronological: nothing in it is later than now or of a boot to
\* come, and what is not older than the start is of this boot.
LogInv ==
  /\ startedAt <= time
  /\ \A i \in 1..Len(log):
       /\ log[i].boot <= boot /\ log[i].at <= time
       /\ log[i].at >= startedAt => log[i].boot = boot
       /\ log[i].boot <= log[Len(log)].boot

\* What is not older than the start a check knows is of the boot it looks at,
\* or of a later one.
CheckInv ==
  check.seen # 0 =>
    /\ check.seen <= boot
    /\ \A i \in 1..Len(log): log[i].at >= check.since => log[i].boot >= check.seen

\* The flags an inspection has read lie between its beginning and now.
StudyInv ==
  /\ study.before <= boot
  /\ study.flags # 0 => study.before <= study.flags /\ study.flags <= boot

ReadingsInv ==
  /\ ReadingTypes /\ LogInv /\ CheckInv /\ StudyInv
  /\ Readings!ReadyIsOfThisBoot /\ Readings!ReportIsOfOneBoot

LEMMA ReadingsStart == Readings!Init => ReadingsInv
<1> SUFFICES ASSUME Readings!Init PROVE ReadingsInv  OBVIOUS
<1>1. /\ boot = 1 /\ live = TRUE /\ startedAt = 1 /\ time = 1 /\ log = <<>>
      /\ check = [step |-> "none", seen |-> 0, since |-> 0]
      /\ verdict = [ready |-> FALSE, seen |-> 0]
      /\ study = [step |-> "none", before |-> 0, flags |-> 0]
      /\ report = [flags |-> 0, after |-> 0]
  BY DEF Readings!Init, Readings!NoCheck, Readings!NoVerdict, Readings!NoStudy, Readings!NoReport, Readings!NotKnown
<1>2. <<>> \in Seq(Line) /\ Len(<<>>) = 0  OBVIOUS
<1>3. ReadingTypes  BY <1>1, <1>2 DEF ReadingTypes
<1>4. LogInv /\ CheckInv /\ StudyInv  BY <1>1, <1>2 DEF LogInv, CheckInv, StudyInv
<1>5. Readings!ReadyIsOfThisBoot /\ Readings!ReportIsOfOneBoot
  BY <1>1 DEF Readings!ReadyIsOfThisBoot, Readings!ReportIsOfOneBoot
<1> QED  BY <1>3, <1>4, <1>5 DEF ReadingsInv

\* The container's own steps.
LEMMA ContainerKeeps ==
  ReadingsInv /\ (Readings!Starts \/ Readings!Stops \/ Readings!Writes \/ Readings!TimePasses) => ReadingsInv'
<1> SUFFICES ASSUME ReadingsInv,
                    Readings!Starts \/ Readings!Stops \/ Readings!Writes \/ Readings!TimePasses
             PROVE  ReadingsInv'
  OBVIOUS
<1>1. /\ ReadingTypes /\ LogInv /\ CheckInv /\ StudyInv
      /\ Readings!ReadyIsOfThisBoot /\ Readings!ReportIsOfOneBoot
  BY DEF ReadingsInv
<1>2. UNCHANGED <<check, verdict, study, report>>
  BY DEF Readings!Starts, Readings!Stops, Readings!Writes, Readings!TimePasses,
         Readings!checkVars, Readings!studyVars
<1>3. Len(log) \in Nat /\ DOMAIN log = 1..Len(log)
      /\ \A i \in 1..Len(log): log[i].boot \in Nat /\ log[i].at \in Nat
  <2>1. log \in Seq(Line)  BY <1>1 DEF ReadingTypes
  <2>2. \A i \in 1..Len(log): log[i] \in Line  BY <2>1, ElementOfSeq
  <2> QED  BY <2>1, <2>2, LenProperties DEF Line
<1>4. Readings!ReportIsOfOneBoot'  BY <1>1, <1>2 DEF Readings!ReportIsOfOneBoot
<1>5. ASSUME log' = log, boot' \in Nat, boot <= boot', startedAt' \in Nat, time' \in Nat, live' \in BOOLEAN
      PROVE  ReadingTypes' /\ CheckInv' /\ StudyInv' /\ Readings!ReadyIsOfThisBoot'
  <2>1. ReadingTypes'  BY <1>1, <1>2, <1>5 DEF ReadingTypes
  <2>2. check.seen \in Nat /\ study.before \in Nat /\ study.flags \in Nat /\ boot \in Nat
    BY <1>1 DEF ReadingTypes
  <2>3. CheckInv' /\ StudyInv'  BY <1>1, <1>2, <1>5, <2>2 DEF CheckInv, StudyInv
  <2>4. Readings!ReadyIsOfThisBoot'  BY <1>1, <1>2, <1>5 DEF Readings!ReadyIsOfThisBoot
  <2> QED  BY <2>1, <2>3, <2>4
<1>6. CASE Readings!Starts
  <2>1. boot' = boot + 1 /\ live' = TRUE /\ time' = time + 1 /\ startedAt' = time' /\ log' = log
    BY <1>6 DEF Readings!Starts
  <2>2. ReadingTypes' /\ CheckInv' /\ StudyInv' /\ Readings!ReadyIsOfThisBoot'
    BY <1>1, <1>5, <2>1 DEF ReadingTypes
  <2>3. LogInv'  BY <1>1, <1>3, <2>1 DEF LogInv, ReadingTypes
  <2> QED  BY <1>4, <2>2, <2>3 DEF ReadingsInv
<1>7. CASE Readings!Stops \/ Readings!TimePasses
  <2>1. /\ UNCHANGED <<boot, startedAt, log>>
        /\ (live' = live \/ live' = FALSE) /\ (time' = time \/ time' = time + 1)
    BY <1>7 DEF Readings!Stops, Readings!TimePasses
  <2>2. ReadingTypes' /\ CheckInv' /\ StudyInv' /\ Readings!ReadyIsOfThisBoot'
    <3>1. boot \in Nat /\ startedAt \in Nat /\ time \in Nat /\ live \in BOOLEAN  BY <1>1 DEF ReadingTypes
    <3>2. boot' = boot /\ startedAt' = startedAt  BY <2>1
    <3>3. boot' \in Nat /\ boot <= boot' /\ startedAt' \in Nat  BY <3>1, <3>2
    <3>4. time' \in Nat
      <4>1. time + 1 \in Nat  BY <3>1
      <4> QED  BY <2>1, <3>1, <4>1
    <3>5. live' \in BOOLEAN  BY <2>1, <3>1
    <3> QED  BY <1>5, <2>1, <3>3, <3>4, <3>5
  <2>3. LogInv'  BY <1>1, <1>3, <2>1 DEF LogInv, ReadingTypes
  <2> QED  BY <1>4, <2>2, <2>3 DEF ReadingsInv
<1>8. CASE Readings!Writes
  <2>1. PICK kind \in Readings!Kind: log' = Append(log, [boot |-> boot, kind |-> kind, at |-> time])
    BY <1>8 DEF Readings!Writes
  <2>2. UNCHANGED <<boot, live, startedAt, time>>  BY <1>8 DEF Readings!Writes
  <2>3. PICK line \in Line: line = [boot |-> boot, kind |-> kind, at |-> time]
    BY <1>1 DEF ReadingTypes, Line
  <2>4. line.boot = boot /\ line.at = time  BY <2>3
  <2>5. PICK more \in Seq(Line): more = log'
    BY <1>1, <2>1, <2>3, AppendProperties DEF ReadingTypes
  <2>6. /\ Len(more) = Len(log) + 1 /\ more[Len(log) + 1] = line
        /\ \A i \in 1..Len(log): more[i] = log[i]
    BY <1>1, <2>1, <2>3, <2>5, AppendProperties DEF ReadingTypes
  <2>7. \A i \in 1..Len(more): i = Len(log) + 1 \/ i \in 1..Len(log)  BY <1>3, <2>6
  <2>8. more[Len(more)] = line  BY <2>6
  <2>9. ReadingTypes'  BY <1>1, <1>2, <2>2, <2>5 DEF ReadingTypes
  <2>10. LogInv'
    <3>1. ASSUME NEW i \in 1..Len(more)
          PROVE  /\ more[i].boot <= boot /\ more[i].at <= time
                 /\ more[i].at >= startedAt => more[i].boot = boot
                 /\ more[i].boot <= more[Len(more)].boot
      <4>1. CASE i = Len(log) + 1  BY <1>1, <2>4, <2>6, <2>8, <4>1 DEF ReadingTypes
      <4>2. CASE i \in 1..Len(log)  BY <1>1, <2>4, <2>6, <2>8, <4>2 DEF LogInv
      <4> QED  BY <2>7, <4>1, <4>2
    <3>2. startedAt <= time  BY <1>1 DEF LogInv
    <3> QED  BY <2>2, <2>5, <3>1, <3>2 DEF LogInv
  <2>11. CheckInv'
    <3> SUFFICES ASSUME check.seen # 0
                 PROVE  /\ check.seen <= boot
                        /\ \A i \in 1..Len(more): more[i].at >= check.since => more[i].boot >= check.seen
      BY <1>2, <2>2, <2>5 DEF CheckInv
    <3>1. check.seen <= boot /\ check.seen \in Nat /\ boot \in Nat  BY <1>1 DEF CheckInv, ReadingTypes
    <3>2. ASSUME NEW i \in 1..Len(more), more[i].at >= check.since PROVE more[i].boot >= check.seen
      <4>1. CASE i = Len(log) + 1  BY <2>4, <2>6, <3>1, <4>1
      <4>2. CASE i \in 1..Len(log)  BY <1>1, <2>6, <3>2, <4>2 DEF CheckInv
      <4> QED  BY <2>7, <4>1, <4>2
    <3> QED  BY <3>1, <3>2
  <2>12. StudyInv'  BY <1>1, <1>2, <2>2 DEF StudyInv
  <2>13. Readings!ReadyIsOfThisBoot'
    <3> SUFFICES ASSUME verdict.ready, verdict.seen # Readings!NotKnown
                 PROVE  \E i \in DOMAIN more: more[i].kind = "ready" /\ more[i].boot >= verdict.seen
      BY <1>2, <2>5 DEF Readings!ReadyIsOfThisBoot, Readings!NotKnown
    <3>1. PICK i \in 1..Len(log): log[i].kind = "ready" /\ log[i].boot >= verdict.seen
      BY <1>1, <1>3 DEF Readings!ReadyIsOfThisBoot
    <3>2. i \in DOMAIN more /\ more[i] = log[i]  BY <1>3, <2>6, LenProperties
    <3> QED  BY <3>1, <3>2
  <2> QED  BY <1>4, <2>9, <2>10, <2>11, <2>12, <2>13 DEF ReadingsInv
<1> QED  BY <1>6, <1>7, <1>8

\* What a readiness check takes for a signal is a line among those it reads.
LEMMA SignalIsALine ==
  ASSUME NEW lines, NEW require, NEW since, Readings!HasReadySignal(lines, require, since)
  PROVE  \E i \in lines: log[i].kind = "ready"
<1>1. Readings!Newest(lines, "ready") > 0  BY DEF Readings!HasReadySignal
<1>2. {i \in lines: log[i].kind = "ready"} = {} => Readings!Newest(lines, "ready") = 0
  BY DEF Readings!Newest
<1>3. {i \in lines: log[i].kind = "ready"} # {}
  <2>1. ~ (0 > 0)  OBVIOUS
  <2> QED  BY <1>1, <1>2, <2>1
<1> QED  BY <1>3

\* A check answers yes only for a line of the boot it looks at, or a later one.
LEMMA YesIsOfThisBoot ==
  ASSUME ReadingsInv, check.seen # 0,
         \/ Readings!HasReadySignal(Readings!DockerLog(check.since), FALSE, check.since)
         \/ Readings!HasReadySignal(Readings!LogFile(check.since), TRUE, check.since)
  PROVE  \E i \in DOMAIN log: log[i].kind = "ready" /\ log[i].boot >= check.seen
<1>1. ReadingTypes /\ LogInv /\ CheckInv  BY DEF ReadingsInv
<1>2. Len(log) \in Nat /\ DOMAIN log = 1..Len(log)
      /\ \A i \in 1..Len(log): log[i].boot \in Nat /\ log[i].at \in Nat
  <2>1. log \in Seq(Line)  BY <1>1 DEF ReadingTypes
  <2>2. \A i \in 1..Len(log): log[i] \in Line  BY <2>1, ElementOfSeq
  <2> QED  BY <2>1, <2>2, LenProperties DEF Line
<1>3. check.since \in Nat /\ check.seen \in Nat  BY <1>1 DEF ReadingTypes
<1>4. CASE Readings!HasReadySignal(Readings!DockerLog(check.since), FALSE, check.since)
  <2>1. PICK i \in Readings!DockerLog(check.since): log[i].kind = "ready"
    BY <1>4, SignalIsALine
  <2>2. i \in DOMAIN log /\ log[i].at >= check.since
    BY <2>1 DEF Readings!DockerLog, Readings!AtMost
  <2> QED  BY <1>1, <1>2, <2>1, <2>2 DEF CheckInv
<1>5. CASE Readings!HasReadySignal(Readings!LogFile(check.since), TRUE, check.since)
  <2>1. PICK i \in Readings!LogFile(check.since): log[i].kind = "ready"
    BY <1>5, SignalIsALine
  <2>2. log # <<>> /\ ~ (log[Len(log)].at < check.since) /\ i \in Readings!AtMost(Readings!LatestLog, FileTail)
    BY <2>1 DEF Readings!LogFile
  <2>3. i \in DOMAIN log /\ log[i].boot = log[Len(log)].boot
    BY <2>2 DEF Readings!AtMost, Readings!LatestLog
  <2>4. Len(log) \in 1..Len(log)  BY <1>2, <2>3
  <2>5. log[Len(log)].at >= check.since  BY <1>2, <1>3, <2>2, <2>4
  <2>6. log[Len(log)].boot >= check.seen  BY <1>1, <2>4, <2>5 DEF CheckInv
  <2> QED  BY <2>1, <2>3, <2>6
<1> QED  BY <1>4, <1>5

LEMMA ChecksKeep ==
  ReadingsInv /\ (Readings!BeginCheck \/ Readings!Inspect \/ Readings!ScanLogs \/ Readings!ScanFile)
    => ReadingsInv'
<1> SUFFICES ASSUME ReadingsInv,
                    Readings!BeginCheck \/ Readings!Inspect \/ Readings!ScanLogs \/ Readings!ScanFile
             PROVE  ReadingsInv'
  OBVIOUS
<1>1. /\ ReadingTypes /\ LogInv /\ CheckInv /\ StudyInv
      /\ Readings!ReadyIsOfThisBoot /\ Readings!ReportIsOfOneBoot
  BY DEF ReadingsInv
<1>2. UNCHANGED <<boot, live, startedAt, time, log, study>>
  BY DEF Readings!BeginCheck, Readings!Inspect, Readings!ScanLogs, Readings!ScanFile,
         Readings!containerVars, Readings!studyVars
<1>3. LogInv' /\ StudyInv'  BY <1>1, <1>2 DEF LogInv, StudyInv
<1>4. CASE Readings!BeginCheck
  <2>1. /\ check' = [step |-> "inspect", seen |-> 0, since |-> 0] /\ verdict' = [ready |-> FALSE, seen |-> 0]
        /\ report' = [flags |-> 0, after |-> 0]
    BY <1>4 DEF Readings!BeginCheck, Readings!NoCheck, Readings!NoVerdict, Readings!NoReport, Readings!NotKnown
  <2>2. ReadingTypes'  BY <1>1, <1>2, <2>1 DEF ReadingTypes
  <2>3. CheckInv' /\ Readings!ReadyIsOfThisBoot' /\ Readings!ReportIsOfOneBoot'
    BY <2>1 DEF CheckInv, Readings!ReadyIsOfThisBoot, Readings!ReportIsOfOneBoot
  <2> QED  BY <1>3, <2>2, <2>3 DEF ReadingsInv
<1>5. CASE Readings!Inspect
  <2>1. UNCHANGED <<verdict, report>>  BY <1>5 DEF Readings!Inspect, Readings!studyVars
  <2>2. \/ check' = [step |-> "logs", seen |-> boot, since |-> startedAt]
        \/ check' = [step |-> "logs", seen |-> 0, since |-> 0]
    BY <1>5 DEF Readings!Inspect, Readings!NoCheck, Readings!NotKnown
  <2>3. ReadingTypes'  BY <1>1, <1>2, <2>1, <2>2 DEF ReadingTypes
  <2>4. CheckInv'
    <3>1. CASE check' = [step |-> "logs", seen |-> boot, since |-> startedAt]
      <4>1. check'.seen = boot /\ check'.since = startedAt  BY <3>1
      <4>2. boot \in Nat  BY <1>1 DEF ReadingTypes
      <4> QED  BY <1>1, <1>2, <4>1, <4>2 DEF CheckInv, LogInv
    <3>2. CASE check' = [step |-> "logs", seen |-> 0, since |-> 0]
      BY <3>2 DEF CheckInv
    <3> QED  BY <2>2, <3>1, <3>2
  <2>5. Readings!ReadyIsOfThisBoot' /\ Readings!ReportIsOfOneBoot'
    BY <1>1, <1>2, <2>1 DEF Readings!ReadyIsOfThisBoot, Readings!ReportIsOfOneBoot
  <2> QED  BY <1>3, <2>3, <2>4, <2>5 DEF ReadingsInv
<1>6. ASSUME NEW yes \in BOOLEAN, Readings!Answers(yes), report' = report,
             yes => \/ Readings!HasReadySignal(Readings!DockerLog(check.since), FALSE, check.since)
                    \/ Readings!HasReadySignal(Readings!LogFile(check.since), TRUE, check.since)
      PROVE  ReadingsInv'
  <2>1. check' = [step |-> "none", seen |-> 0, since |-> 0] /\ verdict' = [ready |-> yes, seen |-> check.seen]
    BY <1>6 DEF Readings!Answers, Readings!NoCheck, Readings!NotKnown
  <2>2. check.seen \in Nat  BY <1>1 DEF ReadingTypes
  <2>3. ReadingTypes'  BY <1>1, <1>2, <1>6, <2>1, <2>2 DEF ReadingTypes
  <2>4. CheckInv' /\ Readings!ReportIsOfOneBoot'
    BY <1>1, <1>6, <2>1 DEF CheckInv, Readings!ReportIsOfOneBoot
  <2>5. Readings!ReadyIsOfThisBoot'
    <3>1. verdict'.ready = yes /\ verdict'.seen = check.seen  BY <2>1
    <3>2. yes /\ check.seen # 0 => \E i \in DOMAIN log: log[i].kind = "ready" /\ log[i].boot >= check.seen
      BY <1>6, YesIsOfThisBoot
    <3> QED  BY <1>2, <3>1, <3>2 DEF Readings!ReadyIsOfThisBoot, Readings!NotKnown
  <2> QED  BY <1>3, <2>3, <2>4, <2>5 DEF ReadingsInv
<1>7. CASE Readings!ScanLogs
  <2>1. report' = report  BY <1>7 DEF Readings!ScanLogs, Readings!studyVars
  <2>2. CASE Readings!HasReadySignal(Readings!DockerLog(check.since), FALSE, check.since) /\ Readings!Answers(TRUE)
    BY <1>6, <2>1, <2>2
  <2>3. CASE check' = [check EXCEPT !.step = "file"] /\ UNCHANGED verdict
    <3>1. check'.seen = check.seen /\ check'.since = check.since
          /\ check' \in [step: {"none", "inspect", "logs", "file"}, seen: Nat, since: Nat]
      BY <1>1, <2>3 DEF ReadingTypes
    <3>2. ReadingTypes'  BY <1>1, <1>2, <2>1, <2>3, <3>1 DEF ReadingTypes
    <3>3. CheckInv'  BY <1>1, <1>2, <3>1 DEF CheckInv
    <3>4. Readings!ReadyIsOfThisBoot' /\ Readings!ReportIsOfOneBoot'
      BY <1>1, <1>2, <2>1, <2>3 DEF Readings!ReadyIsOfThisBoot, Readings!ReportIsOfOneBoot
    <3> QED  BY <1>3, <3>2, <3>3, <3>4 DEF ReadingsInv
  <2> QED  BY <1>7, <2>2, <2>3 DEF Readings!ScanLogs
<1>8. CASE Readings!ScanFile
  <2>1. report' = report  BY <1>8 DEF Readings!ScanFile, Readings!studyVars
  <2>2. PICK yes \in BOOLEAN: yes = Readings!HasReadySignal(Readings!LogFile(check.since), TRUE, check.since)
    BY DEF Readings!HasReadySignal
  <2>3. Readings!Answers(yes)  BY <1>8, <2>2 DEF Readings!ScanFile
  <2> QED  BY <1>6, <2>1, <2>2, <2>3
<1> QED  BY <1>4, <1>5, <1>7, <1>8

LEMMA StudiesKeep ==
  ReadingsInv /\ (\/ Readings!BeginStudy \/ Readings!ReadFlags \/ Readings!ReadFlagsWithHelper
                  \/ Readings!InspectAgain \/ Readings!StudyFails) => ReadingsInv'
<1> SUFFICES ASSUME ReadingsInv,
                    \/ Readings!BeginStudy \/ Readings!ReadFlags \/ Readings!ReadFlagsWithHelper
                    \/ Readings!InspectAgain \/ Readings!StudyFails
             PROVE  ReadingsInv'
  OBVIOUS
<1>1. /\ ReadingTypes /\ LogInv /\ CheckInv /\ StudyInv
      /\ Readings!ReadyIsOfThisBoot /\ Readings!ReportIsOfOneBoot /\ boot \in Nat
  BY DEF ReadingsInv, ReadingTypes
<1>2. UNCHANGED <<boot, live, startedAt, time, log, check>>
  BY DEF Readings!BeginStudy, Readings!ReadFlags, Readings!ReadFlagsWithHelper, Readings!InspectAgain,
         Readings!StudyFails, Readings!Report, Readings!containerVars, Readings!checkVars
<1>3. LogInv' /\ CheckInv'  BY <1>1, <1>2 DEF LogInv, CheckInv
<1>4. CASE Readings!BeginStudy
  <2>1. /\ study' = [step |-> "flags", before |-> boot, flags |-> 0] /\ verdict' = [ready |-> FALSE, seen |-> 0]
        /\ report' = [flags |-> 0, after |-> 0]
    BY <1>4 DEF Readings!BeginStudy, Readings!NoVerdict, Readings!NoReport, Readings!NotKnown
  <2>2. ReadingTypes'  BY <1>1, <1>2, <2>1 DEF ReadingTypes
  <2>3. StudyInv' /\ Readings!ReadyIsOfThisBoot' /\ Readings!ReportIsOfOneBoot'
    BY <1>1, <1>2, <2>1 DEF StudyInv, Readings!ReadyIsOfThisBoot, Readings!ReportIsOfOneBoot
  <2> QED  BY <1>3, <2>2, <2>3 DEF ReadingsInv
<1>5. CASE Readings!ReadFlags \/ Readings!ReadFlagsWithHelper
  <2>1. UNCHANGED <<verdict, report>>
    BY <1>5 DEF Readings!ReadFlags, Readings!ReadFlagsWithHelper, Readings!checkVars
  <2>2. \/ study' = [study EXCEPT !.step = "after", !.flags = boot]
        \/ study' = [study EXCEPT !.step = "after"] \/ study' = [study EXCEPT !.step = "helper"]
    BY <1>5 DEF Readings!ReadFlags, Readings!ReadFlagsWithHelper
  <2>3. /\ study' \in [step: {"none", "flags", "helper", "after"}, before: Nat, flags: Nat]
        /\ study'.before = study.before /\ study'.flags \in {study.flags, boot}
    BY <1>1, <2>2 DEF ReadingTypes
  <2>4. ReadingTypes'  BY <1>1, <1>2, <2>1, <2>3 DEF ReadingTypes
  <2>5. StudyInv'  BY <1>1, <1>2, <2>3 DEF StudyInv
  <2>6. Readings!ReadyIsOfThisBoot' /\ Readings!ReportIsOfOneBoot'
    BY <1>1, <1>2, <2>1 DEF Readings!ReadyIsOfThisBoot, Readings!ReportIsOfOneBoot
  <2> QED  BY <1>3, <2>4, <2>5, <2>6 DEF ReadingsInv
<1>6. CASE Readings!InspectAgain \/ Readings!StudyFails
  <2>1. verdict' = verdict /\ study' = [step |-> "none", before |-> 0, flags |-> 0]
    BY <1>6 DEF Readings!InspectAgain, Readings!StudyFails, Readings!Report, Readings!checkVars,
                Readings!NoStudy, Readings!NotKnown
  <2>2. report' = [flags |-> 0, after |-> 0]
        \/ (Readings!Unchanged /\ study.flags # 0 /\ report' = [flags |-> study.flags, after |-> boot])
    BY <1>6 DEF Readings!InspectAgain, Readings!StudyFails, Readings!Report, Readings!NoReport, Readings!NotKnown
  <2>3. study.flags \in Nat /\ study.before \in Nat  BY <1>1 DEF ReadingTypes
  <2>4. report' \in [flags: Nat, after: Nat]  BY <1>1, <2>2, <2>3
  <2>5. report'.flags = report'.after
    <3>1. CASE report' = [flags |-> 0, after |-> 0]  BY <3>1
    <3>2. CASE Readings!Unchanged /\ study.flags # 0 /\ report' = [flags |-> study.flags, after |-> boot]
      <4>1. study.flags = boot  BY <1>1, <2>3, <3>2 DEF StudyInv, Readings!Unchanged
      <4> QED  BY <3>2, <4>1
    <3> QED  BY <2>2, <3>1, <3>2
  <2>6. ReadingTypes'  BY <1>1, <1>2, <2>1, <2>4 DEF ReadingTypes
  <2>7. StudyInv'  BY <1>1, <1>2, <2>1 DEF StudyInv
  <2>8. Readings!ReadyIsOfThisBoot' /\ Readings!ReportIsOfOneBoot'
    BY <1>1, <1>2, <2>1, <2>5 DEF Readings!ReadyIsOfThisBoot, Readings!ReportIsOfOneBoot
  <2> QED  BY <1>3, <2>6, <2>7, <2>8 DEF ReadingsInv
<1> QED  BY <1>4, <1>5, <1>6

LEMMA ReadingsNext == ReadingsInv /\ Readings!Next => ReadingsInv'
BY ContainerKeeps, ChecksKeep, StudiesKeep DEF Readings!Next

LEMMA ReadingsStutter == ReadingsInv /\ UNCHANGED readingVars => ReadingsInv'
<1> SUFFICES ASSUME ReadingsInv, UNCHANGED readingVars PROVE ReadingsInv'  OBVIOUS
<1>1. UNCHANGED <<boot, live, startedAt, time, log, check, verdict, study, report, helper>>  BY DEF readingVars
<1>2. ReadingTypes'  BY <1>1 DEF ReadingsInv, ReadingTypes
<1>3. LogInv' /\ CheckInv' /\ StudyInv'  BY <1>1 DEF ReadingsInv, LogInv, CheckInv, StudyInv
<1>4. Readings!ReadyIsOfThisBoot' /\ Readings!ReportIsOfOneBoot'
  BY <1>1 DEF ReadingsInv, Readings!ReadyIsOfThisBoot, Readings!ReportIsOfOneBoot
<1> QED  BY <1>2, <1>3, <1>4 DEF ReadingsInv

-----------------------------------------------------------------------------

\* Every command of an RCON batch gets its own, whole answer, unless it was given
\* up for its grace period; no tab that has seen the game stop is shown a reading
\* of the run before; and neither readiness nor heap is read across two boots.
THEOREM OwnAnswers == ConnectionsSpec => []AnswersBelong
<1> DEFINE Inv == BatchInv /\ TpsInv /\ ReadingsInv
<1>1. ConnectionsInit => Inv
  BY BatchStarts, TpsStarts, ReadingsStart DEF ConnectionsInit
<1>2. Inv /\ [ConnectionsNext]_parts => Inv'
  <2> SUFFICES ASSUME Inv, [ConnectionsNext]_parts PROVE Inv'  OBVIOUS
  <2>1. BatchInv'
    <3>1. RconStep \/ UNCHANGED rconVars
      BY DEF ConnectionsNext, GatewayStep, TpsStep, ReadingsStep, BatchOver, parts
    <3> QED  BY <3>1, BatchKept, BatchStutters DEF RconStep
  <2>2. TpsInv'
    <3>1. TpsStep \/ UNCHANGED tpsVars
      BY DEF ConnectionsNext, GatewayStep, RconStep, ReadingsStep, BatchOver, parts
    <3> QED  BY <3>1, TpsKept, TpsOthersKeep DEF TpsStep
  <2>3. ReadingsInv'
    <3>1. ReadingsStep \/ UNCHANGED readingVars
      BY DEF ConnectionsNext, GatewayStep, RconStep, TpsStep, BatchOver, parts
    <3> QED  BY <3>1, ReadingsNext, ReadingsStutter DEF ReadingsStep
  <2> QED  BY <2>1, <2>2, <2>3
<1>3. Inv => AnswersBelong
  BY BatchHolds DEF AnswersBelong, TpsInv, ReadingsInv, Readings!ReadingsAreCurrent
<1> QED  BY <1>1, <1>2, <1>3, PTL DEF ConnectionsSpec

=============================================================================
