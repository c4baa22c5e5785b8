-------------------------- MODULE EchoServerProofs --------------------------
(***************************************************************************)
(* Proofs about the echo server of cmd/gpsce/main.go, for any number of    *)
(* connections and rounds and any sizes: its types, and that what a        *)
(* connection gets back is a prefix of what it sent.                       *)
(***************************************************************************)
EXTENDS EchoServer, SequenceTheorems, TLAPS

Locals == [at : {"rhdr", "rbody", "whdr", "wbody"}, got : Seq(Unit), tries : 0..(ioRetries - 1),
           hdr : Seq(Unit), payload : Seq(Unit), n : Nat, round : 0..Rounds]

(* The variables are tables over the connections. *)
Tables ==
  /\ running \in BOOLEAN /\ failures \in 0..acceptRetries
  /\ conn \in [Conn -> {"free", "queued", "served", "closed"}]
  /\ go \in [Conn -> Locals]
  /\ up \in [Conn -> Seq(Unit)] /\ down \in [Conn -> Seq(Unit)]
  /\ taken \in [Conn -> Seq(Unit)] /\ sent \in [Conn -> Seq(Unit)]
  /\ gone \in [Conn -> BOOLEAN] /\ torn \in [Conn -> BOOLEAN]
  /\ stalls \in [Conn -> 0..StallLimit]

(* What is on the wire. *)
Wire(c) == Len(down[c]) <= Window /\ Len(taken[c]) + Len(up[c]) <= SendLimit

(* What a goroutine has of the frame it is at. *)
Frame(c) ==
  conn[c] # "closed" =>
    /\ IF go[c].at = "rbody" THEN Len(go[c].got) < Needed(c) ELSE go[c].got = <<>>
    /\ go[c].round < Rounds
    /\ go[c].at # "rhdr" => \E h \in Header : go[c].hdr = <<h>>
    /\ go[c].at \in {"whdr", "wbody"} => Len(go[c].payload) = Needed(c) /\ go[c].n < Len(Buffer(c))
    /\ conn[c] # "served" => go[c].at = "rhdr"

(* What it has read and not yet written. *)
Owed(c) ==
  LET g == go[c] IN
  CASE g.at = "rhdr" -> <<>>
    [] g.at = "rbody" -> g.hdr \o g.got
    [] g.at = "whdr" -> g.hdr \o g.payload
    [] g.at = "wbody" -> SubSeq(g.payload, g.n + 1, Len(g.payload))

(* What was read is what was written and what is owed; a connection that has
   ended may owe anything. *)
Balance(c) ==
  ~torn[c] =>
    /\ conn[c] # "closed" => taken[c] = sent[c] \o Owed(c)
    /\ \E rest \in Seq(Unit) : taken[c] = sent[c] \o rest

ESInv == Tables /\ \A c \in Conn : Wire(c) /\ Frame(c) /\ Balance(c)

----------------------------------------------------------------------------
(* Moving a unit from what is owed, and to it *)

(* A header is a unit like any other, and announces a payload. *)
LEMMA Sizes ==
  /\ Rounds \in Nat /\ Rounds > 0 /\ Window \in Nat /\ Window > 0
  /\ SendLimit \in Nat /\ StallLimit \in Nat
  /\ \A h \in Header : h \in Unit /\ Announced[h] \in Nat /\ Announced[h] > 0
BY SizesAssumption

(* A sequence of one unit. *)
LEMMA OneUnit == \A u \in Unit : <<u>> \in Seq(Unit) /\ Len(<<u>>) = 1
OBVIOUS

(* A unit read is owed. *)
LEMMA ReadIsOwed ==
  \A s, owed \in Seq(Unit) : \A u \in Unit : Append(s \o owed, u) = s \o Append(owed, u)
<1>1. TAKE s, owed \in Seq(Unit)
<1>2. TAKE u \in Unit
<1>3. s \o owed \in Seq(Unit) /\ <<u>> \in Seq(Unit)
  BY ConcatProperties, OneUnit
<1>4. Append(s \o owed, u) = (s \o owed) \o <<u>> /\ Append(owed, u) = owed \o <<u>>
  BY <1>3, AppendIsConcat
<1>5. QED BY <1>3, <1>4, ConcatAssociative

(* The first unit owed, once written, is owed no more. *)
LEMMA WrittenIsPaid ==
  \A s, rest \in Seq(Unit) : \A u \in Unit : s \o (<<u>> \o rest) = Append(s, u) \o rest
<1>1. TAKE s, rest \in Seq(Unit)
<1>2. TAKE u \in Unit
<1>3. <<u>> \in Seq(Unit)
  BY OneUnit
<1>4. QED BY <1>3, ConcatAssociative, AppendIsConcat

(* A sequence begins with what is put in front. *)
LEMMA StartsWith ==
  \A u \in Unit : \A s \in Seq(Unit) :
    <<u>> \o s \in Seq(Unit) /\ Len(<<u>> \o s) > 0 /\ (<<u>> \o s)[1] = u
<1>1. TAKE u \in Unit
<1>2. TAKE s \in Seq(Unit)
<1>3. <<u>> \in Seq(Unit) /\ Len(<<u>>) = 1 /\ <<u>>[1] = u /\ Len(s) \in Nat
  OBVIOUS
<1>4. /\ <<u>> \o s \in Seq(Unit) /\ Len(<<u>> \o s) = 1 + Len(s)
      /\ \A i \in 1..1 + Len(s) : (<<u>> \o s)[i] = IF i <= 1 THEN <<u>>[i] ELSE s[i - 1]
  BY <1>3, ConcatProperties
<1>5. 1 \in 1..1 + Len(s) /\ 1 <= 1 /\ 1 + Len(s) > 0 BY <1>3
<1>6. (<<u>> \o s)[1] = <<u>>[1] BY <1>4, <1>5
<1>7. QED BY <1>3, <1>4, <1>5, <1>6

(* What a partial write leaves. *)
LEMMA RestOfPayload ==
  ASSUME NEW p \in Seq(Unit), NEW n \in Nat, n < Len(p)
  PROVE  /\ p[n + 1] \in Unit /\ SubSeq(p, n + 2, Len(p)) \in Seq(Unit)
         /\ SubSeq(p, n + 1, Len(p)) = <<p[n + 1]>> \o SubSeq(p, n + 2, Len(p))
<1>1. n + 1 \in 1..Len(p) /\ Len(p) \in n + 1..Len(p)
  BY LenProperties
<1>2. \A i \in n + 2..Len(p) : p[i] \in Unit
  BY LenProperties
<1>3. SubSeq(p, n + 1, Len(p)) = <<p[n + 1]>> \o SubSeq(p, n + 1 + 1, Len(p))
  BY <1>1, SubSeqRecursiveFirst
<1>4. n + 1 + 1 = n + 2 /\ n + 2 \in Int /\ Len(p) \in Int
  BY LenProperties
<1>5. SubSeq(p, n + 2, Len(p)) \in Seq(Unit)
  BY <1>2, <1>4, SubSeqProperties
<1>6. QED BY <1>1, <1>3, <1>4, <1>5, ElementOfSeq

(* A goroutine past its header has it, and knows what it announces. *)
LEMMA HeaderKnown ==
  ASSUME NEW c \in Conn, Frame(c), conn[c] = "served", go[c].at # "rhdr"
  PROVE  /\ go[c].hdr \in Seq(Unit) /\ Len(go[c].hdr) = 1 /\ go[c].hdr[1] \in Unit
         /\ Needed(c) \in Nat /\ Needed(c) > 0
<1>1. PICK h \in Header : go[c].hdr = <<h>>
  BY DEF Frame
<1>2. h \in Unit /\ Announced[h] \in Nat /\ Announced[h] > 0
  BY Sizes
<1>3. <<h>> \in Seq(Unit) /\ Len(<<h>>) = 1 /\ <<h>>[1] = h /\ Head(<<h>>) = h
  BY <1>2
<1>4. Needed(c) = Announced[h]
  BY <1>1, <1>3 DEF Needed
<1>5. QED BY <1>1, <1>2, <1>3, <1>4

----------------------------------------------------------------------------
(* The invariant *)

(* It holds when the server starts. *)
LEMMA ESInitInv == ESInit => ESInv
<1> SUFFICES ASSUME ESInit PROVE ESInv
  OBVIOUS
<1>1. Start \in Locals
  BY Sizes DEF Start, Locals, ioRetries
<1>2. Tables
  BY <1>1, Sizes DEF ESInit, Tables, acceptRetries
<1>3. ASSUME NEW c \in Conn PROVE Wire(c) /\ Frame(c) /\ Balance(c)
  <2>1. /\ go[c] = Start /\ conn[c] = "free" /\ up[c] = <<>> /\ down[c] = <<>> /\ taken[c] = <<>>
        /\ sent[c] = <<>>
    BY <1>3 DEF ESInit
  <2>2. go[c].at = "rhdr" /\ go[c].got = <<>> /\ go[c].round = 0 /\ Len(<<>>) = 0
    BY <2>1, EmptySeq DEF Start
  <2>3. Frame(c)
    BY <2>1, <2>2, Sizes DEF Frame, Needed
  <2>4. <<>> \in Seq(Unit) /\ <<>> \o <<>> = <<>>
    BY ConcatEmptySeq
  <2>5. Balance(c)
    BY <2>1, <2>2, <2>4 DEF Balance, Owed
  <2>6. Wire(c)
    BY <2>1, <2>2, Sizes DEF Wire
  <2>7. QED BY <2>3, <2>5, <2>6
<1>4. QED BY <1>2, <1>3 DEF ESInv

(* A step that leaves the goroutine and the data of a connection alone. *)
Untouched(c) ==
  /\ UNCHANGED <<go[c], up[c], down[c], taken[c], sent[c], torn[c]>>
  /\ \/ conn'[c] \in {conn[c], "closed"}
     \/ conn[c] \in {"free", "queued"} /\ conn'[c] \in {"queued", "served"}

(* Such a step keeps what the invariant says of the connection. *)
LEMMA UntouchedKeeps ==
  ASSUME NEW c \in Conn, Wire(c), Frame(c), Balance(c), Untouched(c)
  PROVE  Wire(c)' /\ Frame(c)' /\ Balance(c)'
<1>1. Frame(c)'
  BY DEF Untouched, Frame, Needed, Buffer
<1>2. Owed(c)' = Owed(c)
  BY DEF Untouched, Owed
<1>3. Balance(c)'
  BY <1>2 DEF Untouched, Balance
<1>4. Wire(c)'
  BY DEF Untouched, Wire
<1>5. QED BY <1>1, <1>3, <1>4

(* Connections come and go: accepting, its errors, the ends of a connection. *)
LEMMA EndsKeepInv ==
  ASSUME ESInv, NEW c \in Conn,
         Accept(c) \/ Connects(c) \/ ReadsEof(c) \/ WriteFails(c) \/ ClientCloses(c)
  PROVE  ESInv'
<1> USE DEF Untouched, Tables, processVars, wireVars, ghostVars, acceptRetries
<1>1. Tables
  BY DEF ESInv
<1>2. CASE Accept(c)
  <2>1. Tables' /\ \A k \in Conn : Untouched(k)
    BY <1>1, <1>2 DEF Accept
  <2>2. QED BY <2>1, UntouchedKeeps DEF ESInv
<1>3. CASE Connects(c)
  <2>1. Tables' /\ \A k \in Conn : Untouched(k)
    BY <1>1, <1>3 DEF Connects
  <2>2. QED BY <2>1, UntouchedKeeps DEF ESInv
<1>4. CASE ReadsEof(c)
  <2>1. Tables' /\ \A k \in Conn : Untouched(k)
    BY <1>1, <1>4 DEF ReadsEof, Ends
  <2>2. QED BY <2>1, UntouchedKeeps DEF ESInv
<1>5. CASE WriteFails(c)
  <2>1. Tables' /\ \A k \in Conn : Untouched(k)
    BY <1>1, <1>5 DEF WriteFails, Ends
  <2>2. QED BY <2>1, UntouchedKeeps DEF ESInv
<1>6. CASE ClientCloses(c)
  <2>1. Tables' /\ \A k \in Conn : Untouched(k)
    BY <1>1, <1>6 DEF ClientCloses
  <2>2. QED BY <2>1, UntouchedKeeps DEF ESInv
<1>7. QED BY <1>2, <1>3, <1>4, <1>5, <1>6

(* An error of the accept loop keeps it, also the one that ends the process. *)
LEMMA AcceptFailsKeepsInv == ESInv /\ AcceptFails => ESInv'
<1> SUFFICES ASSUME ESInv, AcceptFails PROVE ESInv'
  OBVIOUS
<1> USE DEF Untouched, Tables, processVars, wireVars, ghostVars, acceptRetries
<1>1. /\ running' \in BOOLEAN /\ failures' \in 0..acceptRetries
      /\ conn' = conn \/ conn' = [k \in Conn |-> IF conn[k] = "free" THEN "free" ELSE "closed"]
      /\ UNCHANGED <<go, wireVars, ghostVars>>
  <2>1. Tables BY DEF ESInv
  <2>2. running' \in BOOLEAN BY <2>1, Zenon DEF AcceptFails, ProcessEnds
  <2>3. failures' = failures \/ (failures < acceptRetries - 1 /\ failures' = failures + 1)
    BY Zenon DEF AcceptFails
  <2>4. conn' = conn \/ conn' = [k \in Conn |-> IF conn[k] = "free" THEN "free" ELSE "closed"]
    BY Zenon DEF AcceptFails, ProcessEnds
  <2>5. failures' \in 0..acceptRetries BY <2>1, <2>3
  <2>6. QED BY <2>2, <2>4, <2>5 DEF AcceptFails
<1>2. Tables' /\ \A k \in Conn : Untouched(k)
  BY <1>1 DEF ESInv
<1>3. QED BY <1>2, UntouchedKeeps DEF ESInv

(* What a step at one connection must show. *)
LEMMA OneConnection ==
  ASSUME ESInv, NEW c \in Conn, Tables', \A k \in Conn \ {c} : Untouched(k),
         Wire(c)', Frame(c)', Balance(c)'
  PROVE  ESInv'
<1>1. ASSUME NEW k \in Conn, k # c PROVE Wire(k)' /\ Frame(k)' /\ Balance(k)'
  BY <1>1, UntouchedKeeps DEF ESInv
<1>2. QED BY <1>1 DEF ESInv

(* What happens to the data in flight alone leaves the server in order. *)
LEMMA WireChanges ==
  ASSUME ESInv,
         UNCHANGED <<running, failures, conn, go, taken, sent, torn, stalls>>,
         up' \in [Conn -> Seq(Unit)], down' \in [Conn -> Seq(Unit)], gone' \in [Conn -> BOOLEAN],
         \A c \in Conn : Wire(c)'
  PROVE  ESInv'
<1>1. Tables' BY DEF ESInv, Tables
<1>2. ASSUME NEW c \in Conn PROVE Wire(c)' /\ Frame(c)' /\ Balance(c)'
  <2>1. UNCHANGED <<conn[c], go[c], taken[c], sent[c], torn[c]>> OBVIOUS
  <2>2. Frame(c) /\ Balance(c) BY DEF ESInv
  <2>3. Owed(c)' = Owed(c) BY <2>1 DEF Owed
  <2>4. Frame(c)' BY <2>1, <2>2 DEF Frame, Needed, Buffer
  <2>5. Balance(c)' BY <2>1, <2>2, <2>3 DEF Balance
  <2>6. QED BY <2>4, <2>5
<1>3. QED BY <1>1, <1>2 DEF ESInv

(* The client's data on the wire. *)
LEMMA WireKeepsInv ==
  ASSUME ESInv, NEW c \in Conn, (\E u \in Unit : ClientSends(c, u)) \/ ClientReads(c)
  PROVE  ESInv'
<1>1. Tables /\ \A k \in Conn : Wire(k)
  BY DEF ESInv
<1>2. \A k \in Conn : Len(taken[k]) \in Nat /\ Len(up[k]) \in Nat /\ Len(down[k]) \in Nat
  BY <1>1, LenProperties DEF Tables
<1>3. ASSUME NEW u \in Unit, ClientSends(c, u) PROVE ESInv'
  <2>1. /\ Append(up[c], u) \in Seq(Unit) /\ Len(Append(up[c], u)) = Len(up[c]) + 1
        /\ up'[c] = Append(up[c], u) /\ \A k \in Conn \ {c} : up'[k] = up[k]
    BY <1>1, <1>3, AppendProperties DEF ClientSends, Tables
  <2>2. up' \in [Conn -> Seq(Unit)]
    BY <1>1, <1>3, <2>1 DEF ClientSends, Tables
  <2>3. /\ UNCHANGED <<running, failures, conn, go, down, gone, taken, sent, torn, stalls>>
        /\ Len(taken[c]) + Len(up[c]) < SendLimit
    BY <1>3 DEF ClientSends, processVars, ghostVars
  <2>4. Wire(c)'
    <3>1. \A a, b, l \in Nat : a + b < l => a + (b + 1) <= l
      OBVIOUS
    <3>2. Len(taken[c]) + (Len(up[c]) + 1) <= SendLimit
      BY <1>2, <2>3, <3>1, Sizes, Zenon
    <3>3. Len(taken'[c]) + Len(up'[c]) <= SendLimit
      BY <2>1, <2>3, <3>2, Zenon
    <3>4. QED BY <1>1, <2>3, <3>3 DEF Wire
  <2>5. \A k \in Conn \ {c} : Wire(k)' BY <1>1, <2>1, <2>3 DEF Wire
  <2>6. QED BY <1>1, <2>2, <2>3, <2>4, <2>5, WireChanges DEF Tables
<1>4. CASE ClientReads(c)
  <2>1. /\ Tail(down[c]) \in Seq(Unit) /\ Len(Tail(down[c])) = Len(down[c]) - 1
        /\ down'[c] = Tail(down[c]) /\ \A k \in Conn \ {c} : down'[k] = down[k]
    BY <1>1, <1>4, HeadTailProperties DEF ClientReads, Tables
  <2>2. down' \in [Conn -> Seq(Unit)]
    BY <1>1, <1>4, <2>1 DEF ClientReads, Tables
  <2>3. UNCHANGED <<running, failures, conn, go, up, gone, taken, sent, torn, stalls>>
    BY <1>4 DEF ClientReads, processVars, ghostVars
  <2>4. Len(down'[c]) <= Window
    <3>1. Len(down[c]) <= Window BY <1>1, Zenon DEF Wire
    <3>2. Len(down[c]) - 1 <= Window BY <1>2, <3>1, Sizes
    <3>3. QED BY <2>1, <3>2, Zenon
  <2>5. Wire(c)' BY <1>1, <2>3, <2>4 DEF Wire
  <2>6. \A k \in Conn \ {c} : Wire(k)' BY <1>1, <2>1, <2>3 DEF Wire
  <2>7. QED BY <1>1, <2>2, <2>3, <2>5, <2>6, WireChanges DEF Tables
<1>5. QED BY <1>3, <1>4

(* Deadlines: what was read is kept; a write starts over, and if a part of it
   is already on the wire the connection counts as torn. *)
LEMMA TimeoutsKeepInv ==
  ASSUME ESInv, NEW c \in Conn, ReadTimesOut(c) \/ WriteTimesOut(c)
  PROVE  ESInv'
<1>1. Tables /\ Wire(c) /\ Frame(c) /\ Balance(c) /\ go[c] \in Locals
  BY DEF ESInv, Tables
<1>2. CASE ReadTimesOut(c)
  <2>1. CASE go[c].tries < ioRetries - 1
    <3>1. /\ go' = [go EXCEPT ![c] = [go[c] EXCEPT !.tries = go[c].tries + 1]]
          /\ UNCHANGED <<running, failures, conn, up, down, gone, taken, sent, torn, stalls>>
      BY <1>2, <2>1 DEF ReadTimesOut, Continues, processVars, wireVars, ghostVars
    <3>2. [go[c] EXCEPT !.tries = go[c].tries + 1] \in Locals
      BY <1>1, <2>1 DEF Locals, ioRetries
    <3>3. Tables' /\ \A k \in Conn \ {c} : Untouched(k)
      BY <1>1, <3>1, <3>2 DEF Tables, Untouched
    <3>4. /\ go'[c].at = go[c].at /\ go'[c].got = go[c].got /\ go'[c].payload = go[c].payload
          /\ go'[c].hdr = go[c].hdr /\ go'[c].n = go[c].n /\ go'[c].round = go[c].round
          /\ UNCHANGED <<conn[c], up[c], down[c], taken[c], sent[c], torn[c]>>
      BY <1>1, <3>1 DEF Tables, Locals
    <3>5. Frame(c)'
      BY <1>1, <3>4 DEF Frame, Needed, Buffer
    <3>6. Owed(c)' = Owed(c)
      BY <3>4 DEF Owed
    <3>7. Balance(c)'
      BY <1>1, <3>4, <3>6 DEF Balance
    <3>8. Wire(c)'
      BY <1>1, <3>4 DEF Wire
    <3>9. QED BY <3>3, <3>5, <3>7, <3>8, OneConnection
  <2>2. CASE ~(go[c].tries < ioRetries - 1)
    <3>1. Tables' /\ \A k \in Conn : Untouched(k)
      BY <1>1, <1>2, <2>2
      DEF ReadTimesOut, Ends, Tables, Untouched, processVars, wireVars, ghostVars
    <3>2. QED BY <3>1, UntouchedKeeps DEF ESInv
  <2>3. QED BY <2>1, <2>2
<1>3. CASE WriteTimesOut(c)
  <2>1. /\ go' = [go EXCEPT ![c] = [go[c] EXCEPT !.n = 0]]
        /\ torn' = [torn EXCEPT ![c] = torn[c] \/ go[c].n > 0]
        /\ stalls' = [stalls EXCEPT ![c] = IF stalls[c] < StallLimit THEN stalls[c] + 1 ELSE stalls[c]]
        /\ UNCHANGED <<running, failures, conn, up, down, gone, taken, sent>>
        /\ conn[c] = "served" /\ go[c].at \in {"whdr", "wbody"}
    BY <1>3, Zenon DEF WriteTimesOut, Stuck, Continues, Writing, processVars, wireVars
  <2>2. [go[c] EXCEPT !.n = 0] \in Locals
    BY <1>1 DEF Locals
  <2>3. go' \in [Conn -> Locals] /\ stalls' \in [Conn -> 0..StallLimit]
    <3>1. stalls \in [Conn -> 0..StallLimit] /\ go \in [Conn -> Locals] BY <1>1 DEF Tables
    <3>2. stalls[c] \in 0..StallLimit BY <3>1
    <3>3. (IF stalls[c] < StallLimit THEN stalls[c] + 1 ELSE stalls[c]) \in 0..StallLimit
      BY <3>2, Sizes
    <3>4. QED BY <2>1, <2>2, <3>1, <3>3
  <2>4. torn' \in [Conn -> BOOLEAN]
    BY <1>1, <2>1, Zenon DEF Tables
  <2>5. Tables'
    BY <1>1, <2>1, <2>3, <2>4 DEF Tables
  <2>6. \A k \in Conn \ {c} : Untouched(k)
    BY <1>1, <2>1 DEF Tables, Untouched
  <2>7. /\ go'[c].at = go[c].at /\ go'[c].got = go[c].got /\ go'[c].payload = go[c].payload
        /\ go'[c].hdr = go[c].hdr /\ go'[c].n = 0 /\ go'[c].round = go[c].round
        /\ UNCHANGED <<conn[c], up[c], down[c], taken[c], sent[c]>>
    BY <1>1, <2>1 DEF Tables, Locals
  <2>8. torn'[c] <=> torn[c] \/ go[c].n > 0
    BY <1>1, <2>1, Zenon DEF Tables
  <2>9. Frame(c)'
    <3>1. Len(go[c].hdr) = 1 /\ Needed(c) \in Nat /\ Needed(c) > 0
      BY <1>1, <2>1, HeaderKnown
    <3>2. Needed(c)' = Needed(c) /\ Buffer(c)' = Buffer(c) BY <2>7 DEF Needed, Buffer
    <3>3. Len(Buffer(c)) > 0 BY <1>1, <2>1, <3>1 DEF Buffer, Frame
    <3>4. QED BY <1>1, <2>1, <2>7, <3>2, <3>3 DEF Frame
  <2>10. Wire(c)'
    BY <1>1, <2>7 DEF Wire
  <2>11. Balance(c)'
    <3>1. SUFFICES ASSUME ~torn'[c] PROVE Balance(c)'
      BY DEF Balance
    <3>2. ~torn[c] /\ go[c].n = 0
      BY <1>1, <2>8, <3>1 DEF Locals
    <3>3. Owed(c)' = Owed(c)
      BY <2>7, <3>2 DEF Owed
    <3>4. QED BY <1>1, <2>7, <3>2, <3>3 DEF Balance
  <2>12. QED BY <2>5, <2>6, <2>9, <2>10, <2>11, OneConnection
<1>4. QED BY <1>2, <1>3

(* What every way of taking a unit does to the wire; a connection that ends with
   it is in order. *)
Takes(c) ==
  /\ Reading(c) /\ up[c] # <<>>
  /\ up' = [up EXCEPT ![c] = Tail(up[c])]
  /\ taken' = [taken EXCEPT ![c] = Append(taken[c], Head(up[c]))]
  /\ UNCHANGED <<down, gone, sent, torn>>

LEMMA TakesUnit ==
  ASSUME ESInv, NEW c \in Conn, Takes(c)
  PROVE  /\ Head(up[c]) \in Unit
         /\ up' \in [Conn -> Seq(Unit)] /\ taken' \in [Conn -> Seq(Unit)]
         /\ taken'[c] = Append(taken[c], Head(up[c])) /\ UNCHANGED <<sent[c], torn[c]>>
         /\ \A k \in Conn \ {c} : UNCHANGED <<up[k], down[k], taken[k], sent[k], torn[k]>>
         /\ Wire(c)'
         /\ conn'[c] = "closed" => Frame(c)' /\ Balance(c)'
<1> DEFINE u == Head(up[c])
<1>1. Tables /\ Wire(c) /\ Balance(c)
  BY DEF ESInv
<1>2. /\ up[c] \in Seq(Unit) /\ up[c] # <<>> /\ taken[c] \in Seq(Unit) /\ sent[c] \in Seq(Unit)
  BY <1>1 DEF Takes, Tables
<1>3. u \in Unit /\ Tail(up[c]) \in Seq(Unit) /\ Len(Tail(up[c])) = Len(up[c]) - 1
  BY <1>2, HeadTailProperties
<1>4. Append(taken[c], u) \in Seq(Unit) /\ Len(Append(taken[c], u)) = Len(taken[c]) + 1
  BY <1>2, <1>3, AppendProperties
<1>5. up' \in [Conn -> Seq(Unit)] /\ taken' \in [Conn -> Seq(Unit)]
  BY <1>1, <1>3, <1>4 DEF Tables, Takes
<1>6. /\ up'[c] = Tail(up[c]) /\ taken'[c] = Append(taken[c], u)
      /\ UNCHANGED <<down[c], sent[c], torn[c]>>
      /\ \A k \in Conn \ {c} : UNCHANGED <<up[k], down[k], taken[k], sent[k], torn[k]>>
  BY <1>1 DEF Tables, Takes
<1>7. Wire(c)'
  <2>1. Len(taken[c]) \in Nat /\ Len(up[c]) \in Nat
    BY <1>2, LenProperties
  <2>2. \A a, b \in Nat : (a + 1) + (b - 1) = a + b
    OBVIOUS
  <2>3. Len(taken'[c]) = Len(taken[c]) + 1 /\ Len(up'[c]) = Len(up[c]) - 1
    BY <1>3, <1>4, <1>6
  <2>4. (Len(taken[c]) + 1) + (Len(up[c]) - 1) = Len(taken[c]) + Len(up[c])
    BY <2>1, <2>2
  <2>5. Len(taken'[c]) + Len(up'[c]) = Len(taken[c]) + Len(up[c])
    BY <2>3, <2>4, Zenon
  <2>6. QED BY <1>1, <1>6, <2>5 DEF Wire
<1>8. ASSUME conn'[c] = "closed" PROVE Frame(c)' /\ Balance(c)'
  <2>1. Frame(c)'
    BY <1>8 DEF Frame
  <2>2. Balance(c)'
    <3>1. SUFFICES ASSUME ~torn'[c] PROVE \E rest \in Seq(Unit) : taken'[c] = sent'[c] \o rest
      BY <1>8 DEF Balance
    <3>2. PICK rest \in Seq(Unit) : taken[c] = sent[c] \o rest
      BY <1>1, <1>6, <3>1 DEF Balance
    <3>3. Append(rest, u) \in Seq(Unit)
      BY <1>3, AppendProperties
    <3>4. taken'[c] = sent'[c] \o Append(rest, u)
      <4>1. Append(sent[c] \o rest, u) = sent[c] \o Append(rest, u)
        BY <1>2, <1>3, ReadIsOwed, Zenon
      <4>2. QED BY <1>6, <3>2, <4>1
    <3>5. QED BY <3>3, <3>4
  <2>3. QED BY <2>1, <2>2
<1>9. QED BY <1>3, <1>5, <1>6, <1>7, <1>8

(* A payload too short ends the process, as the accept loop may. *)
LEMMA ReadsShortKeepsInv ==
  ASSUME ESInv, NEW c \in Conn, ReadsShort(c)
  PROVE  ESInv'
<1>1. Tables
  BY DEF ESInv
<1>2. /\ Takes(c) /\ UNCHANGED <<failures, go, stalls>> /\ running' = FALSE /\ conn[c] = "served"
      /\ conn' = [k \in Conn |-> IF conn[k] = "free" THEN "free" ELSE "closed"]
  BY Zenon DEF ReadsShort, ProcessEnds, Takes, Reading
<1>3. conn'[c] = "closed" /\ \A k \in Conn : conn'[k] \in {conn[k], "closed"}
  BY <1>2
<1>4. conn' \in [Conn -> {"free", "queued", "served", "closed"}]
  BY <1>2
<1>5. /\ up' \in [Conn -> Seq(Unit)] /\ taken' \in [Conn -> Seq(Unit)]
      /\ \A k \in Conn \ {c} : UNCHANGED <<up[k], down[k], taken[k], sent[k], torn[k]>>
      /\ Wire(c)' /\ Frame(c)' /\ Balance(c)'
  BY <1>2, <1>3, TakesUnit
<1>6. Tables' /\ \A k \in Conn \ {c} : Untouched(k)
  BY <1>1, <1>2, <1>3, <1>4, <1>5 DEF Tables, Takes, Untouched
<1>7. QED BY <1>5, <1>6, OneConnection

(* A unit read joins what is owed, or ends the connection as a wrong header. *)
LEMMA ReadsKeepsInv ==
  ASSUME ESInv, NEW c \in Conn, Reads(c)
  PROVE  ESInv'
<1> DEFINE u == Head(up[c])
           g == go[c]
           all == Append(g.got, u)
<1>1. Tables /\ Wire(c) /\ Frame(c) /\ Balance(c) /\ g \in Locals
  BY DEF ESInv, Tables
<1>2. /\ conn[c] = "served" /\ g.at \in {"rhdr", "rbody"}
      /\ taken[c] \in Seq(Unit) /\ sent[c] \in Seq(Unit) /\ g.got \in Seq(Unit) /\ g.hdr \in Seq(Unit)
  BY <1>1 DEF Reads, Reading, Tables, Locals
<1>3. /\ Takes(c) /\ UNCHANGED <<running, failures>> /\ stalls' = [stalls EXCEPT ![c] = 0]
  BY DEF Reads, processVars, Takes
<1>4. /\ u \in Unit
      /\ up' \in [Conn -> Seq(Unit)] /\ taken' \in [Conn -> Seq(Unit)]
      /\ taken'[c] = Append(taken[c], u) /\ UNCHANGED <<sent[c], torn[c]>>
      /\ \A k \in Conn \ {c} : UNCHANGED <<up[k], down[k], taken[k], sent[k], torn[k]>>
      /\ Wire(c)'
      /\ conn'[c] = "closed" => Frame(c)' /\ Balance(c)'
  BY <1>3, TakesUnit
<1>5. all \in Seq(Unit) /\ Len(all) = Len(g.got) + 1
  BY <1>2, <1>4, AppendProperties
<1>6. stalls' \in [Conn -> 0..StallLimit]
  BY <1>1, <1>3, Sizes DEF Tables
<1>7. ASSUME NEW l \in Locals, go' = [go EXCEPT ![c] = l], UNCHANGED conn,
             l.round = g.round, l.at \in {"rbody", "whdr"},
             NEW h \in Header, l.hdr = <<h>>,
             IF l.at = "rbody" THEN Len(l.got) < Announced[h] ELSE l.got = <<>>,
             l.at = "whdr" => Len(l.payload) = Announced[h] /\ l.n = 0,
             ~torn[c] => taken'[c] = sent[c] \o (l.hdr \o (IF l.at = "rbody" THEN l.got ELSE l.payload))
      PROVE  ESInv'
  <2>1. go'[c] = l /\ conn'[c] = "served" /\ \A k \in Conn \ {c} : go'[k] = go[k] /\ conn'[k] = conn[k]
    BY <1>1, <1>2, <1>7 DEF Tables
  <2>2. Tables' /\ \A k \in Conn \ {c} : Untouched(k)
    <3>1. go' \in [Conn -> Locals] BY <1>1, <1>7 DEF Tables
    <3>2. Tables' BY <1>1, <1>3, <1>4, <1>6, <1>7, <3>1 DEF Tables, Takes
    <3>3. QED BY <1>4, <2>1, <3>2 DEF Untouched
  <2>3. Frame(c)'
    <3>1. g.round < Rounds BY <1>1, <1>2 DEF Frame
    <3>2. Len(l.hdr) = 1 /\ Head(l.hdr) = h /\ 0 < 1 BY <1>7
    <3>3. Needed(c)' = Announced[h] BY <1>7, <2>1, <3>2 DEF Needed
    <3>4. l.at = "whdr" => Buffer(c)' = l.hdr BY <2>1 DEF Buffer
    <3>5. QED BY <1>7, <2>1, <3>1, <3>2, <3>3, <3>4 DEF Frame
  <2>4. Balance(c)'
    <3>1. SUFFICES ASSUME ~torn'[c] PROVE Balance(c)'
      BY DEF Balance
    <3>2. taken'[c] = sent'[c] \o Owed(c)'
      BY <1>4, <1>7, <2>1, <3>1 DEF Owed
    <3>3. Owed(c)' \in Seq(Unit)
      <4>1. l.hdr \in Seq(Unit) /\ l.got \in Seq(Unit) /\ l.payload \in Seq(Unit)
        BY DEF Locals
      <4>2. QED BY <1>7, <2>1, <4>1, ConcatProperties DEF Owed
    <3>4. QED BY <3>2, <3>3 DEF Balance
  <2>5. QED BY <1>4, <2>2, <2>3, <2>4, OneConnection
<1>8. CASE g.at = "rbody"
  <2>1. PICK h \in Header : g.hdr = <<h>>
    BY <1>1, <1>2, <1>8 DEF Frame
  <2>2. Needed(c) = Announced[h] /\ Announced[h] \in Nat
    <3>1. Head(<<h>>) = h OBVIOUS
    <3>2. QED BY <1>8, <2>1, <3>1, Sizes DEF Needed
  <2>3. Len(g.got) < Announced[h] /\ Len(g.got) \in Nat
    BY <1>1, <1>2, <1>8, <2>2, LenProperties DEF Frame
  <2>4. ~torn[c] => taken'[c] = sent[c] \o (g.hdr \o all)
    <3>1. SUFFICES ASSUME ~torn[c] PROVE taken'[c] = sent[c] \o (g.hdr \o all)
      OBVIOUS
    <3>2. taken[c] = sent[c] \o (g.hdr \o g.got)
      BY <1>1, <1>2, <1>8, <3>1 DEF Balance, Owed
    <3>3. g.hdr \o g.got \in Seq(Unit)
      BY <1>2, ConcatProperties
    <3>4. Append(sent[c] \o (g.hdr \o g.got), u) = sent[c] \o Append(g.hdr \o g.got, u)
      BY <1>2, <1>4, <3>3, ReadIsOwed, Zenon
    <3>5. Append(g.hdr \o g.got, u) = g.hdr \o Append(g.got, u)
      BY <1>2, <1>4, ReadIsOwed, Zenon
    <3>6. QED BY <1>4, <3>2, <3>4, <3>5
  <2>5. CASE Len(all) < Needed(c)
    <3>1. go' = [go EXCEPT ![c] = [g EXCEPT !.got = all]] /\ UNCHANGED conn
      BY <2>5 DEF Reads, Continues
    <3>2. DEFINE l == [g EXCEPT !.got = all]
    <3>3. /\ l \in Locals /\ l.round = g.round /\ l.at = "rbody" /\ l.got = all /\ l.hdr = g.hdr
      BY <1>1, <1>5, <1>8 DEF Locals
    <3>4. QED BY <1>7, <2>1, <2>2, <2>4, <2>5, <3>1, <3>3
  <2>6. CASE ~(Len(all) < Needed(c))
    <3>1. /\ go' = [go EXCEPT ![c] = [g EXCEPT !.at = "whdr", !.got = <<>>, !.n = 0, !.payload = all]]
          /\ UNCHANGED conn
      BY <1>8, <2>6 DEF Reads, Continues
    <3>2. DEFINE l == [g EXCEPT !.at = "whdr", !.got = <<>>, !.n = 0, !.payload = all]
    <3>3. <<>> \in Seq(Unit) /\ Len(<<>>) = 0
      BY EmptySeq
    <3>4. /\ l \in Locals /\ l.round = g.round /\ l.at = "whdr" /\ l.got = <<>> /\ l.n = 0
          /\ l.payload = all /\ l.hdr = g.hdr
      BY <1>1, <1>5, <3>3 DEF Locals
    <3>5. Len(all) = Announced[h]
      BY <1>5, <2>2, <2>3, <2>6
    <3>6. QED BY <1>7, <2>1, <2>4, <3>1, <3>4, <3>5
  <2>7. QED BY <2>5, <2>6
<1>9. ASSUME g.at = "rhdr" PROVE ~(Len(all) < Needed(c))
  <2>1. Len(g.got) = 0
    BY <1>1, <1>2, <1>9, EmptySeq DEF Frame
  <2>2. QED BY <1>5, <1>9, <2>1 DEF Needed
<1>10. CASE g.at = "rhdr" /\ u \in Header
  <2>1. /\ go' = [go EXCEPT ![c] = [g EXCEPT !.at = "rbody", !.got = <<>>, !.tries = 0, !.hdr = <<u>>]]
        /\ UNCHANGED conn
    BY <1>9, <1>10 DEF Reads, Continues
  <2>2. DEFINE l == [g EXCEPT !.at = "rbody", !.got = <<>>, !.tries = 0, !.hdr = <<u>>]
  <2>3. <<>> \in Seq(Unit) /\ Len(<<>>) = 0 /\ <<u>> \in Seq(Unit)
    BY <1>4, EmptySeq
  <2>4. /\ l \in Locals /\ l.round = g.round /\ l.at = "rbody" /\ l.got = <<>> /\ l.hdr = <<u>>
    <3>1. PICK e, w : e = <<>> /\ w = <<u>>
      OBVIOUS
    <3>2. l = [g EXCEPT !.at = "rbody", !.got = e, !.tries = 0, !.hdr = w]
      BY <3>1
    <3>3. e \in Seq(Unit) /\ w \in Seq(Unit) /\ 0 \in 0..(ioRetries - 1)
      BY <2>3, <3>1 DEF ioRetries
    <3> HIDE DEF l
    <3>4. l \in Locals /\ l.round = g.round /\ l.at = "rbody" /\ l.got = e /\ l.hdr = w
      BY <1>1, <3>2, <3>3 DEF Locals
    <3>5. QED BY <3>1, <3>4
  <2>5. ~torn[c] => taken'[c] = sent[c] \o (<<u>> \o <<>>)
    <3>1. SUFFICES ASSUME ~torn[c] PROVE taken'[c] = sent[c] \o (<<u>> \o <<>>)
      OBVIOUS
    <3>2. taken[c] = sent[c] \o <<>>
      BY <1>1, <1>2, <1>10, <3>1 DEF Balance, Owed
    <3>3. taken[c] = sent[c] /\ <<u>> \o <<>> = <<u>>
      BY <1>2, <2>3, <3>2, ConcatEmptySeq
    <3>4. taken'[c] = sent[c] \o <<u>>
      BY <1>2, <1>4, <3>3, AppendIsConcat
    <3>5. QED BY <3>3, <3>4
  <2>6. QED BY <1>7, <1>10, <2>1, <2>3, <2>4, <2>5, Sizes
<1>11. CASE g.at = "rhdr" /\ u \notin Header
  <2>1. conn' = [conn EXCEPT ![c] = "closed"] /\ go' = go
    BY <1>9, <1>11, Zenon DEF Reads, Ends
  <2>2. conn'[c] = "closed"
    BY <1>1, <2>1 DEF Tables
  <2>3. Tables' /\ \A k \in Conn \ {c} : Untouched(k)
    BY <1>1, <1>3, <1>4, <1>6, <2>1 DEF Tables, Untouched, Takes
  <2>4. QED BY <1>4, <2>2, <2>3, OneConnection
<1>12. QED BY <1>2, <1>8, <1>10, <1>11

(* A unit written leaves what is owed, and with the last one the frame or the
   connection is done. *)
LEMMA WritesKeepsInv ==
  ASSUME ESInv, NEW c \in Conn, Writes(c)
  PROVE  ESInv'
<1> DEFINE g == go[c]
           u == Buffer(c)[g.n + 1]
           next == [g EXCEPT !.n = 0, !.tries = 0]
<1>1. Tables /\ Wire(c) /\ Frame(c) /\ Balance(c) /\ g \in Locals
  BY DEF ESInv, Tables
<1>2. /\ conn[c] = "served" /\ g.at \in {"whdr", "wbody"}
      /\ down[c] \in Seq(Unit) /\ Len(down[c]) < Window
      /\ taken[c] \in Seq(Unit) /\ sent[c] \in Seq(Unit) /\ g.payload \in Seq(Unit) /\ g.n \in Nat
      /\ Len(g.payload) = Needed(c) /\ g.n < Len(Buffer(c)) /\ g.round < Rounds
      /\ g.round \in 0..Rounds /\ g.tries \in 0..(ioRetries - 1)
      /\ g.got = <<>>
      /\ g.hdr \in Seq(Unit) /\ Len(g.hdr) = 1 /\ g.hdr[1] \in Unit
      /\ Needed(c) \in Nat /\ Needed(c) > 0 /\ \E h \in Header : g.hdr = <<h>>
  BY <1>1, HeaderKnown DEF Writes, Writing, Tables, Locals, Frame
<1>3. u \in Unit /\ Len(Buffer(c)) \in Nat /\ Len(Buffer(c)) > 0
  <2>1. Buffer(c) \in Seq(Unit)
    BY <1>2 DEF Buffer
  <2>2. Len(Buffer(c)) \in Nat
    BY <2>1, LenProperties
  <2>3. g.n + 1 \in 1..Len(Buffer(c)) /\ Len(Buffer(c)) > 0
    BY <1>2, <2>2
  <2>4. QED BY <2>1, <2>2, <2>3, ElementOfSeq
<1>4. /\ Append(down[c], u) \in Seq(Unit) /\ Len(Append(down[c], u)) = Len(down[c]) + 1
      /\ Append(sent[c], u) \in Seq(Unit)
  BY <1>2, <1>3, AppendProperties
<1>5. /\ down' = [down EXCEPT ![c] = Append(down[c], u)]
      /\ sent' = [sent EXCEPT ![c] = IF torn[c] THEN sent[c] ELSE Append(sent[c], u)]
      /\ stalls' = [stalls EXCEPT ![c] = IF g.n + 1 = Len(Buffer(c)) THEN 0 ELSE stalls[c]]
      /\ UNCHANGED <<running, failures, up, gone, taken, torn>>
  BY DEF Writes, processVars
<1>6. /\ down' \in [Conn -> Seq(Unit)] /\ sent' \in [Conn -> Seq(Unit)]
      /\ stalls' \in [Conn -> 0..StallLimit]
  <2>1. /\ down \in [Conn -> Seq(Unit)] /\ sent \in [Conn -> Seq(Unit)]
        /\ stalls \in [Conn -> 0..StallLimit]
    BY <1>1 DEF Tables
  <2>2. (IF torn[c] THEN sent[c] ELSE Append(sent[c], u)) \in Seq(Unit)
    BY <1>2, <1>4, Zenon
  <2>3. (IF g.n + 1 = Len(Buffer(c)) THEN 0 ELSE stalls[c]) \in 0..StallLimit
    BY <2>1, Sizes
  <2>4. down' \in [Conn -> Seq(Unit)] BY ONLY <1>4, <1>5, <2>1
  <2>5. sent' \in [Conn -> Seq(Unit)] BY ONLY <1>5, <2>1, <2>2
  <2>6. stalls' \in [Conn -> 0..StallLimit] BY ONLY <1>5, <2>1, <2>3
  <2>7. QED BY <2>4, <2>5, <2>6
<1>7. /\ down'[c] = Append(down[c], u) /\ (~torn[c] => sent'[c] = Append(sent[c], u))
      /\ UNCHANGED <<up[c], taken[c], torn[c]>>
      /\ \A k \in Conn \ {c} : UNCHANGED <<up[k], down[k], taken[k], sent[k], torn[k]>>
  BY <1>1, <1>5 DEF Tables
<1>8. Wire(c)'
  <2>1. Len(down[c]) \in Nat
    BY <1>2, LenProperties
  <2>2. Len(down[c]) + 1 <= Window
    BY <1>2, <2>1, Sizes
  <2>3. Len(down'[c]) <= Window
    BY <1>4, <1>7, <2>2, Zenon
  <2>4. QED BY <1>1, <1>7, <2>3 DEF Wire
<1>9. ASSUME NEW l \in Locals, go' = [go EXCEPT ![c] = l],
             conn' = conn \/ conn' = [conn EXCEPT ![c] = "closed"],
             conn' = conn => l.round < Rounds,
             conn' = conn => l.got = <<>>,
             conn' = conn => l.at \in {"rhdr", "wbody"},
             conn' = conn /\ l.at = "wbody" =>
               l.hdr = g.hdr /\ l.payload = g.payload /\ l.n < Len(g.payload),
             NEW rest \in Seq(Unit), ~torn[c] => taken[c] = Append(sent[c], u) \o rest,
             conn' = conn /\ l.at = "rhdr" => rest = <<>>,
             conn' = conn /\ l.at = "wbody" => rest = SubSeq(l.payload, l.n + 1, Len(l.payload))
      PROVE  ESInv'
  <2>1. /\ go'[c] = l /\ (conn'[c] = "closed" \/ (conn' = conn /\ conn'[c] = "served"))
        /\ \A k \in Conn \ {c} : go'[k] = go[k] /\ conn'[k] = conn[k]
    BY <1>1, <1>2, <1>9 DEF Tables
  <2>2. Tables' /\ \A k \in Conn \ {c} : Untouched(k)
    <3>1. go' \in [Conn -> Locals] BY <1>1, <1>9 DEF Tables
    <3>2. conn' \in [Conn -> {"free", "queued", "served", "closed"}] BY <1>1, <1>9 DEF Tables
    <3>3. Tables' BY <1>1, <1>5, <1>6, <3>1, <3>2 DEF Tables
    <3>4. QED BY <1>7, <2>1, <3>3 DEF Untouched
  <2>3. Frame(c)'
    <3>1. CASE conn'[c] = "closed" BY <3>1 DEF Frame
    <3>2. CASE conn' = conn /\ conn'[c] = "served"
      <4>1. l.at = "wbody" => Needed(c)' = Needed(c) /\ Buffer(c)' = l.payload
        BY <1>2, <1>9, <2>1, <3>2 DEF Needed, Buffer
      <4>2. QED BY <1>2, <1>9, <2>1, <3>2, <4>1 DEF Frame
    <3>3. QED BY <2>1, <3>1, <3>2
  <2>4. Balance(c)'
    <3>1. SUFFICES ASSUME ~torn'[c] PROVE Balance(c)'
      BY DEF Balance
    <3>2. taken'[c] = sent'[c] \o rest
      BY <1>7, <1>9, <3>1
    <3>3. ASSUME conn' = conn, conn'[c] = "served" PROVE rest = Owed(c)'
      <4>1. CASE l.at = "rhdr"
        BY <1>9, <2>1, <3>3, <4>1 DEF Owed
      <4>2. CASE l.at = "wbody"
        BY <1>9, <2>1, <3>3, <4>2 DEF Owed
      <4>3. QED BY <1>9, <3>3, <4>1, <4>2
    <3>4. QED BY <2>1, <3>2, <3>3 DEF Balance
  <2>5. QED BY <1>8, <2>2, <2>3, <2>4, OneConnection
<1>10. <<>> \in Seq(Unit) /\ Len(<<>>) = 0 /\ 0 \in 0..(ioRetries - 1)
  BY EmptySeq DEF ioRetries
<1>11. ASSUME NEW m \in Nat
       PROVE  LET l == [g EXCEPT !.n = m]
              IN  /\ l \in Locals /\ l.n = m /\ l.at = g.at /\ l.round = g.round /\ l.got = g.got
                  /\ l.hdr = g.hdr /\ l.payload = g.payload
  BY <1>1 DEF Locals
<1>12. ASSUME NEW r \in 0..Rounds
       PROVE  /\ [g EXCEPT !.round = r] \in Locals
              /\ LET l == [next EXCEPT !.at = "rhdr", !.round = r]
                 IN  l \in Locals /\ l.at = "rhdr" /\ l.round = r /\ l.got = g.got
  <2>1. ASSUME NEW z \in 0..(ioRetries - 1)
        PROVE  LET l == [[g EXCEPT !.n = 0, !.tries = z] EXCEPT !.at = "rhdr", !.round = r]
               IN  l \in Locals /\ l.at = "rhdr" /\ l.round = r /\ l.got = g.got
    BY <1>1 DEF Locals
  <2>2. [g EXCEPT !.round = r] \in Locals
    BY <1>1 DEF Locals
  <2>3. QED BY <1>10, <2>1, <2>2, Zenon
<1>13. CASE g.at = "whdr"
  <2>1. Buffer(c) = g.hdr /\ Len(Buffer(c)) = 1 /\ g.n = 0 /\ u = g.hdr[1] /\ g.hdr = <<u>>
    <3>1. Buffer(c) = g.hdr /\ Len(Buffer(c)) = 1
      BY <1>2, <1>13 DEF Buffer
    <3>2. g.n = 0 BY <1>2, <3>1
    <3>3. u = g.hdr[1] BY <3>1, <3>2
    <3>4. g.hdr = <<g.hdr[1]>> BY <1>2
    <3>5. QED BY <3>1, <3>2, <3>3, <3>4
  <2>2. go' = [go EXCEPT ![c] = [next EXCEPT !.at = "wbody"]] /\ UNCHANGED conn
    <3>1. ~(g.n + 1 < Len(Buffer(c)))
      BY <2>1
    <3>2. QED BY <1>13, <3>1, Zenon DEF Writes, Continues
  <2>3. DEFINE l == [next EXCEPT !.at = "wbody"]
  <2>4. /\ l \in Locals /\ l.at = "wbody" /\ l.n = 0 /\ l.round = g.round /\ l.got = <<>>
        /\ l.hdr = g.hdr /\ l.payload = g.payload
    BY <1>1, <1>2, <1>10 DEF Locals, ioRetries
  <2>5. SubSeq(g.payload, 1, Len(g.payload)) = g.payload
    BY <1>2, SubSeqFull
  <2>6. ~torn[c] => taken[c] = Append(sent[c], u) \o g.payload
    <3>1. SUFFICES ASSUME ~torn[c] PROVE taken[c] = Append(sent[c], u) \o g.payload
      OBVIOUS
    <3>2. taken[c] = sent[c] \o (<<u>> \o g.payload)
      BY <1>1, <1>2, <1>13, <2>1, <3>1 DEF Balance, Owed
    <3>3. sent[c] \o (<<u>> \o g.payload) = Append(sent[c], u) \o g.payload
      BY <1>2, <1>3, WrittenIsPaid, Zenon
    <3>4. QED BY <3>2, <3>3
  <2>7. l.n + 1 = 1 /\ 0 < Len(g.payload)
    BY <1>2, <2>4
  <2>8. SubSeq(l.payload, l.n + 1, Len(l.payload)) = g.payload
    BY <2>4, <2>5, <2>7
  <2>9. QED BY <1>2, <1>9, <2>2, <2>4, <2>6, <2>7, <2>8
<1>14. CASE g.at = "wbody"
  <2>1. Buffer(c) = g.payload /\ Len(Buffer(c)) = Len(g.payload) /\ Len(g.payload) \in Nat
    BY <1>2, <1>14 DEF Buffer
  <2>2. DEFINE rest == SubSeq(g.payload, g.n + 2, Len(g.payload))
  <2>3. rest \in Seq(Unit) /\ SubSeq(g.payload, g.n + 1, Len(g.payload)) = <<u>> \o rest
    <3>1. u = g.payload[g.n + 1] /\ g.n < Len(g.payload) BY <1>2, <2>1
    <3>2. QED BY <1>2, <3>1, RestOfPayload
  <2>4. ~torn[c] => taken[c] = Append(sent[c], u) \o rest
    <3>1. SUFFICES ASSUME ~torn[c] PROVE taken[c] = Append(sent[c], u) \o rest
      OBVIOUS
    <3>2. taken[c] = sent[c] \o (<<u>> \o rest)
      BY <1>1, <1>2, <1>14, <2>3, <3>1 DEF Balance, Owed
    <3>3. sent[c] \o (<<u>> \o rest) = Append(sent[c], u) \o rest
      BY <1>2, <1>3, <2>3, WrittenIsPaid, Zenon
    <3>4. QED BY <3>2, <3>3
  <2>5. CASE g.n + 1 < Len(g.payload)
    <3>1. go' = [go EXCEPT ![c] = [g EXCEPT !.n = g.n + 1]] /\ UNCHANGED conn
      BY <2>1, <2>5, Zenon DEF Writes, Continues
    <3>2. DEFINE l == [g EXCEPT !.n = g.n + 1]
    <3>3. /\ l \in Locals /\ l.at = "wbody" /\ l.n = g.n + 1 /\ l.round = g.round /\ l.got = <<>>
          /\ l.hdr = g.hdr /\ l.payload = g.payload
      <4>1. g.n + 1 \in Nat BY <1>2
      <4>2. QED BY <1>2, <1>10, <1>11, <1>14, <4>1, Zenon
    <3>4. l.n + 1 = g.n + 2
      BY <1>2, <3>3
    <3>5. QED BY <1>2, <1>9, <2>3, <2>4, <2>5, <3>1, <3>3, <3>4
  <2>6. CASE ~(g.n + 1 < Len(g.payload)) /\ g.round + 1 < Rounds
    <3>1. go' = [go EXCEPT ![c] = [next EXCEPT !.at = "rhdr", !.round = g.round + 1]] /\ UNCHANGED conn
      BY <1>14, <2>1, <2>6 DEF Writes, Continues
    <3>2. DEFINE l == [next EXCEPT !.at = "rhdr", !.round = g.round + 1]
    <3>3. /\ l \in Locals /\ l.at = "rhdr" /\ l.round = g.round + 1 /\ l.got = <<>>
      <4>1. g.round + 1 \in 0..Rounds /\ 0 \in Nat BY <1>2, Sizes
      <4>2. QED BY <1>2, <1>12, <4>1, Zenon
    <3>4. Len(g.payload) < g.n + 2
      BY <1>2, <2>1, <2>6
    <3>5. rest = <<>>
      BY <1>2, <3>4, <2>1, SubSeqEmpty
    <3>6. QED BY <1>9, <1>10, <2>4, <2>6, <3>1, <3>3, <3>5
  <2>7. CASE ~(g.n + 1 < Len(g.payload)) /\ ~(g.round + 1 < Rounds)
    <3>1. go' = [go EXCEPT ![c] = [g EXCEPT !.round = g.round + 1]] /\ conn' = [conn EXCEPT ![c] = "closed"]
      BY <1>14, <2>1, <2>7 DEF Writes, Ends
    <3>2. DEFINE l == [g EXCEPT !.round = g.round + 1]
    <3>3. l \in Locals
      <4>1. g.round + 1 \in 0..Rounds /\ 0 \in Nat BY <1>2, Sizes
      <4>2. QED BY <1>12, <4>1, Zenon
    <3>4. conn' # conn
      BY <1>1, <1>2, <3>1 DEF Tables
    <3>5. QED BY <1>9, <2>3, <2>4, <3>1, <3>3, <3>4
  <2>8. QED BY <2>5, <2>6, <2>7
<1>15. QED BY <1>2, <1>13, <1>14

(* Whatever a goroutine does keeps it. *)
LEMMA ServesKeepsInv ==
  ASSUME ESInv, NEW c \in Conn, Serves(c)
  PROVE  ESInv'
BY EndsKeepInv, TimeoutsKeepInv, ReadsKeepsInv, ReadsShortKeepsInv, WritesKeepsInv, Zenon DEF Serves

(* The inductive invariant holds in every reachable state. *)
THEOREM ESInvariance == ESSpec => []ESInv
<1>1. ESInv /\ [ESNext]_esVars => ESInv'
  <2>1. SUFFICES ASSUME ESInv, [ESNext]_esVars PROVE ESInv'
    OBVIOUS
  <2>2. ASSUME UNCHANGED esVars PROVE ESInv'
    <3>1. UNCHANGED <<running, failures, conn, go, up, down, gone, taken, sent, torn, stalls>>
      BY <2>2 DEF esVars, processVars, wireVars, ghostVars
    <3>2. Tables' /\ \A k \in Conn : Untouched(k)
      BY <2>1, <3>1 DEF ESInv, Tables, Untouched
    <3>3. QED BY <2>1, <3>2, UntouchedKeeps DEF ESInv
  <2>3. ASSUME NEW c \in Conn, Serves(c) PROVE ESInv'
    BY <2>1, <2>3, ServesKeepsInv
  <2>4. CASE ClientNext
    BY <2>1, <2>4, EndsKeepInv, WireKeepsInv DEF ClientNext
  <2>5. CASE AcceptFails
    BY <2>1, <2>5, AcceptFailsKeepsInv
  <2>6. QED BY <2>1, <2>2, <2>3, <2>4, <2>5 DEF ESNext
<1>2. QED BY ESInitInv, <1>1, PTL DEF ESSpec

----------------------------------------------------------------------------
(* What the run checks, for every value of the constants *)

(* The types are part of it. *)
LEMMA InvHasTypes == ESInv => ESTypeOK
<1>1. SUFFICES ASSUME ESInv PROVE ESTypeOK
  OBVIOUS
<1>2. ASSUME NEW c \in Conn
      PROVE  /\ go[c].at \in {"rhdr", "rbody", "whdr", "wbody"}
             /\ Len(go[c].got) < Needed(c) \/ conn[c] = "closed"
             /\ go[c].tries \in 0..(ioRetries - 1) /\ go[c].round \in 0..Rounds
             /\ Writing(c) => Len(go[c].payload) = Needed(c) /\ go[c].n < Len(Buffer(c))
             /\ Len(down[c]) <= Window /\ Len(up[c]) <= SendLimit
  <2>1. /\ go[c] \in Locals /\ Frame(c) /\ Wire(c)
        /\ Len(taken[c]) \in Nat /\ Len(up[c]) \in Nat
    BY <1>1, LenProperties DEF ESInv, Tables
  <2>2. Len(<<>>) = 0
    BY EmptySeq
  <2>3. Len(go[c].got) < Needed(c) \/ conn[c] = "closed"
    <3>1. CASE go[c].at = "rhdr" BY <2>1, <2>2, <3>1 DEF Frame, Needed
    <3>2. CASE go[c].at # "rhdr" /\ conn[c] = "served"
      BY <2>1, <2>2, <3>2, HeaderKnown DEF Frame
    <3>3. QED BY <1>1, <2>1, <3>1, <3>2 DEF ESInv, Tables, Frame
  <2>4. Len(up[c]) <= SendLimit
    <3>1. \A a, b, l \in Nat : a + b <= l => b <= l
      OBVIOUS
    <3>2. QED BY <2>1, <3>1, Sizes, Zenon DEF Wire
  <2>5. QED BY <2>1, <2>3, <2>4 DEF Locals, Frame, Wire, Writing
<1>3. QED BY <1>1, <1>2 DEF ESInv, Tables, ESTypeOK

(* What was sent was read before, at the same place; so was what is written next. *)
LEMMA SentWasTaken ==
  ASSUME ESInv, NEW c \in Conn, ~torn[c]
  PROVE  /\ Len(sent[c]) <= Len(taken[c])
         /\ \A i \in 1..Len(sent[c]) : sent[c][i] = taken[c][i]
         /\ Writing(c) => /\ Len(sent[c]) < Len(taken[c])
                          /\ Buffer(c)[go[c].n + 1] = taken[c][Len(sent[c]) + 1]
<1>1. PICK rest \in Seq(Unit) : taken[c] = sent[c] \o rest BY DEF ESInv, Balance
<1>2. /\ sent[c] \in Seq(Unit) /\ go[c] \in Locals
      /\ Len(sent[c]) \in Nat /\ Len(rest) \in Nat
  BY <1>1, LenProperties DEF ESInv, Tables
<1>3. /\ Len(taken[c]) = Len(sent[c]) + Len(rest)
      /\ \A i \in 1..Len(sent[c]) : sent[c][i] = taken[c][i]
  BY <1>1, <1>2, ConcatProperties
<1>4. ASSUME Writing(c)
      PROVE  Len(sent[c]) < Len(taken[c]) /\ Buffer(c)[go[c].n + 1] = taken[c][Len(sent[c]) + 1]
  <2>1. /\ taken[c] = sent[c] \o Owed(c) /\ go[c].at \in {"whdr", "wbody"}
        /\ go[c].n < Len(Buffer(c)) /\ \E h \in Header : go[c].hdr = <<h>>
    BY <1>4 DEF ESInv, Frame, Balance, Writing
  <2>2. go[c].payload \in Seq(Unit) /\ go[c].n \in Nat BY <1>2 DEF Locals
  <2>3. Owed(c) \in Seq(Unit) /\ Len(Owed(c)) > 0 /\ Owed(c)[1] = Buffer(c)[go[c].n + 1]
    <3>1. CASE go[c].at = "whdr"
      <4>1. PICK h \in Header : go[c].hdr = <<h>> BY <2>1
      <4>2. h \in Unit /\ <<h>> \in Seq(Unit) /\ Len(<<h>>) = 1 /\ <<h>>[1] = h BY OneUnit, Sizes
      <4>3. Owed(c) = <<h>> \o go[c].payload BY <3>1, <4>1 DEF Owed
      <4>4. Owed(c) \in Seq(Unit) /\ Len(Owed(c)) > 0 /\ Owed(c)[1] = h
        BY <2>2, <4>2, <4>3, StartsWith
      <4>5. Buffer(c) = <<h>> /\ go[c].n + 1 = 1 BY <2>1, <2>2, <3>1, <4>1, <4>2 DEF Buffer
      <4>6. QED BY <4>2, <4>4, <4>5
    <3>2. CASE go[c].at = "wbody"
      <4>1. Buffer(c) = go[c].payload /\ Owed(c) = SubSeq(go[c].payload, go[c].n + 1, Len(go[c].payload))
        BY <3>2 DEF Buffer, Owed
      <4> DEFINE first == go[c].payload[go[c].n + 1]
                 after == SubSeq(go[c].payload, go[c].n + 2, Len(go[c].payload))
      <4>2. Owed(c) = <<first>> \o after /\ first \in Unit /\ after \in Seq(Unit)
        BY <2>1, <2>2, <4>1, RestOfPayload
      <4> HIDE DEF first, after
      <4>4. <<first>> \o after \in Seq(Unit) /\ Len(<<first>> \o after) > 0 /\ (<<first>> \o after)[1] = first
        BY <4>2, StartsWith, Zenon
      <4>5. QED BY <4>1, <4>2, <4>4 DEF first
    <3>3. QED BY <2>1, <3>1, <3>2
  <2>4. Len(Owed(c)) \in Nat BY <2>3, LenProperties
  <2>5. /\ Len(taken[c]) = Len(sent[c]) + Len(Owed(c))
        /\ \A i \in 1..Len(sent[c]) + Len(Owed(c)) :
             taken[c][i] = IF i <= Len(sent[c]) THEN sent[c][i] ELSE Owed(c)[i - Len(sent[c])]
    BY <1>2, <2>1, <2>3, ConcatProperties
  <2>6. taken[c][Len(sent[c]) + 1] = Owed(c)[1]
    <3>1. /\ Len(sent[c]) + 1 \in 1..Len(sent[c]) + Len(Owed(c))
          /\ ~(Len(sent[c]) + 1 <= Len(sent[c])) /\ Len(sent[c]) + 1 - Len(sent[c]) = 1
      BY <1>2, <2>3, <2>4
    <3>2. QED BY <2>5, <3>1
  <2>7. QED BY <1>2, <2>3, <2>4, <2>5, <2>6
<1>5. QED BY <1>2, <1>3, <1>4

(* Every variable keeps its type, and no buffer or window overflows. *)
THEOREM ESTypeCorrect == ESSpec => []ESTypeOK
BY InvHasTypes, ESInvariance, PTL

(* Frames come back whole, in order and on their own connection, through every
   partial read, retry and deadline, up to a Write that is cut short. *)
THEOREM EchoSafety == ESSpec => []EchoIsPrefix
<1>1. ESInv => EchoIsPrefix
  <2>1. SUFFICES ASSUME ESInv, NEW c \in Conn, ~torn[c] PROVE IsPrefix(sent[c], taken[c])
    BY DEF EchoIsPrefix
  <2>2. PICK rest \in Seq(Unit) : taken[c] = sent[c] \o rest
    BY <2>1 DEF ESInv, Balance
  <2>3. sent[c] \in Seq(Unit)
    BY <2>1 DEF ESInv, Tables
  <2>4. Len(sent[c]) \in Nat /\ Len(rest) \in Nat
    BY <2>2, <2>3, LenProperties
  <2>5. Len(taken[c]) = Len(sent[c]) + Len(rest)
    BY <2>2, <2>3, ConcatProperties
  <2>6. SubSeq(sent[c] \o rest, 1, Len(sent[c])) = SubSeq(sent[c], 1, Len(sent[c]))
    <3>1. CASE Len(sent[c]) = 0
      BY <3>1, SubSeqEmpty
    <3>2. CASE Len(sent[c]) > 0
      <4>1. 1 \in 1..Len(sent[c]) /\ Len(sent[c]) \in 1..Len(sent[c])
        BY <2>4, <3>2
      <4>2. QED BY <2>2, <2>3, <4>1, SubSeqOfConcat1
    <3>3. QED BY <2>4, <3>1, <3>2
  <2>7. QED BY <2>2, <2>4, <2>5, <2>6 DEF IsPrefix
<1>2. QED BY <1>1, ESInvariance, PTL
=============================================================================
