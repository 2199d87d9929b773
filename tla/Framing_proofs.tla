---------------------------- MODULE Framing_proofs ----------------------------
(***************************************************************************)
(* Proofs about Framing: both directions of a connection are queues of     *)
(* whole messages, and a call gets the response to its own request, for    *)
(* any lengths of header and bodies, any cuts and any number of calls.     *)
(***************************************************************************)
EXTENDS Framing, SequenceTheorems, TLAPS

Bytes   == Messages \X {"header", "body"} \X Nat
Size(m) == HeaderLen + m.len

\* Byte i of message m, and its bytes a + 1 .. b.
Byte(m, i)   == IF i <= HeaderLen THEN <<m, "header", i>> ELSE <<m, "body", i - HeaderLen>>
Cut(m, a, b) == [i \in 1 .. b - a |-> Byte(m, a + i)]

\* Where in its message the recvall at e begins.
Base(e) == IF part[e] = "header" THEN 0 ELSE HeaderLen

\* No part of a message is on its way to e.
Quiet(e) ==
  /\ part[e] = "header" /\ need[e] = HeaderLen
  /\ data[e] = <<>> /\ wire[e] = <<>>
  /\ open[Peer(e)] => sent[e] = got[e] /\ out[Peer(e)] = <<>>

\* Message m is on its way to e, which has its first a bytes; b are handed over.
Streaming(e, m, a, b) ==
  /\ Base(e) <= a /\ a <= b /\ b <= Size(m)
  /\ sent[e] = Append(got[e], m)
  /\ need[e] = (IF part[e] = "header" THEN HeaderLen ELSE m.len)
  /\ a - Base(e) < need[e]
  /\ data[e] = Cut(m, Base(e), a) /\ wire[e] = Cut(m, a, b)
  /\ out[Peer(e)] = (IF open[Peer(e)] THEN Cut(m, b, Size(m)) ELSE <<>>)
  /\ out[e] = <<>>
  /\ open["client"] => busy /\ m.call = calls

StreamInv(e) ==
  open[e] => Quiet(e) \/ \E m \in Messages : \E a, b \in Nat : Streaming(e, m, a, b)

\* Client and server take turns while both ends are open.
TurnInv ==
  open["client"] /\ open["server"] =>
    sent["client"] = got["client"] \/ sent["server"] = got["server"]

\* Who learns of a reset has nothing left to read.
ResetInv == \A e \in Ends : reset[e] /\ open[e] => wire[e] = <<>> /\ ~open[Peer(e)]

Types ==
  /\ open \in [Ends -> BOOLEAN] /\ reset \in [Ends -> BOOLEAN]
  /\ out \in [Ends -> Seq(Bytes)] /\ wire \in [Ends -> Seq(Bytes)]
  /\ part \in [Ends -> {"header", "body"}] /\ DOMAIN need = Ends
  /\ data \in [Ends -> Seq(Bytes)]
  /\ calls \in 0 .. MaxCalls /\ busy \in BOOLEAN
  /\ sent \in [Ends -> Seq(Messages)] /\ got \in [Ends -> Seq(Messages)]

Inv == Types /\ (\A e \in Ends : StreamInv(e)) /\ TurnInv /\ ResetInv

-----------------------------------------------------------------------------
(***************************************************************************)
(* Bytes.                                                                  *)
(***************************************************************************)
LEMMA EndFacts ==
  /\ "client" \in Ends /\ "server" \in Ends
  /\ \A e \in Ends : Peer(e) \in Ends /\ Peer(e) # e /\ Peer(Peer(e)) = e
  /\ Peer("client") = "server" /\ Peer("server") = "client"
  /\ \A e \in Ends : e = "client" \/ e = "server"
BY DEF Ends, Peer

LEMMA SizeFacts ==
  ASSUME NEW m \in Messages
  PROVE  /\ HeaderLen \in Nat \ {0} /\ m.len \in Nat \ {0} /\ m.call \in 0 .. MaxCalls
         /\ Size(m) \in Nat /\ HeaderLen < Size(m)
<1>1. m.len \in Sizes /\ m.call \in 0 .. MaxCalls
  BY DEF Messages
<1>2. HeaderLen \in Nat \ {0} /\ m.len \in Nat \ {0}
  BY <1>1, FramingAssumption
<1> QED BY <1>1, <1>2 DEF Size

LEMMA CutType ==
  ASSUME NEW m \in Messages, NEW a \in Nat, NEW b \in Nat, a <= b
  PROVE  /\ Cut(m, a, b) \in Seq(Bytes) /\ Len(Cut(m, a, b)) = b - a
         /\ \A i \in 1 .. b - a : Cut(m, a, b)[i] = Byte(m, a + i)
         /\ Cut(m, a, b) = <<>> <=> a = b
<1>1. HeaderLen \in Nat
  BY FramingAssumption
<1>2. ASSUME NEW i \in Nat PROVE Byte(m, i) \in Bytes
  BY <1>1 DEF Byte, Bytes
<1>3. b - a \in Nat
  OBVIOUS
<1>4. \A i \in 1 .. b - a : Byte(m, a + i) \in Bytes
  BY <1>2
<1>5. Cut(m, a, b) \in Seq(Bytes) /\ Len(Cut(m, a, b)) = b - a
  BY <1>3, <1>4 DEF Cut
<1>6. \A i \in 1 .. b - a : Cut(m, a, b)[i] = Byte(m, a + i)
  BY DEF Cut
<1> QED BY <1>5, <1>6

\* Two sequences of bytes with the same elements are equal.
LEMMA SameBytes ==
  ASSUME NEW s \in Seq(Bytes), NEW t \in Seq(Bytes), Len(s) = Len(t),
         \A i \in 1 .. Len(s) : s[i] = t[i]
  PROVE  s = t
OBVIOUS

\* Three places in a message, in order.
InOrder(a, b, c) == /\ a \in Nat /\ b \in Nat /\ c \in Nat
                    /\ a <= b /\ b <= c

\* What a recv takes off a stream, and what it leaves there.
TakenOff(s, n) == SubSeq(s, 1, n)
LeftOn(s, n)   == SubSeq(s, n + 1, Len(s))

\* The cut from a to b has at least n bytes.
HasBytes(a, n, b) == /\ a \in Nat /\ n \in Nat /\ b \in Nat
                     /\ a + n <= b

LEMMA CutJoin ==
  ASSUME NEW m \in Messages, NEW a, NEW b, NEW c, InOrder(a, b, c)
  PROVE  Cut(m, a, b) \o Cut(m, b, c) = Cut(m, a, c)
<1> USE DEF InOrder
<1> DEFINE s == Cut(m, a, b)
           t == Cut(m, b, c)
           u == Cut(m, a, c)
<1>1. /\ s \in Seq(Bytes) /\ Len(s) = b - a /\ \A i \in 1 .. b - a : s[i] = Byte(m, a + i)
      /\ t \in Seq(Bytes) /\ Len(t) = c - b /\ \A i \in 1 .. c - b : t[i] = Byte(m, b + i)
      /\ u \in Seq(Bytes) /\ Len(u) = c - a /\ \A i \in 1 .. c - a : u[i] = Byte(m, a + i)
  <2>1. a <= c
    OBVIOUS
  <2>2. s \in Seq(Bytes) /\ Len(s) = b - a /\ \A i \in 1 .. b - a : s[i] = Byte(m, a + i)
    BY CutType
  <2>3. t \in Seq(Bytes) /\ Len(t) = c - b /\ \A i \in 1 .. c - b : t[i] = Byte(m, b + i)
    BY CutType
  <2>4. u \in Seq(Bytes) /\ Len(u) = c - a /\ \A i \in 1 .. c - a : u[i] = Byte(m, a + i)
    BY <2>1, CutType
  <2> HIDE DEF s, t, u
  <2> QED BY <2>2, <2>3, <2>4
<1> HIDE DEF s, t, u
<1>2. /\ s \o t \in Seq(Bytes) /\ Len(s \o t) = c - a
      /\ \A i \in 1 .. c - a : (s \o t)[i] = IF i <= b - a THEN s[i] ELSE t[i - (b - a)]
  <2>1. /\ s \o t \in Seq(Bytes) /\ Len(s \o t) = Len(s) + Len(t)
        /\ \A i \in 1 .. Len(s) + Len(t) :
             (s \o t)[i] = IF i <= Len(s) THEN s[i] ELSE t[i - Len(s)]
    BY <1>1, ConcatProperties
  <2>2. Len(s) + Len(t) = c - a
    BY <1>1
  <2> QED BY <1>1, <2>1, <2>2
<1>3. ASSUME NEW i \in 1 .. c - a PROVE (s \o t)[i] = u[i]
  <2>1. CASE i <= b - a
    BY <1>1, <1>2, <2>1
  <2>2. CASE ~(i <= b - a)
    <3>1. i - (b - a) \in 1 .. c - b /\ b + (i - (b - a)) = a + i
      BY <2>2
    <3> QED BY <1>1, <1>2, <2>2, <3>1
  <2> QED BY <2>1, <2>2
<1>4. s \o t = u
  BY <1>1, <1>2, <1>3, SameBytes
<1> QED BY <1>4 DEF s, t, u

LEMMA CutParts ==
  ASSUME NEW m \in Messages, NEW a, NEW b, NEW n, HasBytes(a, n, b)
  PROVE  TakenOff(Cut(m, a, b), n) = Cut(m, a, a + n) /\ LeftOn(Cut(m, a, b), n) = Cut(m, a + n, b)
<1> USE DEF HasBytes
<1> DEFINE s == Cut(m, a, b)
           t == Cut(m, a, a + n)
           u == Cut(m, a + n, b)
<1>1. /\ s \in Seq(Bytes) /\ Len(s) = b - a /\ \A i \in 1 .. b - a : s[i] = Byte(m, a + i)
      /\ t \in Seq(Bytes) /\ Len(t) = n /\ \A i \in 1 .. n : t[i] = Byte(m, a + i)
      /\ u \in Seq(Bytes) /\ Len(u) = b - (a + n)
      /\ \A i \in 1 .. b - (a + n) : u[i] = Byte(m, (a + n) + i)
  <2>1. a + n \in Nat /\ a <= a + n /\ (a + n) - a = n /\ a <= b
    OBVIOUS
  <2>2. s \in Seq(Bytes) /\ Len(s) = b - a /\ \A i \in 1 .. b - a : s[i] = Byte(m, a + i)
    BY <2>1, CutType
  <2>3. t \in Seq(Bytes) /\ Len(t) = (a + n) - a
        /\ \A i \in 1 .. (a + n) - a : t[i] = Byte(m, a + i)
    BY <2>1, CutType
  <2>4. /\ u \in Seq(Bytes) /\ Len(u) = b - (a + n)
        /\ \A i \in 1 .. b - (a + n) : u[i] = Byte(m, (a + n) + i)
    BY <2>1, CutType
  <2> HIDE DEF s, t, u
  <2> QED BY <2>1, <2>2, <2>3, <2>4
<1> HIDE DEF s, t, u
<1>2. SubSeq(s, 1, n) = t
  <2>1. /\ SubSeq(s, 1, n) \in Seq(Bytes) /\ Len(SubSeq(s, 1, n)) = n
        /\ \A i \in 1 .. n : SubSeq(s, 1, n)[i] = s[i] /\ i \in 1 .. b - a
    BY <1>1
  <2> QED BY <1>1, <2>1, SameBytes
<1>3. SubSeq(s, n + 1, Len(s)) = u
  <2>1. /\ SubSeq(s, n + 1, Len(s)) \in Seq(Bytes)
        /\ Len(SubSeq(s, n + 1, Len(s))) = b - (a + n)
        /\ \A i \in 1 .. b - (a + n) : /\ SubSeq(s, n + 1, Len(s))[i] = s[n + i]
                                       /\ n + i \in 1 .. b - a
                                       /\ a + (n + i) = (a + n) + i
    BY <1>1
  <2>2. /\ Len(SubSeq(s, n + 1, Len(s))) = Len(u)
        /\ \A i \in 1 .. Len(u) : SubSeq(s, n + 1, Len(s))[i] = u[i]
    <3>1. \A i \in 1 .. b - (a + n) : s[n + i] = Byte(m, a + (n + i))
      BY <1>1, <2>1
    <3>2. \A i \in 1 .. b - (a + n) : s[n + i] = Byte(m, (a + n) + i)
      BY <2>1, <3>1
    <3> QED BY <1>1, <2>1, <3>2
  <2> QED BY <1>1, <2>1, <2>2, SameBytes
<1> QED BY <1>2, <1>3 DEF s, t, u, TakenOff, LeftOn

\* What is sent, and what the receiver takes the two parts for.
LEMMA Parsing ==
  ASSUME NEW m \in Messages
  PROVE  /\ Serialize(m) = Cut(m, 0, Size(m)) /\ Serialize(m) \in Seq(Bytes)
         /\ LengthIn(Cut(m, 0, HeaderLen)) = m.len
         /\ MessageIn(Cut(m, HeaderLen, Size(m))) = m
<1>1. /\ HeaderLen \in Nat /\ 0 < HeaderLen /\ m.len \in Nat /\ 0 < m.len
      /\ Size(m) = HeaderLen + m.len /\ Size(m) \in Nat /\ 0 \in Nat
  BY SizeFacts DEF Size
<1>2. HeaderOf(m) = Cut(m, 0, HeaderLen)
  <2>1. \A i \in 1 .. HeaderLen : Byte(m, 0 + i) = <<m, "header", i>>
    BY <1>1 DEF Byte
  <2>2. HeaderLen - 0 = HeaderLen
    BY <1>1
  <2> QED BY <2>1, <2>2 DEF HeaderOf, Cut
<1>3. BodyOf(m) = Cut(m, HeaderLen, Size(m))
  <2>1. \A i \in 1 .. m.len : Byte(m, HeaderLen + i) = <<m, "body", i>>
    BY <1>1 DEF Byte
  <2>2. Size(m) - HeaderLen = m.len
    BY <1>1
  <2> QED BY <2>1, <2>2 DEF BodyOf, Cut
<1>4. Serialize(m) = Cut(m, 0, Size(m))
  <2>1. 0 <= HeaderLen /\ HeaderLen <= Size(m)
    BY <1>1
  <2>2. Cut(m, 0, HeaderLen) \o Cut(m, HeaderLen, Size(m)) = Cut(m, 0, Size(m))
    <3>1. InOrder(0, HeaderLen, Size(m))
      BY <1>1, <2>1 DEF InOrder
    <3> QED BY <3>1, CutJoin, Zenon
  <2> QED BY <1>2, <1>3, <2>2 DEF Serialize
<1>5. Serialize(m) \in Seq(Bytes)
  <2>1. 0 <= Size(m)
    BY <1>1
  <2>2. Cut(m, 0, Size(m)) \in Seq(Bytes)
    BY <1>1, <2>1, CutType
  <2> QED BY <1>4, <2>2
<1>6. HeaderOf(m)[1][1] = m
  BY <1>1 DEF HeaderOf
<1>7. BodyOf(m)[1][1] = m
  BY <1>1 DEF BodyOf
<1>8. LengthIn(HeaderOf(m)) = m.len /\ MessageIn(BodyOf(m)) = m
  BY <1>6, <1>7 DEF LengthIn, MessageIn
<1> QED BY <1>2, <1>3, <1>4, <1>5, <1>8

-----------------------------------------------------------------------------
(***************************************************************************)
(* What the invariant says of a state.                                     *)
(***************************************************************************)

LEMMA Moving ==
  ASSUME Inv, NEW e \in Ends, NEW m \in Messages, NEW a \in Nat, NEW b \in Nat,
         Streaming(e, m, a, b)
  PROVE  sent[e] # got[e] /\ out[e] = <<>>
<1>1. sent[e] = Append(got[e], m) /\ got[e] \in Seq(Messages)
  BY DEF Streaming, Inv, Types
<1> QED BY <1>1 DEF Streaming

\* Nothing is on its way to an end that has nothing outstanding, to one that
\* sends, or to one whose peer has a message outstanding.
LEMMA QuietWhen ==
  ASSUME Inv, NEW e \in Ends, open[e],
         \/ sent[e] = got[e]
         \/ out[e] # <<>>
         \/ (open["client"] /\ ~busy)
         \/ (open[Peer(e)] /\ sent[Peer(e)] # got[Peer(e)])
  PROVE  Quiet(e)
<1> SUFFICES ASSUME NEW m \in Messages, NEW a \in Nat, NEW b \in Nat,
                    Streaming(e, m, a, b)
             PROVE  FALSE
  BY DEF Inv, StreamInv
<1>1. sent[e] # got[e] /\ out[e] = <<>>
  BY Moving
<1>2. open["client"] => busy
  BY DEF Streaming
<1>3. open[Peer(e)] => sent[Peer(e)] = got[Peer(e)]
  BY <1>1, EndFacts DEF Inv, TurnInv
<1> QED BY <1>1, <1>2, <1>3

\* What has arrived, or is still to be handed over, belongs to one message.
LEMMA StreamingWhen ==
  ASSUME Inv, NEW e \in Ends, open[e],
         wire[e] # <<>> \/ (open[Peer(e)] /\ out[Peer(e)] # <<>>)
  PROVE  \E m \in Messages : \E a, b \in Nat : Streaming(e, m, a, b)
BY DEF Inv, StreamInv, Quiet

\* The stream to e when nothing that concerns it changes.
LEMMA Unmoved ==
  ASSUME NEW e \in Ends, StreamInv(e), 
         UNCHANGED <<open, calls, busy, out>>,
         part'[e] = part[e], need'[e] = need[e], data'[e] = data[e],
         wire'[e] = wire[e], sent'[e] = sent[e], got'[e] = got[e]
  PROVE  StreamInv(e)'
BY DEF StreamInv, Quiet, Streaming, Base

\* A message is begun where nothing is on its way.
LEMMA Begin ==
  ASSUME NEW e \in Ends, NEW m \in Messages,
         part'[e] = "header", need'[e] = HeaderLen, data'[e] = <<>>, wire'[e] = <<>>,
         sent'[e] = Append(got'[e], m),
         open'[Peer(e)], out'[Peer(e)] = Serialize(m), out'[e] = <<>>,
         busy', m.call = calls'
  PROVE  StreamInv(e)'
<1>1. /\ 0 \in Nat /\ HeaderLen \in Nat \ {0} /\ Size(m) \in Nat /\ HeaderLen < Size(m)
  BY SizeFacts
<1>2. Cut(m, 0, 0) = <<>>
  BY <1>1, CutType
<1>3. Serialize(m) = Cut(m, 0, Size(m))
  BY Parsing
<1>4. Base(e)' = 0
  BY DEF Base
<1>5. 0 <= Size(m) /\ 0 - 0 < HeaderLen
  BY <1>1
<1>6. Streaming(e, m, 0, 0)'
  BY <1>1, <1>2, <1>3, <1>4, <1>5 DEF Streaming
<1> QED BY <1>1, <1>6 DEF StreamInv

LEMMA InitInv == Init => Inv
<1> SUFFICES ASSUME Init PROVE Inv
  OBVIOUS
<1>1. /\ <<>> \in Seq(Bytes) /\ <<>> \in Seq(Messages) /\ 0 \in 0 .. MaxCalls
  BY FramingAssumption
<1>2. Types
  BY <1>1 DEF Init, Types
<1>3. ASSUME NEW e \in Ends PROVE StreamInv(e)
  BY EndFacts DEF Init, StreamInv, Quiet
<1>4. TurnInv /\ ResetInv
  BY EndFacts DEF Init, TurnInv, ResetInv
<1> QED BY <1>2, <1>3, <1>4 DEF Inv

-----------------------------------------------------------------------------
(***************************************************************************)
(* The steps.                                                              *)
(***************************************************************************)
LEMMA CallStep ==
  ASSUME Inv, Call
  PROVE  Inv'
<1>1. PICK n \in Sizes : SendAll("client", [call |-> calls + 1, len |-> n])
  BY DEF Call
<1> DEFINE m == [call |-> calls + 1, len |-> n]
<1>2. m \in Messages /\ calls' \in 0 .. MaxCalls /\ m.call = calls'
  BY FramingAssumption DEF Call, Messages, Inv, Types
<1> HIDE DEF m
<1>3. /\ out' = [out EXCEPT !["client"] = Serialize(m)]
      /\ sent' = [sent EXCEPT !["server"] = Append(sent["server"], m)]
      /\ part' = [part EXCEPT !["client"] = "header"]
      /\ need' = [need EXCEPT !["client"] = HeaderLen]
      /\ data' = [data EXCEPT !["client"] = <<>>]
      /\ open["client"] /\ ~busy /\ busy'
      /\ UNCHANGED <<open, reset, wire, got>>
  BY <1>1, EndFacts DEF Call, SendAll, Fresh, m
<1>4. Types'
  <2>1. Serialize(m) \in Seq(Bytes) /\ <<>> \in Seq(Bytes)
    BY <1>2, Parsing
  <2>2. Append(sent["server"], m) \in Seq(Messages)
    BY <1>2, EndFacts DEF Inv, Types
  <2> QED BY <1>2, <1>3, <2>1, <2>2, EndFacts DEF Inv, Types
<1>5. Quiet("client")
  BY <1>3, QuietWhen, EndFacts
<1>6. StreamInv("client")'
  BY <1>3, <1>5, EndFacts DEF StreamInv, Quiet, Inv, Types
<1>7. StreamInv("server")'
  <2>1. CASE open["server"]
    <3>1. Quiet("server")
      BY <1>3, <2>1, QuietWhen, EndFacts
    <3>2. /\ part'["server"] = "header" /\ need'["server"] = HeaderLen
          /\ data'["server"] = <<>> /\ wire'["server"] = <<>>
      BY <1>3, <3>1, EndFacts DEF Quiet, Inv, Types
    <3>3. sent'["server"] = Append(got'["server"], m)
      BY <1>3, <3>1, EndFacts DEF Quiet, Inv, Types
    <3>4. out'["client"] = Serialize(m) /\ out'["server"] = <<>> /\ open'["client"]
      BY <1>3, <1>5, <2>1, EndFacts DEF Quiet, Inv, Types
    <3> QED BY <1>2, <1>3, <3>2, <3>3, <3>4, Begin, EndFacts
  <2>2. CASE ~open["server"]
    BY <1>3, <2>2 DEF StreamInv
  <2> QED BY <2>1, <2>2
<1>8. TurnInv'
  BY <1>3, <1>5, EndFacts DEF TurnInv, Quiet, Inv, Types
<1>9. ResetInv'
  BY <1>3 DEF Inv, ResetInv
<1> QED BY <1>4, <1>6, <1>7, <1>8, <1>9, EndFacts DEF Inv

LEMMA HandOverStep ==
  ASSUME Inv, NEW e \in Ends, HandOver(e)
  PROVE  Inv'
<1> DEFINE p == Peer(e)
<1>1. p \in Ends /\ p # e /\ Peer(p) = e
  BY EndFacts
<1>2. PICK n \in 1 .. Len(out[e]) :
        /\ out' = [out EXCEPT ![e] = SubSeq(out[e], n + 1, Len(out[e]))]
        /\ IF open[p]
           THEN /\ wire' = [wire EXCEPT ![p] = wire[p] \o SubSeq(out[e], 1, n)]
                /\ UNCHANGED reset
           ELSE /\ reset' = [reset EXCEPT ![e] = TRUE]
                /\ UNCHANGED wire
  BY DEF HandOver
<1>3. /\ open[e] /\ out[e] # <<>> /\ ~reset[e]
      /\ UNCHANGED <<open, part, need, data, calls, busy, sent, got>>
  BY DEF HandOver
<1> HIDE DEF p
<1>4. /\ out[e] \in Seq(Bytes) /\ Len(out[e]) \in Nat /\ n \in Nat /\ n <= Len(out[e])
      /\ SubSeq(out[e], n + 1, Len(out[e])) \in Seq(Bytes)
      /\ SubSeq(out[e], 1, n) \in Seq(Bytes)
  BY DEF Inv, Types
<1>5. Types'
  <2>1. wire' \in [Ends -> Seq(Bytes)]
    <3>1. wire[p] \o SubSeq(out[e], 1, n) \in Seq(Bytes)
      BY <1>1, <1>4, ConcatProperties DEF Inv, Types
    <3> QED BY <1>1, <1>2, <3>1 DEF Inv, Types
  <2>2. out' \in [Ends -> Seq(Bytes)] /\ reset' \in [Ends -> BOOLEAN]
    BY <1>2, <1>4 DEF Inv, Types
  <2> QED BY <1>3, <2>1, <2>2 DEF Inv, Types
<1>6. Quiet(e)
  BY <1>3, QuietWhen
<1>7. wire'[e] = wire[e] /\ out'[p] = out[p]
  BY <1>1, <1>2 DEF Inv, Types
<1>8. StreamInv(e)'
  BY <1>3, <1>6, <1>7 DEF StreamInv, Quiet, p
<1>9. CASE open[p]
  <2>1. PICK m \in Messages, a \in Nat, b \in Nat : Streaming(p, m, a, b)
    BY <1>1, <1>3, <1>9, StreamingWhen
  <2>2. out[e] = Cut(m, b, Size(m)) /\ b <= Size(m) /\ Size(m) \in Nat
    BY <1>1, <1>3, <2>1, SizeFacts DEF Streaming
  <2>3. Len(out[e]) = Size(m) - b
    <3>1. Len(Cut(m, b, Size(m))) = Size(m) - b
      BY <2>2, CutType
    <3> QED BY <2>2, <3>1
  <2>4. b + n \in Nat /\ b + n <= Size(m) /\ b <= b + n /\ a <= b
    BY <1>4, <2>1, <2>2, <2>3 DEF Streaming
  <2>5. /\ SubSeq(Cut(m, b, Size(m)), 1, n) = Cut(m, b, b + n)
       /\ SubSeq(Cut(m, b, Size(m)), n + 1, Len(Cut(m, b, Size(m)))) = Cut(m, b + n, Size(m))
    <3>1. HasBytes(b, n, Size(m))
      BY <1>4, <2>2, <2>4 DEF HasBytes
    <3>2. /\ TakenOff(Cut(m, b, Size(m)), n) = Cut(m, b, b + n)
          /\ LeftOn(Cut(m, b, Size(m)), n) = Cut(m, b + n, Size(m))
      BY <3>1, CutParts
    <3> QED BY <3>2, Zenon DEF TakenOff, LeftOn
  <2>6. out'[e] = Cut(m, b + n, Size(m))
    BY <1>2, <2>2, <2>5 DEF Inv, Types
  <2>7. wire'[p] = Cut(m, a, b + n)
    <3>1. wire'[p] = Cut(m, a, b) \o SubSeq(out[e], 1, n)
      <4>1. wire'[p] = wire[p] \o SubSeq(out[e], 1, n)
        BY <1>1, <1>2, <1>9 DEF Inv, Types
      <4>2. wire[p] = Cut(m, a, b)
        BY <2>1 DEF Streaming
      <4> QED BY <4>1, <4>2
    <3>2. SubSeq(out[e], 1, n) = Cut(m, b, b + n)
      BY <2>2, <2>5
    <3>3. InOrder(a, b, b + n)
      BY <2>4 DEF InOrder
    <3>4. Cut(m, a, b) \o Cut(m, b, b + n) = Cut(m, a, b + n)
      BY <3>3, CutJoin, Zenon
    <3> QED BY <3>1, <3>2, <3>4, Zenon
  <2>8. Streaming(p, m, a, b + n)'
    <3>1. Base(p)' = Base(p)
      BY <1>3 DEF Base
    <3>2. Base(p) <= a /\ a <= b + n /\ b + n <= Size(m)
      BY <2>1, <2>4 DEF Streaming
    <3> QED BY <1>1, <1>3, <1>7, <2>1, <2>6, <2>7, <3>1, <3>2 DEF Streaming
  <2>9. StreamInv(p)'
    BY <2>4, <2>8 DEF StreamInv
  <2>10. ResetInv'
    BY <1>1, <1>2, <1>3, <1>7, <1>9, EndFacts DEF Inv, Types, ResetInv
  <2>11. TurnInv'
    BY <1>3 DEF Inv, TurnInv
  <2> QED BY <1>5, <1>8, <2>9, <2>10, <2>11, EndFacts DEF Inv, p
<1>10. CASE ~open[p]
  <2>1. StreamInv(p)' /\ TurnInv'
    BY <1>3, <1>10 DEF StreamInv, Inv, TurnInv
  <2>2. ResetInv'
    <3>1. wire[e] = <<>> /\ wire' = wire
      BY <1>2, <1>6, <1>10 DEF Quiet
    <3>2. \A f \in Ends : f = e \/ reset'[f] = reset[f]
      BY <1>2, <1>10 DEF Inv, Types
    <3> QED BY <1>3, <1>10, <3>1, <3>2 DEF Inv, ResetInv, p
  <2> QED BY <1>5, <1>8, <2>1, <2>2, EndFacts DEF Inv, p
<1> QED BY <1>9, <1>10

-----------------------------------------------------------------------------
(***************************************************************************)
(* recv returns n bytes, and e has d then: a part of one message.          *)
(***************************************************************************)
Arriving(e, m, a, b, n, d) ==
  /\ Streaming(e, m, a, b) /\ Receiving(e) /\ ~reset[e]
  /\ n \in Nat /\ a + n <= b /\ (a + n) - Base(e) <= need[e]
  /\ d = Cut(m, Base(e), a + n) /\ Len(d) = (a + n) - Base(e)
  /\ wire' = [wire EXCEPT ![e] = Cut(m, a + n, b)]
  /\ UNCHANGED <<reset, calls>>

LEMMA RecvArrives ==
  ASSUME Inv, NEW e \in Ends, Recv(e)
  PROVE  \E m \in Messages : \E a, b, n \in Nat : \E d \in Seq(Bytes) :
           /\ Arriving(e, m, a, b, n, d)
           /\ More(e, d) \/ ToBody(e, d) \/ Message(e, d)
<1>1. PICK n \in 1 .. need[e] - Len(data[e]) :
        /\ n <= Len(wire[e])
        /\ wire' = [wire EXCEPT ![e] = SubSeq(wire[e], n + 1, Len(wire[e]))]
        /\ \/ More(e, data[e] \o SubSeq(wire[e], 1, n))
           \/ ToBody(e, data[e] \o SubSeq(wire[e], 1, n))
           \/ Message(e, data[e] \o SubSeq(wire[e], 1, n))
  BY DEF Recv
<1>2. Receiving(e) /\ open[e] /\ UNCHANGED <<reset, calls>>
  BY DEF Recv, Receiving
<1>3. wire[e] \in Seq(Bytes) /\ data[e] \in Seq(Bytes)
  BY DEF Inv, Types
<1>4. n \in Nat /\ 1 <= n /\ wire[e] # <<>>
  BY <1>1, <1>3
<1>5. PICK m \in Messages, a \in Nat, b \in Nat : Streaming(e, m, a, b)
  BY <1>2, <1>4, StreamingWhen
<1> DEFINE k == Base(e)
<1>6. /\ k \in Nat /\ k <= a /\ a <= b /\ need[e] \in Nat
      /\ data[e] = Cut(m, k, a) /\ wire[e] = Cut(m, a, b)
  BY <1>5, SizeFacts DEF Streaming, Base
<1> HIDE DEF k
<1>7. Len(data[e]) = a - k /\ Len(wire[e]) = b - a
  <2>1. Len(Cut(m, k, a)) = a - k
    BY <1>6, CutType
  <2>2. Len(Cut(m, a, b)) = b - a
    BY <1>6, CutType
  <2> QED BY <1>6, <2>1, <2>2
<1>8. /\ a + n <= b /\ (a + n) - k <= need[e] /\ a + n \in Nat /\ a <= a + n /\ k <= a + n
  BY <1>1, <1>4, <1>6, <1>7
<1>9. /\ SubSeq(Cut(m, a, b), 1, n) = Cut(m, a, a + n)
      /\ SubSeq(Cut(m, a, b), n + 1, Len(Cut(m, a, b))) = Cut(m, a + n, b)
  <2>1. HasBytes(a, n, b)
    BY <1>4, <1>6, <1>8 DEF HasBytes
  <2>2. TakenOff(Cut(m, a, b), n) = Cut(m, a, a + n) /\ LeftOn(Cut(m, a, b), n) = Cut(m, a + n, b)
    BY <2>1, CutParts
  <2> QED BY <2>2, Zenon DEF TakenOff, LeftOn
<1>10. SubSeq(wire[e], 1, n) = Cut(m, a, a + n)
       /\ SubSeq(wire[e], n + 1, Len(wire[e])) = Cut(m, a + n, b)
  BY <1>6, <1>9
<1>11. data[e] \o SubSeq(wire[e], 1, n) = Cut(m, k, a + n)
  <2>1. Cut(m, k, a) \o Cut(m, a, a + n) = Cut(m, k, a + n)
    <3>1. InOrder(k, a, a + n)
      BY <1>6, <1>8 DEF InOrder
    <3> QED BY <3>1, CutJoin, Zenon
  <2> QED BY <1>6, <1>10, <2>1
<1>12. Cut(m, k, a + n) \in Seq(Bytes) /\ Len(Cut(m, k, a + n)) = (a + n) - k
  BY <1>6, <1>8, CutType
<1>13. ~reset[e]
  BY <1>2, <1>4 DEF Inv, ResetInv
<1>14. Arriving(e, m, a, b, n, Cut(m, k, a + n))
  BY <1>1, <1>2, <1>4, <1>5, <1>8, <1>10, <1>12, <1>13 DEF Arriving, k
<1>15. \/ More(e, Cut(m, k, a + n)) \/ ToBody(e, Cut(m, k, a + n))
       \/ Message(e, Cut(m, k, a + n))
  BY <1>1, <1>11
<1> QED BY <1>4, <1>12, <1>14, <1>15

\* What every recv keeps.
LEMMA RecvKeeps ==
  ASSUME Inv, NEW e \in Ends, NEW m \in Messages, NEW a \in Nat, NEW b \in Nat,
         NEW n \in Nat, NEW d, Arriving(e, m, a, b, n, d)
  PROVE  /\ wire' \in [Ends -> Seq(Bytes)] /\ wire'[e] = Cut(m, a + n, b)
         /\ wire'[Peer(e)] = wire[Peer(e)] /\ open[e]
         /\ (\A f \in Ends : open'[f] => open[f]) => ResetInv'
<1>1. a + n \in Nat /\ a + n <= b
  BY DEF Arriving
<1>2. Cut(m, a + n, b) \in Seq(Bytes)
  BY <1>1, CutType
<1>3. /\ wire' \in [Ends -> Seq(Bytes)] /\ wire'[e] = Cut(m, a + n, b)
      /\ \A f \in Ends : f # e => wire'[f] = wire[f]
  BY <1>2 DEF Arriving, Inv, Types
<1>4. ASSUME \A f \in Ends : open'[f] => open[f] PROVE ResetInv'
  BY <1>3, <1>4, EndFacts DEF Arriving, Inv, ResetInv
<1> QED BY <1>3, <1>4, EndFacts DEF Arriving, Receiving

LEMMA MoreStep ==
  ASSUME Inv, NEW e \in Ends, NEW m \in Messages, NEW a \in Nat, NEW b \in Nat,
         NEW n \in Nat, NEW d \in Seq(Bytes), Arriving(e, m, a, b, n, d), More(e, d)
  PROVE  Inv'
<1>1. /\ Len(d) < need[e] /\ data' = [data EXCEPT ![e] = d]
      /\ UNCHANGED <<open, out, part, need, busy, sent, got, reset, calls>>
  BY DEF More, Arriving
<1>2. /\ wire' \in [Ends -> Seq(Bytes)] /\ wire'[e] = Cut(m, a + n, b)
      /\ wire'[Peer(e)] = wire[Peer(e)] /\ ResetInv'
  BY <1>1, RecvKeeps
<1>3. Types'
  BY <1>1, <1>2 DEF Inv, Types
<1>4. Streaming(e, m, a + n, b)'
  <2>1. data'[e] = Cut(m, Base(e), a + n) /\ Base(e)' = Base(e)
    BY <1>1 DEF Arriving, Base, Inv, Types
  <2>2. /\ Base(e) <= a + n /\ a + n <= b /\ (a + n) - Base(e) < need[e]
    <3>1. Base(e) \in Nat
      BY SizeFacts DEF Base
    <3>2. Base(e) <= a
      BY DEF Arriving, Streaming
    <3>3. a + n <= b /\ (a + n) - Base(e) < need[e]
      BY <1>1 DEF Arriving
    <3> QED BY <3>1, <3>2, <3>3
  <2> QED BY <1>1, <1>2, <2>1, <2>2 DEF Arriving, Streaming
<1>5. StreamInv(e)'
  <2>1. a + n \in Nat
    OBVIOUS
  <2> QED BY <1>4, <2>1 DEF StreamInv
<1>6. StreamInv(Peer(e))'
  BY <1>1, <1>2, EndFacts, Unmoved DEF Inv, Types
<1>7. TurnInv'
  BY <1>1 DEF Inv, TurnInv
<1> QED BY <1>2, <1>3, <1>5, <1>6, <1>7, EndFacts DEF Inv

LEMMA ToBodyStep ==
  ASSUME Inv, NEW e \in Ends, NEW m \in Messages, NEW a \in Nat, NEW b \in Nat,
         NEW n \in Nat, NEW d \in Seq(Bytes), Arriving(e, m, a, b, n, d), ToBody(e, d)
  PROVE  Inv'
<1>1. /\ Len(d) >= need[e] /\ part[e] = "header"
      /\ part' = [part EXCEPT ![e] = "body"]
      /\ need' = [need EXCEPT ![e] = LengthIn(d)]
      /\ data' = [data EXCEPT ![e] = <<>>]
      /\ UNCHANGED <<open, out, busy, sent, got, reset, calls>>
  BY DEF ToBody, Arriving
<1>2. /\ wire' \in [Ends -> Seq(Bytes)] /\ wire'[e] = Cut(m, a + n, b)
      /\ wire'[Peer(e)] = wire[Peer(e)] /\ ResetInv'
  <2>1. \A f \in Ends : open'[f] => open[f]
    BY <1>1
  <2>2. /\ wire' \in [Ends -> Seq(Bytes)] /\ wire'[e] = Cut(m, a + n, b)
        /\ wire'[Peer(e)] = wire[Peer(e)]
        /\ (\A f \in Ends : open'[f] => open[f]) => ResetInv'
    BY RecvKeeps
  <2> QED BY <2>1, <2>2
<1>3. /\ HeaderLen \in Nat /\ m.len \in Nat \ {0} /\ Size(m) \in Nat
  BY SizeFacts
<1>4. Base(e) = 0 /\ need[e] = HeaderLen
  BY <1>1 DEF Arriving, Streaming, Base
<1>5. a + n = HeaderLen /\ HeaderLen <= b
  BY <1>1, <1>3, <1>4 DEF Arriving
<1>6. LengthIn(d) = m.len
  BY <1>4, <1>5, Parsing DEF Arriving
<1>7. Types'
  <2>1. <<>> \in Seq(Bytes)
    OBVIOUS
  <2> QED BY <1>1, <1>2, <2>1 DEF Inv, Types
<1>8. Streaming(e, m, HeaderLen, b)'
  <2>1. part'[e] = "body" /\ need'[e] = m.len /\ data'[e] = <<>>
    BY <1>1, <1>6 DEF Inv, Types
  <2>2. Base(e)' = HeaderLen
    BY <2>1 DEF Base
  <2>3. Cut(m, HeaderLen, HeaderLen) = <<>>
    BY <1>3, CutType
  <2>4. HeaderLen <= HeaderLen /\ HeaderLen - HeaderLen < m.len /\ b <= Size(m)
    BY <1>3 DEF Arriving, Streaming
  <2> QED BY <1>1, <1>2, <1>5, <2>1, <2>2, <2>3, <2>4 DEF Arriving, Streaming
<1>9. StreamInv(e)'
  BY <1>3, <1>8 DEF StreamInv
<1>10. StreamInv(Peer(e))'
  BY <1>1, <1>2, EndFacts, Unmoved DEF Inv, Types
<1>11. TurnInv'
  BY <1>1 DEF Inv, TurnInv
<1> QED BY <1>2, <1>7, <1>9, <1>10, <1>11, EndFacts DEF Inv

-----------------------------------------------------------------------------
(***************************************************************************)
(* The body is complete: the message that is returned is the one that was  *)
(* sent, and nothing of another one has arrived.                           *)
(***************************************************************************)
LEMMA WholeMessage ==
  ASSUME Inv, NEW e \in Ends, NEW m \in Messages, NEW a \in Nat, NEW b \in Nat,
         NEW n \in Nat, NEW d \in Seq(Bytes), Arriving(e, m, a, b, n, d), Message(e, d)
  PROVE  /\ MessageIn(d) = m /\ wire'[e] = <<>> /\ got' = [got EXCEPT ![e] = sent[e]]
         /\ sent[e] = Append(got[e], m) /\ open[e]
         /\ out[e] = <<>> /\ out[Peer(e)] = <<>>
         /\ open["client"] => busy /\ m.call = calls
         /\ open[Peer(e)] => Quiet(Peer(e))
         /\ wire' \in [Ends -> Seq(Bytes)] /\ wire'[Peer(e)] = wire[Peer(e)]
         /\ (\A f \in Ends : open'[f] => open[f]) => ResetInv'
         /\ UNCHANGED <<reset, calls>>
<1>1. /\ Len(d) >= need[e] /\ part[e] = "body"
      /\ got' = [got EXCEPT ![e] = Append(got[e], MessageIn(d))]
  BY DEF Message
<1>2. /\ wire' \in [Ends -> Seq(Bytes)] /\ wire'[e] = Cut(m, a + n, b)
      /\ wire'[Peer(e)] = wire[Peer(e)] /\ open[e]
      /\ (\A f \in Ends : open'[f] => open[f]) => ResetInv'
  BY RecvKeeps
<1>3. HeaderLen \in Nat /\ m.len \in Nat \ {0} /\ Size(m) \in Nat /\ Size(m) = HeaderLen + m.len
  BY SizeFacts DEF Size
<1>4. Base(e) = HeaderLen /\ need[e] = m.len
  BY <1>1 DEF Arriving, Streaming, Base
<1>5. a + n = Size(m) /\ b = Size(m)
  <2>1. b <= Size(m) /\ a + n <= b
    BY DEF Arriving, Streaming
  <2>2. (a + n) - HeaderLen >= m.len
    BY <1>1, <1>4 DEF Arriving
  <2> QED BY <1>3, <2>1, <2>2
<1>6. Cut(m, Size(m), Size(m)) = <<>>
  <2> DEFINE c == Size(m)
  <2>1. c \in Nat /\ c <= c
    BY <1>3
  <2> HIDE DEF c
  <2>2. Cut(m, c, c) = <<>>
    BY <2>1, CutType
  <2> QED BY <2>2 DEF c
<1>7. MessageIn(d) = m
  BY <1>4, <1>5, Parsing DEF Arriving
<1>8. wire'[e] = <<>>
  BY <1>2, <1>5, <1>6
<1>9. out[e] = <<>> /\ out[Peer(e)] = <<>>
  BY <1>5, <1>6 DEF Arriving, Streaming
<1>10. /\ sent[e] = Append(got[e], m)
       /\ open["client"] => busy /\ m.call = calls
  BY DEF Arriving, Streaming
<1>11. sent[e] # got[e]
  BY Moving DEF Arriving
<1>12. ASSUME open[Peer(e)] PROVE Quiet(Peer(e))
  BY <1>2, <1>11, <1>12, QuietWhen, EndFacts
<1>13. UNCHANGED <<reset, calls>>
  BY DEF Arriving
<1> QED BY <1>1, <1>2, <1>7, <1>8, <1>9, <1>10, <1>12, <1>13

LEMMA ReplyStep ==
  ASSUME Inv, NEW m \in Messages, NEW a \in Nat, NEW b \in Nat,
         NEW n \in Nat, NEW d \in Seq(Bytes),
         Arriving("client", m, a, b, n, d), Message("client", d)
  PROVE  Inv'
<1> DEFINE e == "client"
           p == "server"
<1>1. e \in Ends /\ p \in Ends /\ Peer(e) = p /\ Peer(p) = e /\ e # p
  BY EndFacts
<1>2. /\ busy' = FALSE /\ UNCHANGED <<open, out, sent>>
      /\ part' = [part EXCEPT ![e] = "header"]
      /\ need' = [need EXCEPT ![e] = HeaderLen]
      /\ data' = [data EXCEPT ![e] = <<>>]
  BY DEF Message, Return, Fresh
<1>3. /\ wire'[e] = <<>> /\ got' = [got EXCEPT ![e] = sent[e]]
      /\ out[e] = <<>> /\ out[p] = <<>> /\ open[e]
      /\ open[p] => Quiet(p)
      /\ wire' \in [Ends -> Seq(Bytes)] /\ wire'[p] = wire[p]
      /\ ResetInv' /\ UNCHANGED <<reset, calls>>
  BY <1>1, <1>2, WholeMessage
<1> HIDE DEF e, p
<1>4. Types'
  <2>1. <<>> \in Seq(Bytes)
    OBVIOUS
  <2> QED BY <1>1, <1>2, <1>3, <2>1 DEF Inv, Types
<1>5. Quiet(e)'
  BY <1>1, <1>2, <1>3 DEF Quiet, Inv, Types
<1>6. ASSUME open[p] PROVE Quiet(p)'
  BY <1>1, <1>2, <1>3, <1>6 DEF Quiet, Inv, Types
<1>7. StreamInv(e)' /\ StreamInv(p)'
  BY <1>2, <1>5, <1>6 DEF StreamInv
<1>8. TurnInv'
  BY <1>1, <1>2, <1>3 DEF TurnInv, Inv, Types, e, p
<1> QED BY <1>3, <1>4, <1>7, <1>8, EndFacts DEF Inv, e, p

LEMMA RequestStep ==
  ASSUME Inv, NEW m \in Messages, NEW a \in Nat, NEW b \in Nat,
         NEW n \in Nat, NEW d \in Seq(Bytes),
         Arriving("server", m, a, b, n, d), Message("server", d)
  PROVE  Inv'
<1> DEFINE e == "server"
           p == "client"
<1>1. e \in Ends /\ p \in Ends /\ Peer(e) = p /\ Peer(p) = e /\ e # p
  BY EndFacts
<1>2. /\ Process(d) /\ busy' = busy
      /\ part' = [part EXCEPT ![e] = "header"]
      /\ need' = [need EXCEPT ![e] = HeaderLen]
      /\ data' = [data EXCEPT ![e] = <<>>]
  BY DEF Message, Process, Fresh
<1>3. /\ MessageIn(d) = m /\ wire'[e] = <<>> /\ got' = [got EXCEPT ![e] = sent[e]]
      /\ out[e] = <<>> /\ out[p] = <<>> /\ open[e]
      /\ open[p] => busy /\ m.call = calls
      /\ open[p] => Quiet(p)
      /\ wire' \in [Ends -> Seq(Bytes)] /\ wire'[p] = wire[p]
      /\ (\A f \in Ends : open'[f] => open[f]) => ResetInv'
      /\ UNCHANGED <<reset, calls>>
  BY <1>1, WholeMessage
<1>4. <<>> \in Seq(Bytes)
  OBVIOUS
<1> HIDE DEF e, p
<1>5. /\ part'[p] = part[p] /\ need'[p] = need[p] /\ data'[p] = data[p]
      /\ got'[p] = got[p] /\ got'[e] = sent[e] /\ part'[e] = "header"
      /\ need'[e] = HeaderLen /\ data'[e] = <<>>
      /\ part' \in [Ends -> {"header", "body"}] /\ DOMAIN need' = Ends
      /\ data' \in [Ends -> Seq(Bytes)] /\ got' \in [Ends -> Seq(Messages)]
  BY <1>1, <1>2, <1>3, <1>4 DEF Inv, Types
<1>6. CASE \E k \in Sizes : SendAll(e, [call |-> MessageIn(d).call, len |-> k]) /\ UNCHANGED open
  <2>1. PICK k \in Sizes : SendAll(e, [call |-> m.call, len |-> k]) /\ UNCHANGED open
    BY <1>3, <1>6
  <2> DEFINE r == [call |-> m.call, len |-> k]
  <2>2. r \in Messages /\ r.call = m.call
    BY SizeFacts DEF Messages
  <2> HIDE DEF r
  <2>3. /\ out' = [out EXCEPT ![e] = Serialize(r)]
        /\ sent' = [sent EXCEPT ![p] = Append(sent[p], r)] /\ UNCHANGED open
    BY <1>1, <2>1 DEF SendAll, r
  <2>4. Types'
    <3>1. Serialize(r) \in Seq(Bytes)
      BY <2>2, Parsing
    <3>2. Append(sent[p], r) \in Seq(Messages)
      BY <1>1, <2>2 DEF Inv, Types
    <3> QED BY <1>2, <1>3, <1>5, <2>3, <3>1, <3>2 DEF Inv, Types
  <2>5. /\ out'[p] = <<>> /\ out'[e] = Serialize(r) /\ sent'[e] = sent[e]
        /\ sent'[p] = Append(sent[p], r)
    BY <1>1, <1>3, <2>3 DEF Inv, Types
  <2>6. Quiet(e)'
    BY <1>1, <1>3, <1>5, <2>3, <2>5 DEF Quiet
  <2>7. ASSUME open[p] PROVE StreamInv(p)'
    <3>1. Quiet(p) /\ busy /\ m.call = calls
      BY <1>3, <2>7
    <3>2. /\ part'[p] = "header" /\ need'[p] = HeaderLen
          /\ data'[p] = <<>> /\ wire'[p] = <<>> /\ sent[p] = got[p]
      BY <1>1, <1>3, <1>5, <3>1 DEF Quiet
    <3> QED BY <1>1, <1>2, <1>3, <1>5, <2>2, <2>3, <2>5, <3>1, <3>2, Begin
  <2>8. StreamInv(e)' /\ StreamInv(p)'
    BY <2>3, <2>6, <2>7 DEF StreamInv
  <2>9. TurnInv'
    BY <1>5, <2>5 DEF TurnInv, e, p
  <2>10. ResetInv'
    BY <1>3, <2>3
  <2> QED BY <2>4, <2>8, <2>9, <2>10, EndFacts DEF Inv, e, p
<1>7. CASE open' = [open EXCEPT ![e] = FALSE] /\ UNCHANGED <<out, sent>>
  <2>1. Types'
    BY <1>2, <1>3, <1>5, <1>7 DEF Inv, Types
  <2>2. ~open'[e] /\ open'[p] = open[p] /\ open' \in [Ends -> BOOLEAN]
    BY <1>1, <1>7 DEF Inv, Types
  <2>3. ASSUME open[p] PROVE Quiet(p)'
    BY <1>1, <1>3, <1>5, <2>2, <2>3 DEF Quiet
  <2>4. StreamInv(e)' /\ StreamInv(p)'
    BY <2>2, <2>3 DEF StreamInv
  <2>5. TurnInv'
    BY <2>2 DEF TurnInv, e
  <2>6. ResetInv'
    BY <1>1, <1>3, <2>2, EndFacts DEF e, p
  <2> QED BY <2>1, <2>4, <2>5, <2>6, EndFacts DEF Inv, e, p
<1>8. CASE UNCHANGED <<open, out, sent>>
  <2>1. Types'
    BY <1>2, <1>3, <1>5, <1>8 DEF Inv, Types
  <2>2. Quiet(e)'
    BY <1>1, <1>3, <1>5, <1>8 DEF Quiet
  <2>3. ASSUME open[p] PROVE Quiet(p)'
    BY <1>1, <1>3, <1>5, <1>8, <2>3 DEF Quiet
  <2>4. StreamInv(e)' /\ StreamInv(p)'
    BY <1>8, <2>2, <2>3 DEF StreamInv
  <2>5. TurnInv'
    BY <1>5, <1>8 DEF TurnInv, e
  <2>6. ResetInv'
    BY <1>3, <1>8
  <2> QED BY <2>1, <2>4, <2>5, <2>6, EndFacts DEF Inv, e, p
<1> QED BY <1>2, <1>6, <1>7, <1>8 DEF Process, e

-----------------------------------------------------------------------------
LEMMA RecvStep ==
  ASSUME Inv, NEW e \in Ends, Recv(e)
  PROVE  Inv'
<1>1. PICK m \in Messages, a \in Nat, b \in Nat, n \in Nat, d \in Seq(Bytes) :
        /\ Arriving(e, m, a, b, n, d)
        /\ More(e, d) \/ ToBody(e, d) \/ Message(e, d)
  BY RecvArrives
<1>2. CASE More(e, d)
  BY <1>1, <1>2, MoreStep
<1>3. CASE ToBody(e, d)
  BY <1>1, <1>3, ToBodyStep
<1>4. CASE Message(e, d)
  <2>1. CASE e = "client"
    BY <1>1, <1>4, <2>1, ReplyStep
  <2>2. CASE e = "server"
    BY <1>1, <1>4, <2>2, RequestStep
  <2> QED BY <2>1, <2>2, EndFacts
<1> QED BY <1>1, <1>2, <1>3, <1>4

\* The peer has gone: no message is under way any more.
LEMMA Alone ==
  ASSUME Inv, NEW e \in Ends, ~open'[Peer(e)],
         part'[e] = "header", need'[e] = HeaderLen, data'[e] = <<>>, wire'[e] = <<>>,
         Types', ResetInv'
  PROVE  Inv'
<1>1. StreamInv(e)'
  BY DEF StreamInv, Quiet
<1>2. StreamInv(Peer(e))' /\ TurnInv'
  BY EndFacts DEF StreamInv, TurnInv
<1> QED BY <1>1, <1>2, EndFacts DEF Inv

LEMMA EofStep ==
  ASSUME Inv, NEW e \in Ends, Eof(e)
  PROVE  Inv'
<1>1. /\ wire[e] = <<>> /\ ~open[Peer(e)]
      /\ part' = [part EXCEPT ![e] = "header"]
      /\ need' = [need EXCEPT ![e] = HeaderLen]
      /\ data' = [data EXCEPT ![e] = <<>>]
      /\ UNCHANGED <<reset, wire, calls, got>>
      /\ open' = open \/ open' = [open EXCEPT !["server"] = FALSE]
  BY DEF Eof, Fresh, NoResponse, HeaderMissing, BodyMissing
<1>2. /\ out' \in [Ends -> Seq(Bytes)] /\ sent' \in [Ends -> Seq(Messages)]
      /\ busy' \in BOOLEAN
  <2>1. CASE e = "client"
    BY <2>1 DEF Eof, NoResponse, Inv, Types
  <2>2. CASE BodyMissing
    BY <2>2 DEF BodyMissing, Inv, Types
  <2>3. CASE e # "client" /\ HeaderMissing
    <3>1. PICK k \in Sizes : SendAll("server", [call |-> 0, len |-> k])
      BY <2>3 DEF HeaderMissing
    <3> DEFINE r == [call |-> 0, len |-> k]
    <3>2. r \in Messages
      BY FramingAssumption DEF Messages
    <3> HIDE DEF r
    <3>3. /\ out' = [out EXCEPT !["server"] = Serialize(r)]
          /\ sent' = [sent EXCEPT !["client"] = Append(sent["client"], r)]
      BY <3>1, EndFacts DEF SendAll, r
    <3>4. Serialize(r) \in Seq(Bytes)
      BY <3>2, Parsing
    <3>5. Append(sent["client"], r) \in Seq(Messages)
      BY <3>2, EndFacts DEF Inv, Types
    <3> QED BY <2>3, <3>3, <3>4, <3>5 DEF HeaderMissing, Inv, Types
  <2> QED BY <2>1, <2>2, <2>3 DEF Eof
<1>3. open' \in [Ends -> BOOLEAN] /\ \A f \in Ends : open'[f] => open[f]
  BY <1>1 DEF Inv, Types
<1>4. Types'
  <2>1. <<>> \in Seq(Bytes)
    OBVIOUS
  <2> QED BY <1>1, <1>2, <1>3, <2>1 DEF Inv, Types
<1>5. /\ part'[e] = "header" /\ need'[e] = HeaderLen /\ data'[e] = <<>>
      /\ wire'[e] = <<>> /\ ~open'[Peer(e)]
  BY <1>1, <1>3, EndFacts DEF Inv, Types
<1>6. ResetInv'
  BY <1>1, <1>3, EndFacts DEF Inv, ResetInv
<1> QED BY <1>4, <1>5, <1>6, Alone

LEMMA RaisesStep ==
  ASSUME Inv, NEW e \in Ends, Raises(e)
  PROVE  Inv'
<1>1. /\ reset[e] /\ open[e]
      /\ out' = [out EXCEPT ![e] = <<>>]
      /\ part' = [part EXCEPT ![e] = "header"]
      /\ need' = [need EXCEPT ![e] = HeaderLen]
      /\ data' = [data EXCEPT ![e] = <<>>]
      /\ UNCHANGED <<reset, wire, calls, sent, got>>
  BY DEF Raises, Fresh
<1>2. wire[e] = <<>> /\ ~open[Peer(e)]
  BY <1>1 DEF Inv, ResetInv
<1>3. /\ open' = open \/ open' = [open EXCEPT ![e] = FALSE]
      /\ busy' \in BOOLEAN
  BY DEF Raises, Inv, Types
<1>4. Types'
  <2>1. <<>> \in Seq(Bytes)
    OBVIOUS
  <2> QED BY <1>1, <1>3, <2>1 DEF Inv, Types
<1>5. /\ part'[e] = "header" /\ need'[e] = HeaderLen /\ data'[e] = <<>>
      /\ wire'[e] = <<>>
  BY <1>1, <1>2 DEF Inv, Types
<1>6. \A f \in Ends : open'[f] => open[f]
  BY <1>3 DEF Inv, Types
<1>7. ~open'[Peer(e)]
  BY <1>2, <1>6, EndFacts
<1>8. ResetInv'
  BY <1>1, <1>6, EndFacts DEF Inv, ResetInv
<1> QED BY <1>4, <1>5, <1>7, <1>8, Alone

LEMMA EndingStep ==
  ASSUME Inv, NEW e \in Ends, End(e)
  PROVE  Inv'
<1> DEFINE p == Peer(e)
<1>1. p \in Ends /\ p # e /\ Peer(p) = e /\ \A f \in Ends : f = e \/ f = p
  BY EndFacts
<1>2. /\ open[e] /\ open' = [open EXCEPT ![e] = FALSE]
      /\ out' = [out EXCEPT ![e] = <<>>]
      /\ reset' = [reset EXCEPT ![p] = reset[p] \/ wire[e] # <<>>]
      /\ busy' = (busy /\ e = "server")
      /\ UNCHANGED <<wire, part, need, data, calls, sent, got>>
  BY DEF End
<1> HIDE DEF p
<1>3. Types'
  <2>1. <<>> \in Seq(Bytes) /\ busy' \in BOOLEAN
    BY <1>2
  <2>2. reset' \in [Ends -> BOOLEAN]
    BY <1>1, <1>2 DEF Inv, Types
  <2> QED BY <1>2, <2>1, <2>2 DEF Inv, Types
<1>4. /\ ~open'[e] /\ open'[p] = open[p]
      /\ out'[e] = <<>> /\ out'[p] = out[p]
      /\ reset'[e] = reset[e] /\ (reset'[p] <=> reset[p] \/ wire[e] # <<>>)
  BY <1>1, <1>2 DEF Inv, Types
<1>5. ASSUME open[p] PROVE StreamInv(p)'
  <2>1. CASE Quiet(p)
    BY <1>1, <1>2, <1>4, <2>1 DEF StreamInv, Quiet
  <2>2. ASSUME NEW m \in Messages, NEW a \in Nat, NEW b \in Nat, Streaming(p, m, a, b)
        PROVE  Streaming(p, m, a, b)'
    <3>1. Base(p)' = Base(p)
      BY <1>2 DEF Base
    <3>2. open'["client"] => busy' /\ m.call = calls'
      <4>1. CASE e = "client"
        BY <1>4, <4>1
      <4>2. CASE e = "server"
        BY <1>2, <1>4, <2>2, <4>2, EndFacts DEF Streaming, p
      <4> QED BY <4>1, <4>2, EndFacts
    <3> QED BY <1>1, <1>2, <1>4, <2>2, <3>1, <3>2 DEF Streaming
  <2> QED BY <1>1, <1>5, <2>1, <2>2 DEF StreamInv, Inv
<1>6. StreamInv(e)' /\ StreamInv(p)'
  BY <1>4, <1>5 DEF StreamInv
<1>7. TurnInv'
  BY <1>4, EndFacts DEF TurnInv
<1>8. ResetInv'
  <2>1. ASSUME reset'[p], open[p] PROVE wire[p] = <<>>
    <3>1. ~reset[p]
      BY <1>1, <1>2, <2>1 DEF Inv, ResetInv
    <3>2. wire[e] # <<>>
      BY <1>4, <2>1, <3>1
    <3>3. PICK m \in Messages, a \in Nat, b \in Nat : Streaming(e, m, a, b)
      BY <1>2, <3>2, StreamingWhen
    <3>4. sent[e] # got[e]
      BY <3>3, Moving
    <3>5. Quiet(p)
      BY <1>1, <1>2, <2>1, <3>4, QuietWhen
    <3> QED BY <3>5 DEF Quiet
  <2> QED BY <1>1, <1>2, <1>4, <2>1 DEF ResetInv
<1> QED BY <1>1, <1>3, <1>6, <1>7, <1>8 DEF Inv

LEMMA NextInv == Inv /\ [Next]_vars => Inv'
<1> SUFFICES ASSUME Inv, [Next]_vars PROVE Inv'
  OBVIOUS
<1>1. CASE Call
  BY <1>1, CallStep
<1>2. ASSUME NEW e \in Ends, EndStep(e) PROVE Inv'
  BY <1>2, HandOverStep, RecvStep, EofStep, RaisesStep DEF EndStep
<1>3. ASSUME NEW e \in Ends, End(e) PROVE Inv'
  BY <1>3, EndingStep
<1>4. CASE UNCHANGED vars
  <2>1. Types' /\ TurnInv' /\ ResetInv'
    BY <1>4 DEF vars, Inv, Types, TurnInv, ResetInv
  <2>2. ASSUME NEW e \in Ends PROVE StreamInv(e)'
    BY <1>4, EndFacts, Unmoved DEF vars, Inv
  <2> QED BY <2>1, <2>2 DEF Inv
<1> QED BY <1>1, <1>2, <1>3, <1>4 DEF Next

LEMMA Invariant == Spec => []Inv
BY InitInv, NextInv, PTL DEF Spec

-----------------------------------------------------------------------------
(***************************************************************************)
(* The two directions, as queues of whole messages.                        *)
(***************************************************************************)
QueueStep(e) ==
  \/ sent'[e] = sent[e] /\ got'[e] = got[e]
  \/ (\E m \in Messages : sent'[e] = Append(sent[e], m)) /\ got'[e] = got[e]
  \/ /\ sent'[e] = sent[e] /\ Len(got[e]) < Len(sent[e])
     /\ got'[e] = Append(got[e], sent[e][Len(got[e]) + 1])

\* What a message that is complete does to both directions.
LEMMA MessageQueued ==
  ASSUME Inv, NEW e \in Ends, NEW m \in Messages, NEW a \in Nat, NEW b \in Nat,
         NEW n \in Nat, NEW d \in Seq(Bytes), Arriving(e, m, a, b, n, d), Message(e, d)
  PROVE  QueueStep(e) /\ QueueStep(Peer(e))
<1>1. /\ MessageIn(d) = m /\ got' = [got EXCEPT ![e] = sent[e]]
      /\ sent[e] = Append(got[e], m)
  BY WholeMessage
<1>2. /\ sent \in [Ends -> Seq(Messages)] /\ got \in [Ends -> Seq(Messages)]
      /\ Peer(e) \in Ends /\ Peer(e) # e
  BY EndFacts DEF Inv, Types
<1>3. \/ sent' = sent
      \/ \E r \in Messages : sent' = [sent EXCEPT ![Peer(e)] = Append(sent[Peer(e)], r)]
  <2>1. CASE e = "client"
    BY <2>1 DEF Message, Return
  <2>2. CASE e # "client" /\ sent' # sent
    <3>1. e = "server"
      BY <2>2, EndFacts
    <3>2. PICK k \in Sizes : SendAll("server", [call |-> m.call, len |-> k])
      BY <1>1, <2>2 DEF Message, Process
    <3>3. [call |-> m.call, len |-> k] \in Messages
      BY SizeFacts DEF Messages
    <3> QED BY <3>1, <3>2, <3>3 DEF SendAll
  <2> QED BY <2>1, <2>2
<1>4. sent'[e] = sent[e] /\ got'[e] = sent[e] /\ got'[Peer(e)] = got[Peer(e)]
  BY <1>1, <1>2, <1>3
<1>5. Len(got[e]) < Len(sent[e]) /\ m = sent[e][Len(got[e]) + 1]
  BY <1>1, <1>2
<1>6. QueueStep(e)
  BY <1>1, <1>4, <1>5 DEF QueueStep
<1>7. QueueStep(Peer(e))
  BY <1>2, <1>3, <1>4 DEF QueueStep
<1> QED BY <1>6, <1>7

LEMMA QueueSteps ==
  ASSUME Inv, [Next]_vars, NEW f \in Ends
  PROVE  QueueStep(f)
<1>0. sent \in [Ends -> Seq(Messages)]
  BY DEF Inv, Types
<1>1. CASE UNCHANGED <<sent, got>>
  BY <1>1 DEF QueueStep
<1>2. ASSUME NEW e \in Ends, NEW m \in Messages, SendAll(e, m), UNCHANGED got
      PROVE  QueueStep(f)
  BY <1>0, <1>2, EndFacts DEF SendAll, QueueStep
<1>3. CASE Call
  <2>1. PICK k \in Sizes : SendAll("client", [call |-> calls + 1, len |-> k])
    BY <1>3 DEF Call
  <2>2. [call |-> calls + 1, len |-> k] \in Messages
    BY <1>3, FramingAssumption DEF Call, Messages, Inv, Types
  <2> QED BY <1>2, <1>3, <2>1, <2>2, EndFacts DEF Call
<1>4. ASSUME NEW e \in Ends, Eof(e) PROVE QueueStep(f)
  <2>1. CASE NoResponse \/ BodyMissing
    BY <1>1, <1>4, <2>1 DEF Eof, NoResponse, BodyMissing
  <2>2. CASE HeaderMissing
    <3>1. PICK k \in Sizes : SendAll("server", [call |-> 0, len |-> k])
      BY <2>2 DEF HeaderMissing
    <3>2. [call |-> 0, len |-> k] \in Messages
      BY FramingAssumption DEF Messages
    <3> QED BY <1>2, <1>4, <3>1, <3>2, EndFacts DEF Eof
  <2> QED BY <1>4, <2>1, <2>2 DEF Eof
<1>5. ASSUME NEW e \in Ends, Recv(e) PROVE QueueStep(f)
  <2>1. PICK m \in Messages, a \in Nat, b \in Nat, n \in Nat, d \in Seq(Bytes) :
          /\ Arriving(e, m, a, b, n, d)
          /\ More(e, d) \/ ToBody(e, d) \/ Message(e, d)
    BY <1>5, RecvArrives
  <2>2. CASE More(e, d) \/ ToBody(e, d)
    BY <1>1, <2>2 DEF More, ToBody
  <2>3. CASE Message(e, d)
    BY <2>1, <2>3, MessageQueued, EndFacts
  <2> QED BY <2>1, <2>2, <2>3
<1>6. ASSUME NEW e \in Ends, HandOver(e) \/ Raises(e) \/ End(e)
      PROVE  QueueStep(f)
  BY <1>1, <1>6 DEF HandOver, Raises, End
<1>7. CASE UNCHANGED vars
  BY <1>1, <1>7 DEF vars
<1> QED BY <1>3, <1>4, <1>5, <1>6, <1>7 DEF Next, EndStep

\* Each direction of a connection implements the queue of messages: whatever
\* sendall hands over and recv returns at a time, and wherever an end is closed
\* or lost, messages arrive whole, in order, none twice and none made up.
THEOREM Queues == Spec => QueuesOfMessages
<1>1. Init => ToServer!Init /\ ToClient!Init
  BY EndFacts DEF Init, ToServer!Init, ToClient!Init
<1>2. Inv /\ [Next]_vars => [ToServer!Next]_<<sent["server"], got["server"]>>
  BY QueueSteps, EndFacts
     DEF QueueStep, ToServer!Next, ToServer!Send, ToServer!Receive
<1>3. Inv /\ [Next]_vars => [ToClient!Next]_<<sent["client"], got["client"]>>
  BY QueueSteps, EndFacts
     DEF QueueStep, ToClient!Next, ToClient!Send, ToClient!Receive
<1> QED BY <1>1, <1>2, <1>3, Invariant, PTL
     DEF Spec, QueuesOfMessages, ToServer!Spec, ToClient!Spec

\* A message that a call of send returns is the answer to its own request.
THEOREM OwnReply == Spec => ReplyOfThisCall
<1>1. ASSUME Inv, [Next]_vars, got'["client"] # got["client"]
      PROVE  Last(got'["client"]).call = calls
  <2>1. PICK e \in Ends : Recv(e)
    BY <1>1 DEF Next, Call, EndStep, HandOver, Eof, Raises, End, vars
  <2>2. PICK m \in Messages, a \in Nat, b \in Nat, n \in Nat, d \in Seq(Bytes) :
          /\ Arriving(e, m, a, b, n, d)
          /\ More(e, d) \/ ToBody(e, d) \/ Message(e, d)
    BY <1>1, <2>1, RecvArrives
  <2>3. Message(e, d)
    BY <1>1, <2>2 DEF More, ToBody
  <2>4. /\ got' = [got EXCEPT ![e] = sent[e]] /\ sent[e] = Append(got[e], m)
        /\ open[e] /\ (open["client"] => busy /\ m.call = calls)
    BY <1>1, <2>2, <2>3, WholeMessage
  <2>5. e = "client" /\ got \in [Ends -> Seq(Messages)]
    BY <1>1, <2>4 DEF Inv, Types
  <2>6. got'["client"] = Append(got["client"], m)
    BY <2>4, <2>5
  <2> QED BY <2>4, <2>5, <2>6 DEF Last
<1> QED BY <1>1, Invariant, PTL DEF Spec, ReplyOfThisCall
=============================================================================
