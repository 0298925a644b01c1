--------------------------- MODULE SyncLinkProofs ---------------------------
(***************************************************************************)
(* Proofs about SyncLink, for every sequence space, ring, buffer and       *)
(* message size, every ladder, any number of losses and sessions, and      *)
(* whenever recvMsg abandons a partial message.                            *)
(***************************************************************************)
EXTENDS SyncLink, SeqSpaceProofs, SequenceTheorems, WellFoundedInduction

-----------------------------------------------------------------------------
(* Types                                                                   *)

CallFields ==
  {"phase", "msg", "len", "merged", "part", "seq", "again", "spent", "gen", "sess"}
IsCall(c) == c = [f \in CallFields |-> c[f]]
CallOK(c) ==
  /\ IsCall(c) /\ c.phase \in {"idle", "wait", "drain"}
  /\ c.phase = "idle" => c = Idle
  /\ c.phase # "idle" => c.msg \in 1..MaxMsgs /\ c.len \in BodyLens
  /\ c.part \in 0..c.len /\ c.seq \in Seqs /\ (c.merged => c.part = 0)
  /\ c.gen \in Nat /\ c.sess \in Nat

DataFrames == [seq : Seqs, bytes : Seq(Units)]
CtrlFrames == [type : {"ACK", "NAK"}, seq : Seqs]

SendTypes ==
  /\ sState \in {"OK", "SWP"} /\ txSeq \in Seqs /\ pending \subseteq BudgetSlots
  /\ nakWake \in Seqs \cup {NoSeq} /\ clearAllEpoch \in Nat
RecvTypes ==
  /\ rState \in {"OK", "SWP"} /\ rxSeq \in Seqs /\ rxSeqSet \in BOOLEAN
  /\ errs \in 0..errThreshold /\ errDue \in BOOLEAN
BufTypes == appBuf \in Seq(Units) /\ Len(appBuf) <= AppCap
MsgRxTypes ==
  \/ msgRx = NoMsg
  \/ /\ msgRx = [msg |-> msgRx.msg, len |-> msgRx.len]
     /\ msgRx.msg \in 0..MaxMsgs /\ msgRx.len \in BodyLens
DataTypes == data \in Seq(DataFrames) /\ Len(data) <= RingCap
CtrlTypes == ctrl \in Seq(CtrlFrames) /\ Len(ctrl) <= RingCap
HistTypes ==
  /\ confirmed \subseteq 1..MaxMsgs /\ got \in Seq(1..MaxMsgs)
  /\ session \in Nat /\ msgs \in 0..MaxMsgs
TypeInv ==
  /\ SendTypes /\ CallOK(call) /\ RecvTypes /\ BufTypes /\ MsgRxTypes
  /\ DataTypes /\ CtrlTypes /\ HistTypes

\* What the assumptions say of the constants.
LEMMA Sizes ==
  /\ COBS_SEQ_SPACE \in Nat /\ COBS_SEQ_SPACE >= 3 /\ ARQ_CHUNK_BUDGET \in Nat \ {0}
  /\ PIPELINE_WINDOW \in Nat \ {0} /\ PIPELINE_WINDOW >= 2
  /\ BodyLens \subseteq Nat \ {0} /\ MSG_HDR \in Nat \ {0} /\ AckTimeout \in Nat \ {0}
  /\ MaxRetx \in Nat /\ RingCap \in Nat \ {0} /\ AppCap \in Nat /\ ScanMax \in Nat
  /\ errThreshold \in Nat /\ MaxMsgs \in Nat
  BY SpaceAssumption, SyncAssumption

LEMMA SeqFacts ==
  /\ 0 \in Seqs /\ NoSeq \notin Seqs
  /\ \A s \in Seqs : NextSeq(s) \in Seqs /\ NextSeq(s) # s /\ budgetIdx(s) \in BudgetSlots
<1>1. \A s \in Seqs : NextSeq(s) \in Seqs /\ NextSeq(s) # s
  BY Sizes DEF Seqs, NextSeq
<1>2. \A s \in Seqs : budgetIdx(s) \in BudgetSlots
  BY Sizes DEF Seqs, budgetIdx, BudgetSlots
<1> QED
  BY <1>1, <1>2, Sizes DEF Seqs, NoSeq

LEMMA LeastMember ==
  ASSUME NEW T, T \subseteq Nat, T # {}
  PROVE  \E x \in T : \A y \in T : x <= y
<1> DEFINE R == OpToRel(<, Nat)
<1>1. IsWellFoundedOn(R, Nat)
  BY NatLessThanWellFounded
<1>2. \A x, y \in Nat : x < y => <<x, y>> \in R
  BY DEF OpToRel
<1> HIDE DEF R
<1>3. PICK x \in T : \A y \in T : ~(<<y, x>> \in R)
  BY <1>1, WFMin
<1>4. \A y \in T : ~(y < x)
  BY <1>2, <1>3
<1> QED
  BY <1>3, <1>4

-----------------------------------------------------------------------------
(* The parts of a message                                                  *)

Unit(m, n, k) == [msg |-> m, len |-> n, at |-> k]
Total(n) == MSG_HDR + n

LEMMA TextIs ==
  ASSUME NEW m, NEW n \in Nat
  PROVE  /\ DOMAIN Text(m, n) = 1..Total(n)
         /\ \A k \in 1..Total(n) : Text(m, n)[k] = Unit(m, n, k)
  BY DEF Text, Unit, Total

LEMMA UnitTyped ==
  ASSUME NEW m \in 1..MaxMsgs, NEW n \in BodyLens, NEW k \in Nat
  PROVE  Unit(m, n, k) \in Units
  BY DEF Unit, Units

LEMMA TextTyped ==
  ASSUME NEW m \in 1..MaxMsgs, NEW n \in BodyLens
  PROVE  /\ Text(m, n) \in Seq(Units) /\ Len(Text(m, n)) = Total(n)
         /\ \A k \in 1..Total(n) : Text(m, n)[k] = Unit(m, n, k)
<1>1. n \in Nat /\ Total(n) \in Nat
  BY Sizes DEF Total
<1>2. \A k \in 1..Total(n) : Text(m, n)[k] = Unit(m, n, k) /\ Unit(m, n, k) \in Units
  BY <1>1, TextIs, UnitTyped
<1>3. Text(m, n) = [i \in 1..Total(n) |-> Unit(m, n, i)]
  BY DEF Text, Unit, Total
<1>4. Text(m, n) \in [1..Total(n) -> Units]
  BY <1>2, <1>3
<1>5. Text(m, n) \in Seq(Units)
  BY <1>1, <1>4
<1>6. DOMAIN Text(m, n) = 1..Total(n)
  BY <1>4
<1>7. Len(Text(m, n)) = Total(n)
  BY <1>1, <1>5, <1>6
<1> QED
  BY <1>2, <1>5, <1>7

\* The units of a header; any message number, as a header may be misread.
LEMMA HeaderIs ==
  ASSUME NEW m \in 0..MaxMsgs, NEW n \in BodyLens
  PROVE  /\ Header(m, n) \in Seq([msg : {m}, len : {n}, at : Nat])
         /\ Len(Header(m, n)) = MSG_HDR
         /\ \A k \in 1..MSG_HDR : Header(m, n)[k] = Unit(m, n, k)
<1> DEFINE S == [msg : {m}, len : {n}, at : Nat]
<1>1. n \in Nat /\ MSG_HDR \in Nat \ {0}
  BY Sizes
<1>2. \A k \in 1..MSG_HDR : Text(m, n)[k] = Unit(m, n, k) /\ k \in Nat
  BY <1>1, TextIs DEF Total
<1>3. \A k \in Nat : Unit(m, n, k) \in S
  BY DEF Unit
<1>4. \A k \in 1..MSG_HDR : Text(m, n)[k] \in S
  BY <1>2, <1>3
<1> HIDE DEF S
<1>5. /\ SubSeq(Text(m, n), 1, MSG_HDR) \in Seq(S)
      /\ Len(SubSeq(Text(m, n), 1, MSG_HDR)) = MSG_HDR
      /\ \A k \in 1..(MSG_HDR - 1 + 1) : SubSeq(Text(m, n), 1, MSG_HDR)[k] = Text(m, n)[1 + k - 1]
  BY <1>1, <1>4, SubSeqProperties
<1>6. \A k \in 1..MSG_HDR : SubSeq(Text(m, n), 1, MSG_HDR)[k] = Unit(m, n, k)
  BY <1>1, <1>2, <1>5
<1> QED
  BY <1>5, <1>6 DEF Header, S

\* The units of a body.
LEMMA BodyIs ==
  ASSUME NEW m \in 0..MaxMsgs, NEW n \in BodyLens
  PROVE  /\ Body(m, n) \in Seq([msg : {m}, len : {n}, at : Nat])
         /\ Len(Body(m, n)) = n
         /\ \A k \in 1..n : Body(m, n)[k] = Unit(m, n, MSG_HDR + k)
<1> DEFINE S == [msg : {m}, len : {n}, at : Nat]
           b == SubSeq(Text(m, n), MSG_HDR + 1, MSG_HDR + n)
<1>1. n \in Nat /\ n >= 1 /\ MSG_HDR \in Nat \ {0}
  BY Sizes
<1>2. \A k \in (MSG_HDR + 1)..(MSG_HDR + n) : Text(m, n)[k] = Unit(m, n, k) /\ k \in Nat
  BY <1>1, TextIs DEF Total
<1>3. \A k \in Nat : Unit(m, n, k) \in S
  BY DEF Unit
<1>4. \A k \in (MSG_HDR + 1)..(MSG_HDR + n) : Text(m, n)[k] \in S
  BY <1>2, <1>3
<1> HIDE DEF S
<1>5. /\ b \in Seq(S) /\ Len(b) = n
      /\ \A k \in 1..(MSG_HDR + n - (MSG_HDR + 1) + 1) : b[k] = Text(m, n)[MSG_HDR + 1 + k - 1]
  BY <1>1, <1>4, SubSeqProperties
<1> HIDE DEF b
<1>6. \A k \in 1..n : b[k] = Unit(m, n, MSG_HDR + k)
  <2> TAKE k \in 1..n
  <2>1. b[k] = Text(m, n)[MSG_HDR + 1 + k - 1]
    BY <1>1, <1>5
  <2>2. MSG_HDR + 1 + k - 1 = MSG_HDR + k /\ MSG_HDR + k \in (MSG_HDR + 1)..(MSG_HDR + n)
    BY <1>1
  <2> QED
    BY <1>2, <2>1, <2>2
<1> QED
  BY <1>5, <1>6 DEF Body, S, b

LEMMA HeaderTyped ==
  ASSUME NEW m \in 1..MaxMsgs, NEW n \in BodyLens
  PROVE  Header(m, n) \in Seq(Units)
<1>1. m \in 0..MaxMsgs
  BY Sizes
<1>2. /\ Len(Header(m, n)) = MSG_HDR
      /\ \A k \in 1..MSG_HDR : Header(m, n)[k] = Unit(m, n, k)
      /\ Header(m, n) \in Seq([msg : {m}, len : {n}, at : Nat])
  BY <1>1, HeaderIs
<1>3. \A k \in 1..Len(Header(m, n)) : Header(m, n)[k] \in Units
  <2> TAKE k \in 1..Len(Header(m, n))
  <2>1. k \in Nat /\ Header(m, n)[k] = Unit(m, n, k)
    BY <1>2
  <2> QED
    BY <2>1, UnitTyped
<1> QED
  BY <1>2, <1>3

\* The units of the message before the frame a call is at, and after it.
Base(c) == IF c.merged \/ c.part = 0 THEN 0 ELSE MSG_HDR + c.part - 1
Full(c) == Base(c) + Len(Payload(c))

LEMMA PayloadIs ==
  ASSUME NEW c, c.msg \in 1..MaxMsgs, c.len \in BodyLens, c.part \in 0..c.len,
         c.merged => c.part = 0
  PROVE  /\ Payload(c) \in Seq(Units) /\ Len(Payload(c)) >= 1
         /\ Base(c) \in Nat /\ Full(c) \in Nat /\ Full(c) <= Total(c.len)
         /\ \A k \in 1..Len(Payload(c)) : Payload(c)[k] = Unit(c.msg, c.len, Base(c) + k)
         /\ LastPart(c) <=> Full(c) = Total(c.len)
         /\ ~LastPart(c) => Full(c) = MSG_HDR + c.part /\ c.part < c.len /\ ~c.merged
<1> USE Sizes
<1>a. c.len \in Nat \ {0}
  OBVIOUS
<1>0. c.len \in Nat /\ c.len >= 1 /\ Total(c.len) = MSG_HDR + c.len /\ c.part \in Nat
  BY <1>a DEF Total
<1>1. CASE c.merged
  <2>1. Payload(c) = Text(c.msg, c.len) /\ Base(c) = 0
    BY <1>1 DEF Payload, Base
  <2>2. /\ Text(c.msg, c.len) \in Seq(Units) /\ Len(Text(c.msg, c.len)) = Total(c.len)
        /\ \A k \in 1..Total(c.len) : Text(c.msg, c.len)[k] = Unit(c.msg, c.len, k)
    BY TextTyped
  <2> QED
    BY <1>0, <1>1, <2>1, <2>2 DEF Full, LastPart
<1>2. CASE ~c.merged /\ c.part = 0
  <2>1. Payload(c) = Header(c.msg, c.len) /\ Base(c) = 0
    BY <1>2 DEF Payload, Base
  <2>2. /\ Len(Header(c.msg, c.len)) = MSG_HDR
        /\ \A k \in 1..MSG_HDR : Header(c.msg, c.len)[k] = Unit(c.msg, c.len, k)
        /\ Header(c.msg, c.len) \in Seq([msg : {c.msg}, len : {c.len}, at : Nat])
    <3>1. c.msg \in 0..MaxMsgs
      OBVIOUS
    <3> QED
      BY <3>1, HeaderIs
  <2>3. Header(c.msg, c.len) \in Seq(Units)
    BY HeaderTyped
  <2>4. LastPart(c) <=> FALSE
    BY <1>0, <1>2 DEF LastPart
  <2> QED
    BY <1>0, <1>2, <2>1, <2>2, <2>3, <2>4 DEF Full
<1>3. CASE ~c.merged /\ c.part # 0
  <2>1. /\ Payload(c) = <<Text(c.msg, c.len)[MSG_HDR + c.part]>>
        /\ Base(c) = MSG_HDR + c.part - 1
    BY <1>3 DEF Payload, Base
  <2>2. MSG_HDR + c.part \in 1..Total(c.len)
    BY <1>0, <1>3
  <2>3. Text(c.msg, c.len)[MSG_HDR + c.part] = Unit(c.msg, c.len, MSG_HDR + c.part)
    BY <2>2, TextTyped
  <2>4. Unit(c.msg, c.len, MSG_HDR + c.part) \in Units
    BY <1>0, UnitTyped
  <2>5. /\ Payload(c) \in Seq(Units) /\ Len(Payload(c)) = 1
        /\ Payload(c)[1] = Unit(c.msg, c.len, MSG_HDR + c.part)
    BY <2>1, <2>3, <2>4
  <2>6. /\ Base(c) \in Nat /\ Base(c) + 1 = MSG_HDR + c.part /\ Full(c) = MSG_HDR + c.part
        /\ Full(c) \in Nat /\ Full(c) <= Total(c.len)
    BY <1>0, <1>3, <2>1, <2>5 DEF Full
  <2>7. \A k \in 1..Len(Payload(c)) : Payload(c)[k] = Unit(c.msg, c.len, Base(c) + k)
    BY <2>5, <2>6
  <2>8. LastPart(c) <=> c.part = c.len
    BY <1>3 DEF LastPart
  <2> QED
    BY <1>0, <1>3, <2>5, <2>6, <2>7, <2>8
<1> QED
  BY <1>1, <1>2, <1>3

\* The frame is a matter of the message and the part alone.
LEMMA SamePayload ==
  ASSUME NEW c, NEW d, d.msg = c.msg, d.len = c.len, d.merged = c.merged, d.part = c.part
  PROVE  Payload(d) = Payload(c) /\ Base(d) = Base(c) /\ Full(d) = Full(c)
  BY DEF Payload, Base, Full

LEMMA LinesTyped ==
  ASSUME NEW S, NEW q \in Seq(S)
  PROVE  /\ \A e \in Truncated(q) : e \in Seq(S) /\ Len(e) <= Len(q)
         /\ q # <<>> => Tail(q) \in Seq(S) /\ Len(Tail(q)) = Len(q) - 1 /\ Head(q) \in S
<1>1. ASSUME NEW k \in 0..Len(q)
      PROVE  SubSeq(q, 1, k) \in Seq(S) /\ Len(SubSeq(q, 1, k)) = k
  BY SubSeqProperties
<1> QED
  BY <1>1, HeadTailProperties DEF Truncated

\* What a prefix of a line holds.
LEMMA PrefixIs ==
  ASSUME NEW S, NEW q \in Seq(S), NEW e \in Truncated(q)
  PROVE  /\ e \in Seq(S) /\ Len(e) <= Len(q)
         /\ \A i \in 1..Len(e) : e[i] = q[i]
<1>1. PICK k \in 0..Len(q) : e = SubSeq(q, 1, k)
  BY DEF Truncated
<1>2. /\ SubSeq(q, 1, k) \in Seq(S) /\ Len(SubSeq(q, 1, k)) = k
      /\ \A i \in 1..(k - 1 + 1) : SubSeq(q, 1, k)[i] = q[1 + i - 1]
  BY SubSeqProperties
<1> QED
  BY <1>1, <1>2

-----------------------------------------------------------------------------
(* The calls                                                               *)

\* The call as it leaves a place: sent, or waiting for room in the ring.
SentCall(c, e) == [c EXCEPT !.phase = "wait", !.gen = e]
DrainCall(c) == [c EXCEPT !.phase = "drain"]
AgainCall(c, spent) == [c EXCEPT !.again = TRUE, !.spent = spent]
NextCall(c, s) == [c EXCEPT !.part = @ + 1, !.seq = s, !.again = FALSE, !.spent = NoSeq]
FirstCall(n, merged) ==
  [Idle EXCEPT !.msg = msgs + 1, !.len = n, !.merged = merged, !.seq = txSeq, !.sess = session]

LEMMA IdleCall == IsCall(Idle)
  BY DEF IsCall, CallFields, Idle

LEMMA SentCallIs ==
  ASSUME NEW c, IsCall(c), NEW e
  PROVE  LET d == SentCall(c, e)
         IN  /\ IsCall(d) /\ d.phase = "wait" /\ d.gen = e /\ d.msg = c.msg /\ d.len = c.len
             /\ d.merged = c.merged /\ d.part = c.part /\ d.seq = c.seq /\ d.again = c.again
             /\ d.sess = c.sess
  BY DEF IsCall, CallFields, SentCall

LEMMA DrainCallIs ==
  ASSUME NEW c, IsCall(c)
  PROVE  LET d == DrainCall(c)
         IN  /\ IsCall(d) /\ d.phase = "drain" /\ d.gen = c.gen /\ d.msg = c.msg
             /\ d.len = c.len /\ d.merged = c.merged /\ d.part = c.part /\ d.seq = c.seq
             /\ d.again = c.again /\ d.sess = c.sess
  BY DEF IsCall, CallFields, DrainCall

LEMMA AgainCallIs ==
  ASSUME NEW c, IsCall(c), NEW spent
  PROVE  LET d == AgainCall(c, spent)
         IN  /\ IsCall(d) /\ d.phase = c.phase /\ d.gen = c.gen /\ d.msg = c.msg
             /\ d.len = c.len /\ d.merged = c.merged /\ d.part = c.part /\ d.seq = c.seq
             /\ d.again = TRUE /\ d.sess = c.sess
  BY DEF IsCall, CallFields, AgainCall

LEMMA NextCallIs ==
  ASSUME NEW c, IsCall(c), NEW s
  PROVE  LET d == NextCall(c, s)
         IN  /\ IsCall(d) /\ d.phase = c.phase /\ d.gen = c.gen /\ d.msg = c.msg
             /\ d.len = c.len /\ d.merged = c.merged /\ d.part = c.part + 1 /\ d.seq = s
             /\ d.again = FALSE /\ d.sess = c.sess
  BY DEF IsCall, CallFields, NextCall

LEMMA FirstCallIs ==
  ASSUME NEW n, NEW merged \in BOOLEAN
  PROVE  LET d == FirstCall(n, merged)
         IN  /\ IsCall(d) /\ d.phase = "idle" /\ d.gen = 0 /\ d.msg = msgs + 1
             /\ d.len = n /\ d.merged = merged /\ d.part = 0 /\ d.seq = txSeq
             /\ d.again = FALSE /\ d.sess = session
  BY DEF IsCall, CallFields, FirstCall, Idle

\* A call that is ready to send.
Ready(c) ==
  /\ IsCall(c) /\ c.msg \in 1..MaxMsgs /\ c.len \in BodyLens
  /\ c.part \in 0..c.len /\ c.seq \in Seqs /\ (c.merged => c.part = 0)
  /\ c.gen \in Nat /\ c.sess \in Nat

LEMMA ReadyOK ==
  ASSUME NEW c, Ready(c), NEW e \in Nat
  PROVE  /\ CallOK(SentCall(c, e)) /\ CallOK(DrainCall(c))
         /\ Ready(SentCall(c, e)) /\ Ready(DrainCall(c))
         /\ Payload(c) \in Seq(Units)
<1>1. Payload(c) \in Seq(Units)
  BY PayloadIs DEF Ready
<1>2. CallOK(SentCall(c, e)) /\ Ready(SentCall(c, e))
  BY SentCallIs DEF Ready, CallOK
<1>3. CallOK(DrainCall(c)) /\ Ready(DrainCall(c))
  BY DrainCallIs DEF Ready, CallOK
<1> QED
  BY <1>1, <1>2, <1>3

LEMMA ActiveReady ==
  ASSUME CallOK(call), call.phase # "idle", NEW spent
  PROVE  Ready(call) /\ Ready(AgainCall(call, spent))
  BY AgainCallIs DEF CallOK, Ready

-----------------------------------------------------------------------------
(* Type correctness of the sender's steps                                  *)

LEMMA TransmitTypes ==
  ASSUME TypeInv, NEW c, Ready(c), Len(data) < RingCap, Transmit(c)
  PROVE  /\ txSeq' \in Seqs /\ pending' \subseteq BudgetSlots
         /\ nakWake' \in Seqs \cup {NoSeq} /\ CallOK(call') /\ DataTypes'
         /\ call' = SentCall(c, clearAllEpoch)
<1>1. call' = SentCall(c, clearAllEpoch)
  BY DEF Transmit, SentCall
<1>2. CallOK(call')
  BY <1>1, ReadyOK DEF TypeInv, SendTypes
<1>3. txSeq' \in Seqs /\ pending' \subseteq BudgetSlots /\ nakWake' \in Seqs \cup {NoSeq}
  BY SeqFacts DEF TypeInv, SendTypes, Transmit, Ready
<1>4. DataTypes'
  <2> DEFINE f == [seq |-> IF c.again THEN c.seq ELSE txSeq, bytes |-> Payload(c)]
  <2>1. Payload(c) \in Seq(Units)
    BY PayloadIs DEF Ready
  <2>2. (IF c.again THEN c.seq ELSE txSeq) \in Seqs
    BY DEF TypeInv, SendTypes, Ready
  <2>3. f \in DataFrames
    BY <2>1, <2>2 DEF DataFrames
  <2>4. data' = Append(data, f)
    BY DEF Transmit
  <2> HIDE DEF f
  <2>5. data' \in Seq(DataFrames) /\ Len(data') = Len(data) + 1
    BY <2>3, <2>4, AppendProperties DEF TypeInv, DataTypes
  <2> QED
    BY <2>5, Sizes DEF DataTypes, TypeInv
<1> QED
  BY <1>1, <1>2, <1>3, <1>4

LEMMA SendFrameTypes ==
  ASSUME TypeInv, NEW c, Ready(c), SendFrame(c)
  PROVE  /\ txSeq' \in Seqs /\ pending' \subseteq BudgetSlots
         /\ nakWake' \in Seqs \cup {NoSeq} /\ CallOK(call') /\ DataTypes'
<1>1. CASE Len(data) < RingCap /\ Transmit(c)
  BY <1>1, TransmitTypes
<1>2. CASE /\ Len(data) >= RingCap /\ call' = [c EXCEPT !.phase = "drain"]
           /\ UNCHANGED <<data, txSeq, pending, nakWake, taint>>
  <2>1. CallOK(call')
    BY <1>2, ReadyOK DEF DrainCall
  <2> QED
    BY <1>2, <2>1 DEF TypeInv, SendTypes, DataTypes
<1> QED
  BY <1>1, <1>2 DEF SendFrame

LEMMA WipeTypes ==
  ASSUME TypeInv, SenderWipe
  PROVE  /\ sState' \in {"OK", "SWP"} /\ txSeq' \in Seqs /\ pending' \subseteq BudgetSlots
         /\ clearAllEpoch' \in Nat /\ DataTypes'
<1>1. DataTypes'
  <2>1. data' \in Truncated(data)
    BY DEF SenderWipe
  <2>2. data' \in Seq(DataFrames) /\ Len(data') <= Len(data)
    BY <2>1, LinesTyped DEF TypeInv, DataTypes
  <2> QED
    BY <2>2, Sizes DEF TypeInv, DataTypes
<1> QED
  BY <1>1, SeqFacts DEF SenderWipe, TypeInv, SendTypes

LEMMA IdleOK == CallOK(Idle)
  BY IdleCall, SeqFacts DEF CallOK, Idle

LEMMA GiveUpTypes ==
  ASSUME TypeInv, NEW c, NEW clear, GiveUp(c, clear)
  PROVE  /\ sState' \in {"OK", "SWP"} /\ txSeq' \in Seqs /\ pending' \subseteq BudgetSlots
         /\ clearAllEpoch' \in Nat /\ DataTypes' /\ CallOK(call') /\ call' = Idle
<1>1. call' = Idle /\ CallOK(call')
  BY IdleOK DEF GiveUp
<1>2. CASE SenderWipe
  BY <1>1, <1>2, WipeTypes
<1>3. CASE pending' = pending \ clear /\ UNCHANGED <<sState, txSeq, clearAllEpoch, data>>
  BY <1>1, <1>3 DEF TypeInv, SendTypes, DataTypes
<1> QED
  BY <1>2, <1>3 DEF GiveUp

LEMMA RtoTypes ==
  ASSUME TypeInv, call.phase # "idle", NEW dt, NEW clear, RtoStep(dt, clear)
  PROVE  SendTypes' /\ CallOK(call') /\ DataTypes'
<1> DEFINE c == AgainCall(call, Spent(call, dt))
<1>1. Ready(c)
  BY ActiveReady DEF TypeInv
<1>2. c = [call EXCEPT !.again = TRUE, !.spent = Spent(call, dt)]
  BY DEF AgainCall
<1> HIDE DEF c
<1>3. \/ GiveUp(call, clear) /\ UNCHANGED nakWake
      \/ /\ Len(data) < RingCap /\ Transmit(c)
         /\ UNCHANGED <<sState, clearAllEpoch>>
      \/ /\ call' = [c EXCEPT !.phase = "drain"] /\ pending' = pending \ clear
         /\ UNCHANGED <<data, txSeq, nakWake, taint>> /\ UNCHANGED <<sState, clearAllEpoch>>
  BY <1>2 DEF RtoStep
<1>4. CASE GiveUp(call, clear) /\ UNCHANGED nakWake
  BY <1>4, GiveUpTypes DEF TypeInv, SendTypes
<1>5. CASE /\ Len(data) < RingCap /\ Transmit(c)
           /\ UNCHANGED <<sState, clearAllEpoch>>
  BY <1>1, <1>5, TransmitTypes DEF TypeInv, SendTypes
<1>6. CASE /\ call' = [c EXCEPT !.phase = "drain"] /\ pending' = pending \ clear
           /\ UNCHANGED <<data, txSeq, nakWake, taint>> /\ UNCHANGED <<sState, clearAllEpoch>>
  <2>1. CallOK(call')
    BY <1>1, <1>6, ReadyOK DEF DrainCall
  <2> QED
    BY <1>6, <2>1 DEF TypeInv, SendTypes, DataTypes
<1> QED
  BY <1>3, <1>4, <1>5, <1>6

LEMMA CallTypes ==
  ASSUME TypeInv, CallNext
  PROVE  SendTypes' /\ CallOK(call') /\ DataTypes' /\ confirmed' \subseteq 1..MaxMsgs
<1>1. CASE FrameAcked
  <2>1. call.phase # "idle"
    BY <1>1 DEF FrameAcked, Waiting
  <2>2. confirmed' \subseteq 1..MaxMsgs
    BY <1>1, <2>1 DEF FrameAcked, TypeInv, HistTypes, CallOK
  <2>3. UNCHANGED <<sState, clearAllEpoch>>
    BY <1>1 DEF FrameAcked
  <2>4. CASE call' = Idle /\ UNCHANGED <<txSeq, pending, nakWake, data, taint>>
    BY <2>2, <2>3, <2>4, IdleOK DEF TypeInv, SendTypes, DataTypes
  <2>5. CASE ~LastPart(call) /\ SendFrame(NextCall(call, txSeq))
    <3> DEFINE d == NextCall(call, txSeq)
    <3>1. /\ IsCall(d) /\ d.gen = call.gen /\ d.msg = call.msg /\ d.len = call.len
          /\ d.merged = call.merged /\ d.part = call.part + 1 /\ d.seq = txSeq
          /\ d.sess = call.sess
      BY NextCallIs, ZenonT(30) DEF TypeInv, CallOK
    <3> HIDE DEF d
    <3>2. call.part < call.len /\ ~call.merged
      BY <2>1, <2>5, PayloadIs DEF TypeInv, CallOK
    <3>3. call.len \in Nat
      BY <2>1, Sizes DEF TypeInv, CallOK
    <3>4. Ready(d)
      BY <2>1, <3>1, <3>2, <3>3 DEF Ready, TypeInv, CallOK, SendTypes
    <3> QED
      BY <2>2, <2>3, <2>5, <3>4, SendFrameTypes DEF d, TypeInv, SendTypes
  <2> QED
    BY <1>1, <2>4, <2>5 DEF FrameAcked, NextCall
<1>2. CASE WaitReset \/ WaitNak \/ WaitTimeout
  <2>1. call.phase # "idle" /\ confirmed' = confirmed
    BY <1>2 DEF WaitReset, WaitNak, WaitTimeout, Waiting
  <2>2. SendTypes' /\ CallOK(call') /\ DataTypes'
    BY <1>2, <2>1, RtoTypes DEF WaitReset, WaitNak, WaitTimeout
  <2> QED
    BY <2>1, <2>2 DEF TypeInv, HistTypes
<1>3. CASE Drain
  <2>1. call.phase # "idle" /\ confirmed' = confirmed
    BY <1>3 DEF Drain
  <2>2. Ready(call)
    BY <2>1, ActiveReady DEF TypeInv
  <2>3. CASE Len(data) < RingCap /\ Transmit(call) /\ UNCHANGED <<sState, clearAllEpoch>>
    BY <2>1, <2>2, <2>3, TransmitTypes DEF TypeInv, SendTypes, HistTypes
  <2>4. CASE GiveUp(call, {}) /\ UNCHANGED nakWake
    BY <2>1, <2>4, GiveUpTypes DEF TypeInv, SendTypes, HistTypes
  <2>5. CASE call' = Idle /\ UNCHANGED <<sState, txSeq, pending, clearAllEpoch, data, nakWake>>
    BY <2>1, <2>5, IdleOK DEF TypeInv, SendTypes, DataTypes, HistTypes
  <2> QED
    BY <1>3, <2>3, <2>4, <2>5 DEF Drain
<1> QED
  BY <1>1, <1>2, <1>3 DEF CallNext

-----------------------------------------------------------------------------
(* Type correctness of the receiver's steps                                *)

LEMMA ReplyTypes ==
  ASSUME CtrlTypes, NEW type \in {"ACK", "NAK"}, NEW s \in Seqs, Reply(type, s)
  PROVE  CtrlTypes'
<1>1. [type |-> type, seq |-> s] \in CtrlFrames
  BY DEF CtrlFrames
<1>2. /\ Append(ctrl, [type |-> type, seq |-> s]) \in Seq(CtrlFrames)
      /\ Len(Append(ctrl, [type |-> type, seq |-> s])) = Len(ctrl) + 1
  BY <1>1, AppendProperties DEF CtrlTypes
<1> QED
  BY <1>2, Sizes DEF CtrlTypes, Reply

\* What the head of a data line is.
LEMMA FrameTyped ==
  ASSUME TypeInv, data # <<>>
  PROVE  /\ frame \in DataFrames /\ frame = data[1] /\ frame.seq \in Seqs
         /\ frame.bytes \in Seq(Units) /\ Tail(data) \in Seq(DataFrames)
         /\ Len(Tail(data)) = Len(data) - 1 /\ Len(data) \in Nat \ {0}
         /\ Len(Tail(data)) <= RingCap
         /\ \A i \in 1..Len(Tail(data)) : Tail(data)[i] = data[i + 1]
<1>1. data \in Seq(DataFrames) /\ Len(data) <= RingCap
  BY DEF TypeInv, DataTypes
<1>2. /\ Head(data) \in DataFrames /\ Tail(data) \in Seq(DataFrames)
      /\ Len(Tail(data)) = Len(data) - 1
      /\ \A i \in 1..Len(Tail(data)) : Tail(data)[i] = data[i + 1]
  BY <1>1, HeadTailProperties
<1>3. Head(data) = data[1] /\ Len(data) \in Nat \ {0}
  BY <1>1
<1> QED
  BY <1>1, <1>2, <1>3, Sizes DEF frame, DataFrames

LEMMA AppendedTypes ==
  ASSUME TypeInv, data # <<>>, fits
  PROVE  /\ appBuf \o frame.bytes \in Seq(Units)
         /\ Len(appBuf \o frame.bytes) <= AppCap
<1>1. appBuf \in Seq(Units) /\ frame.bytes \in Seq(Units)
  BY FrameTyped DEF TypeInv, BufTypes
<1>2. /\ appBuf \o frame.bytes \in Seq(Units)
      /\ Len(appBuf \o frame.bytes) = Len(appBuf) + Len(frame.bytes)
  BY <1>1, ConcatProperties
<1>3. Len(appBuf) \in Nat /\ Len(frame.bytes) \in Nat
  BY <1>1
<1> QED
  BY <1>2, <1>3, Sizes DEF fits, appFree

LEMMA ReceiveTypes ==
  ASSUME TypeInv,
         ReceiveSweeping \/ ReceiveStale \/ ReceiveGap \/ ReceiveHeld \/ ReceiveForward
  PROVE  TypeInv'
<1>0. /\ data # <<>> /\ data' = Tail(data)
      /\ UNCHANGED <<sender, rState, msgRx, errDue, got, world, confirmed>>
  BY DEF ReceiveSweeping, ReceiveStale, ReceiveGap, ReceiveHeld, ReceiveForward, Receive,
         receiver
<1>1. DataTypes'
  BY <1>0, FrameTyped DEF DataTypes
<1>2. SendTypes' /\ CallOK(call)' /\ MsgRxTypes' /\ HistTypes'
  <2>1. SendTypes'
    BY <1>0 DEF TypeInv, SendTypes, sender
  <2>2. call' = call
    BY <1>0 DEF sender
  <2>3. MsgRxTypes' /\ HistTypes'
    BY <1>0 DEF TypeInv, MsgRxTypes, HistTypes, world, sender
  <2> QED
    BY <2>1, <2>2, <2>3 DEF TypeInv
<1>3. CtrlTypes'
  <2>1. frame.seq \in Seqs /\ CtrlTypes
    BY <1>0, FrameTyped DEF TypeInv
  <2>2. \/ UNCHANGED ctrl \/ Reply("ACK", frame.seq) \/ Reply("NAK", frame.seq)
    BY DEF ReceiveSweeping, ReceiveStale, ReceiveGap, ReceiveHeld, ReceiveForward
  <2>3. CASE UNCHANGED ctrl
    BY <2>1, <2>3 DEF CtrlTypes
  <2> QED
    BY <2>1, <2>2, <2>3, ReplyTypes
<1>4. BufTypes'
  <2>1. UNCHANGED appBuf \/ (fits /\ appBuf' = appBuf \o frame.bytes)
    BY DEF ReceiveSweeping, ReceiveStale, ReceiveGap, ReceiveHeld, ReceiveForward, receiver
  <2>2. CASE UNCHANGED appBuf
    BY <2>2 DEF TypeInv, BufTypes
  <2> QED
    BY <1>0, <2>1, <2>2, AppendedTypes DEF BufTypes
<1>5. RecvTypes'
  <2>1. \/ UNCHANGED <<rxSeq, rxSeqSet, errs>>
        \/ rxSeq' = frame.seq /\ rxSeqSet' = TRUE /\ errs' = 0
    BY DEF ReceiveSweeping, ReceiveStale, ReceiveGap, ReceiveHeld, ReceiveForward, receiver
  <2>2. frame.seq \in Seqs /\ 0 \in 0..errThreshold
    BY <1>0, FrameTyped, Sizes
  <2>3. rxSeq' \in Seqs /\ errs' \in 0..errThreshold
    BY <2>1, <2>2 DEF TypeInv, RecvTypes
  <2>4. rxSeqSet' \in BOOLEAN
    BY <2>1, Zenon DEF TypeInv, RecvTypes
  <2> QED
    BY <1>0, <2>3, <2>4 DEF TypeInv, RecvTypes
<1> QED
  BY <1>1, <1>2, <1>3, <1>4, <1>5 DEF TypeInv

\* A stretch of the buffer is a sequence of units.
LEMMA StretchTyped ==
  ASSUME NEW b \in Seq(Units), NEW m \in 1..(Len(b) + 1), NEW n \in 0..Len(b)
  PROVE  /\ SubSeq(b, m, n) \in Seq(Units)
         /\ Len(SubSeq(b, m, n)) = IF m <= n THEN n - m + 1 ELSE 0
<1>1. \A i \in m..n : b[i] \in Units
  OBVIOUS
<1> QED
  BY <1>1, SubSeqProperties

LEMMA DropTyped ==
  ASSUME NEW b \in Seq(Units), NEW n \in 0..Len(b)
  PROVE  /\ SubSeq(b, n + 1, Len(b)) \in Seq(Units)
         /\ Len(SubSeq(b, n + 1, Len(b))) = Len(b) - n
<1>1. n + 1 \in 1..(Len(b) + 1) /\ Len(b) \in 0..Len(b)
  OBVIOUS
<1> QED
  BY <1>1, StretchTyped

\* findMsgHeaderResync_unlocked never lengthens the buffer.
LEMMA ResyncTyped ==
  ASSUME NEW b \in Seq(Units)
  PROVE  Resync(b) \in Seq(Units) /\ Len(Resync(b)) <= Len(b)
<1> DEFINE n == IF ScanMax + MSG_HDR < Len(b) THEN ScanMax + MSG_HDR ELSE Len(b)
           e == SubSeq(b, 1, n)
           d == msgResyncScan(e)
<1>1. n \in 0..Len(b)
  BY Sizes
<1>2. e \in Seq(Units) /\ Len(e) = n
  <2>1. 1 \in 1..(Len(b) + 1)
    OBVIOUS
  <2> HIDE DEF n
  <2> QED
    BY <1>1, <2>1, StretchTyped
<1> HIDE DEF e, n
<1>3. d = 0 \/ d \in 1..n
  <2> DEFINE T == {x \in 1..Len(e) : FullAt(e, x)}
  <2>1. T \subseteq Nat
    OBVIOUS
  <2>2. d = IF T = {} THEN 0 ELSE CHOOSE x \in T : \A y \in T : x <= y
    BY DEF msgResyncScan
  <2>3. T # {} => \E x \in T : \A y \in T : x <= y
    BY <2>1, LeastMember
  <2> QED
    BY <1>2, <2>2, <2>3
<1> HIDE DEF d
<1>4. /\ Len(b) < MSG_HDR => Resync(b) = b
      /\ Len(b) >= MSG_HDR /\ d = 0 => Resync(b) = <<>>
      /\ Len(b) >= MSG_HDR /\ d # 0 =>
           Resync(b) = SubSeq(b, n + 1, Len(b)) \o SubSeq(b, d, n)
  <2>1. Len(b) \in Nat /\ MSG_HDR \in Nat
    BY Sizes
  <2>2. Resync(b) = CASE Len(b) < MSG_HDR -> b
                      [] Len(b) >= MSG_HDR /\ d = 0 -> <<>>
                      [] OTHER -> SubSeq(b, n + 1, Len(b)) \o SubSeq(b, d, n)
    BY DEF Resync, n, e, d
  <2>3. CASE Len(b) < MSG_HDR
    <3>1. ~(Len(b) >= MSG_HDR)
      BY <2>1, <2>3
    <3> QED
      BY <2>2, <2>3, <3>1, Zenon
  <2>4. CASE Len(b) >= MSG_HDR
    <3>1. ~(Len(b) < MSG_HDR)
      BY <2>1, <2>4
    <3> QED
      BY <2>2, <2>4, <3>1, Zenon
  <2> QED
    BY <2>1, <2>3, <2>4
<1>5. ASSUME d # 0
      PROVE  /\ SubSeq(b, n + 1, Len(b)) \o SubSeq(b, d, n) \in Seq(Units)
             /\ Len(SubSeq(b, n + 1, Len(b)) \o SubSeq(b, d, n)) <= Len(b)
  <2>1. /\ SubSeq(b, n + 1, Len(b)) \in Seq(Units)
        /\ Len(SubSeq(b, n + 1, Len(b))) = Len(b) - n
    BY <1>1, DropTyped
  <2>2. SubSeq(b, d, n) \in Seq(Units) /\ Len(SubSeq(b, d, n)) = n - d + 1
    BY <1>1, <1>3, <1>5, StretchTyped
  <2>3. /\ SubSeq(b, n + 1, Len(b)) \o SubSeq(b, d, n) \in Seq(Units)
        /\ Len(SubSeq(b, n + 1, Len(b)) \o SubSeq(b, d, n)) = (Len(b) - n) + (n - d + 1)
    BY <2>1, <2>2, ConcatProperties
  <2> QED
    BY <1>1, <1>3, <1>5, <2>3
<1>6. Len(b) \in Nat /\ MSG_HDR \in Nat /\ <<>> \in Seq(Units) /\ Len(<<>>) = 0
  BY Sizes
<1>7. CASE Len(b) < MSG_HDR
  BY <1>4, <1>6, <1>7
<1>8. CASE Len(b) >= MSG_HDR /\ d = 0
  <2>1. Resync(b) = <<>>
    BY <1>4, <1>8
  <2> QED
    BY <1>6, <2>1
<1>9. CASE Len(b) >= MSG_HDR /\ d # 0
  <2>1. Resync(b) = SubSeq(b, n + 1, Len(b)) \o SubSeq(b, d, n)
    BY <1>4, <1>9
  <2> QED
    BY <1>5, <1>9, <2>1
<1> QED
  BY <1>6, <1>7, <1>8, <1>9

\* The steps of the receiving app's task.
LEMMA AppTypes ==
  ASSUME TypeInv, AppStep,
         BufTypes', MsgRxTypes', errDue' \in BOOLEAN, got' \in Seq(1..MaxMsgs)
  PROVE  TypeInv'
<1>1. UNCHANGED <<sState, txSeq, pending, nakWake, clearAllEpoch, call, msgs>>
      /\ UNCHANGED <<rState, rxSeq, rxSeqSet, errs, data, ctrl, session, confirmed>>
  BY DEF AppStep, sender, world
<1>2. SendTypes' /\ DataTypes' /\ CtrlTypes' /\ HistTypes'
  BY <1>1 DEF TypeInv, SendTypes, DataTypes, CtrlTypes, HistTypes
<1>3. RecvTypes'
  BY <1>1 DEF TypeInv, RecvTypes
<1>4. CallOK(call')
  BY <1>1 DEF TypeInv
<1> QED
  BY <1>2, <1>3, <1>4 DEF TypeInv

\* A unit's message is a message that was sent.
LEMMA UnitOf ==
  ASSUME NEW b \in Seq(Units), NEW i \in 1..Len(b)
  PROVE  b[i].msg \in 1..MaxMsgs /\ b[i].len \in BodyLens /\ b[i].at \in Nat
<1>1. b[i] \in Units
  OBVIOUS
<1> QED
  BY <1>1 DEF Units

\* A body that is complete is taken out.
LEMMA TakeBodyTypes ==
  ASSUME TypeInv, AppStep, NEW b \in Seq(Units), Len(b) <= AppCap, NEW h,
         h.len \in BodyLens, h.msg \in 0..MaxMsgs, Len(b) >= h.len, TakeBody(h, b)
  PROVE  TypeInv'
<1>0. got \in Seq(1..MaxMsgs) /\ AppCap \in Nat /\ Len(b) \in Nat /\ h.len \in Nat \ {0}
  <2>1. got \in Seq(1..MaxMsgs)
    BY DEF TypeInv, HistTypes
  <2>2. h.len \in Nat \ {0} /\ AppCap \in Nat
    BY Sizes
  <2> QED
    BY <2>1, <2>2
<1>a. TRUE \in BOOLEAN /\ errDue \in BOOLEAN
  BY Zenon DEF TypeInv, RecvTypes
<1>1. /\ appBuf' = SubSeq(b, h.len + 1, Len(b)) /\ msgRx' = NoMsg
      /\ \/ SubSeq(b, 1, h.len) = Body(h.msg, h.len)
            /\ got' = Append(got, h.msg) /\ errDue' = errDue
         \/ errDue' = TRUE /\ got' = got
  BY DEF TakeBody
<1>2. BufTypes'
  <2>1. h.len \in 0..Len(b)
    BY <1>0
  <2>2. /\ SubSeq(b, h.len + 1, Len(b)) \in Seq(Units)
        /\ Len(SubSeq(b, h.len + 1, Len(b))) = Len(b) - h.len
    BY <2>1, DropTyped
  <2> QED
    BY <1>0, <1>1, <2>2 DEF BufTypes
<1>3. MsgRxTypes'
  BY <1>1 DEF MsgRxTypes
<1>4. errDue' \in BOOLEAN
  BY <1>a, <1>1, Zenon
<1>5. got' \in Seq(1..MaxMsgs)
  <2>1. CASE SubSeq(b, 1, h.len) = Body(h.msg, h.len) /\ got' = Append(got, h.msg)
    <3>1. SubSeq(b, 1, h.len)[1] = b[1]
      BY <1>0
    <3>2. Body(h.msg, h.len)[1] = Unit(h.msg, h.len, MSG_HDR + 1)
      <4>1. \A k \in 1..h.len : Body(h.msg, h.len)[k] = Unit(h.msg, h.len, MSG_HDR + k)
        BY BodyIs
      <4> QED
        BY <1>0, <4>1
    <3>3. b[1] = Unit(h.msg, h.len, MSG_HDR + 1)
      BY <2>1, <3>1, <3>2, Zenon
    <3>4. b[1].msg = h.msg
      BY <3>3 DEF Unit
    <3>5. 1 \in 1..Len(b)
      BY <1>0
    <3>6. h.msg \in 1..MaxMsgs
      BY <3>4, <3>5, UnitOf
    <3> QED
      BY <1>0, <2>1, <3>6, AppendProperties
  <2> QED
    BY <1>0, <1>1, <2>1
<1> QED
  BY <1>2, <1>3, <1>4, <1>5, AppTypes

LEMMA RecvTypesKept ==
  ASSUME TypeInv, RecvStale \/ RecvBadHeader \/ (\E n \in BodyLens : RecvHeader(n)) \/ RecvBody
  PROVE  TypeInv'
<1>0. appBuf \in Seq(Units) /\ Len(appBuf) <= AppCap /\ Len(appBuf) \in Nat
      /\ AppCap \in Nat /\ MSG_HDR \in Nat \ {0} /\ got \in Seq(1..MaxMsgs)
  BY Sizes DEF TypeInv, BufTypes, HistTypes
<1>a. TRUE \in BOOLEAN /\ errDue \in BOOLEAN
  BY Zenon DEF TypeInv, RecvTypes
<1>1. CASE RecvStale
  <2>1. appBuf' = Resync(appBuf) /\ msgRx' = NoMsg /\ errDue' = TRUE /\ got' = got /\ AppStep
    BY <1>1 DEF RecvStale
  <2>2. BufTypes'
    BY <1>0, <2>1, ResyncTyped DEF BufTypes
  <2>3. MsgRxTypes'
    BY <2>1 DEF MsgRxTypes
  <2>4. errDue' \in BOOLEAN
    BY <1>a, <2>1, Zenon
  <2> QED
    BY <1>0, <2>1, <2>2, <2>3, <2>4, AppTypes
<1>2. CASE RecvBadHeader
  <2>1. /\ appBuf' = Resync(Drop(MSG_HDR)) /\ msgRx' = msgRx /\ errDue' = TRUE /\ got' = got
        /\ AppStep /\ Len(appBuf) >= MSG_HDR
    BY <1>2 DEF RecvBadHeader
  <2>2. Drop(MSG_HDR) \in Seq(Units) /\ Len(Drop(MSG_HDR)) = Len(appBuf) - MSG_HDR
    BY <1>0, <2>1, DropTyped DEF Drop
  <2>3. Resync(Drop(MSG_HDR)) \in Seq(Units) /\ Len(Resync(Drop(MSG_HDR))) <= Len(Drop(MSG_HDR))
    BY <2>2, ResyncTyped
  <2>4. Len(Resync(Drop(MSG_HDR))) \in Nat
    BY <2>3
  <2>5. BufTypes'
    BY <1>0, <2>1, <2>2, <2>3, <2>4 DEF BufTypes
  <2>6. MsgRxTypes'
    BY <2>1 DEF MsgRxTypes, TypeInv
  <2>7. errDue' \in BOOLEAN
    BY <1>a, <2>1, Zenon
  <2> QED
    BY <1>0, <2>1, <2>5, <2>6, <2>7, AppTypes
<1>3. ASSUME NEW n \in BodyLens, RecvHeader(n)
      PROVE  TypeInv'
  <2> DEFINE h == [msg |-> IF AtHeader THEN appBuf[1].msg ELSE 0, len |-> n]
  <2>1. AppStep /\ Len(appBuf) >= MSG_HDR
    BY <1>3 DEF RecvHeader
  <2>2. Drop(MSG_HDR) \in Seq(Units) /\ Len(Drop(MSG_HDR)) = Len(appBuf) - MSG_HDR
    BY <1>0, <2>1, DropTyped DEF Drop
  <2>3. 1 \in 1..Len(appBuf)
    BY <1>0, <2>1
  <2>4. appBuf[1].msg \in 0..MaxMsgs /\ 0 \in 0..MaxMsgs
    BY <1>0, <2>3, UnitOf, Sizes
  <2>5. h.msg \in 0..MaxMsgs /\ h.len = n
    BY <2>4
  <2>6. \/ msgRx' = h /\ appBuf' = Drop(MSG_HDR) /\ errDue' = errDue /\ got' = got
        \/ Len(Drop(MSG_HDR)) >= n /\ TakeBody(h, Drop(MSG_HDR))
    BY <1>3 DEF RecvHeader
  <2>7. CASE msgRx' = h /\ appBuf' = Drop(MSG_HDR) /\ errDue' = errDue /\ got' = got
    <3>1. BufTypes'
      BY <1>0, <2>2, <2>7 DEF BufTypes
    <3>2. MsgRxTypes'
      BY <2>5, <2>7 DEF MsgRxTypes
    <3>3. errDue' \in BOOLEAN
      BY <1>a, <2>7, Zenon
    <3> QED
      BY <1>0, <2>1, <2>7, <3>1, <3>2, <3>3, AppTypes
  <2> HIDE DEF h
  <2>8. CASE Len(Drop(MSG_HDR)) >= n /\ TakeBody(h, Drop(MSG_HDR))
    <3>1. Len(Drop(MSG_HDR)) <= AppCap /\ h.len \in BodyLens
      BY <1>0, <2>2, <2>5
    <3> QED
      BY <2>1, <2>2, <2>5, <2>8, <3>1, TakeBodyTypes
  <2> QED
    BY <2>6, <2>7, <2>8
<1>4. CASE RecvBody
  <2>1. AppStep /\ msgRx # NoMsg /\ Len(appBuf) >= msgRx.len /\ TakeBody(msgRx, appBuf)
    BY <1>4 DEF RecvBody
  <2>2. msgRx.len \in BodyLens /\ msgRx.msg \in 0..MaxMsgs
    BY <2>1 DEF TypeInv, MsgRxTypes
  <2> QED
    BY <1>0, <2>1, <2>2, TakeBodyTypes
<1> QED
  BY <1>1, <1>2, <1>3, <1>4

\* reset_unlocked on the receiver's board.
LEMMA ReceiverWipeTypes ==
  ASSUME TypeInv, ReceiverWipe, errDue' \in BOOLEAN,
         UNCHANGED <<sender, got, data, world, losses, confirmed>>
  PROVE  TypeInv'
<1>1. /\ UNCHANGED <<sState, txSeq, pending, nakWake, clearAllEpoch, call, msgs>>
      /\ UNCHANGED <<got, data, session, confirmed>>
      /\ rState' = "SWP" /\ rxSeq' = 0 /\ errs' = 0 /\ appBuf' = <<>> /\ msgRx' = NoMsg
      /\ ctrl' \in Truncated(ctrl)
  BY DEF ReceiverWipe, sender, world
<1>2. SendTypes' /\ DataTypes' /\ HistTypes'
  BY <1>1 DEF TypeInv, SendTypes, DataTypes, HistTypes
<1>3. rxSeqSet' \in BOOLEAN
  BY Zenon DEF ReceiverWipe
<1>4. RecvTypes'
  BY <1>1, <1>3, SeqFacts, Sizes DEF RecvTypes
<1>5. BufTypes'
  <2>1. <<>> \in Seq(Units) /\ Len(<<>>) = 0
    OBVIOUS
  <2> QED
    BY <1>1, <2>1, Sizes DEF BufTypes
<1>6. MsgRxTypes'
  BY <1>1 DEF MsgRxTypes
<1>7. CtrlTypes'
  <2>1. ctrl' \in Seq(CtrlFrames) /\ Len(ctrl') <= Len(ctrl)
    BY <1>1, LinesTyped DEF TypeInv, CtrlTypes
  <2> QED
    BY <2>1, Sizes DEF TypeInv, CtrlTypes
<1>8. CallOK(call')
  BY <1>1 DEF TypeInv
<1> QED
  BY <1>2, <1>4, <1>5, <1>6, <1>7, <1>8 DEF TypeInv

LEMMA ErrTypes ==
  ASSUME TypeInv, Err
  PROVE  TypeInv'
<1>0. errDue' \in BOOLEAN
  BY Zenon DEF Err
<1>1. CASE ErrsExceeded /\ ReceiverWipe
  BY <1>0, <1>1, ReceiverWipeTypes DEF Err
<1>2. CASE /\ ~ErrsExceeded /\ errs' = IF rState = "OK" THEN errs + 1 ELSE errs
           /\ UNCHANGED <<rState, rxSeq, rxSeqSet, hold, appBuf, msgRx, ctrl>>
  <2>1. /\ UNCHANGED <<sState, txSeq, pending, nakWake, clearAllEpoch, call, msgs>>
        /\ UNCHANGED <<got, data, session, confirmed, appBuf, msgRx, ctrl>>
    BY <1>2 DEF Err, sender, world
  <2>2. SendTypes' /\ DataTypes' /\ HistTypes' /\ CtrlTypes' /\ BufTypes' /\ MsgRxTypes'
    BY <2>1 DEF TypeInv, SendTypes, DataTypes, HistTypes, CtrlTypes, BufTypes, MsgRxTypes
  <2>3. errs' \in 0..errThreshold
    BY <1>2, Sizes DEF TypeInv, RecvTypes, ErrsExceeded
  <2>4. RecvTypes'
    BY <1>0, <1>2, <2>3 DEF TypeInv, RecvTypes
  <2> QED
    BY <2>1, <2>2, <2>4 DEF TypeInv
<1> QED
  BY <1>1, <1>2 DEF Err

LEMMA FirstReady ==
  ASSUME TypeInv, NEW n \in BodyLens, NEW merged \in BOOLEAN, SendMsg(n, merged)
  PROVE  Ready(FirstCall(n, merged))
<1>0. msgs < MaxMsgs
  BY DEF SendMsg
<1>1. n \in Nat \ {0}
  BY Sizes
<1>2. msgs + 1 \in 1..MaxMsgs /\ 0 \in 0..n
  BY <1>0, <1>1, Sizes DEF TypeInv, HistTypes
<1> DEFINE d == FirstCall(n, merged)
<1>3. /\ IsCall(d) /\ d.gen = 0 /\ d.msg = msgs + 1 /\ d.len = n /\ d.part = 0
      /\ d.seq = txSeq /\ d.sess = session
  BY FirstCallIs, Zenon
<1>4. txSeq \in Seqs /\ session \in Nat
  BY DEF TypeInv, SendTypes, HistTypes
<1> HIDE DEF d
<1>5. Ready(d)
  BY <1>2, <1>3, <1>4 DEF Ready
<1> QED
  BY <1>5 DEF d

LEMMA SendMsgTypes ==
  ASSUME TypeInv, NEW n \in BodyLens, NEW merged \in BOOLEAN, SendMsg(n, merged)
  PROVE  TypeInv'
<1>1. /\ SendFrame(FirstCall(n, merged)) /\ msgs < MaxMsgs /\ msgs' = msgs + 1
      /\ (merged => n = 1)
      /\ UNCHANGED <<sState, clearAllEpoch, receiver, ctrl, world, losses, confirmed>>
  BY DEF SendMsg, FirstCall
<1>2. Ready(FirstCall(n, merged))
  BY FirstReady
<1>3. /\ txSeq' \in Seqs /\ pending' \subseteq BudgetSlots
      /\ nakWake' \in Seqs \cup {NoSeq} /\ CallOK(call') /\ DataTypes'
  BY <1>1, <1>2, SendFrameTypes
<1>4. SendTypes'
  BY <1>1, <1>3 DEF TypeInv, SendTypes
<1>5. UNCHANGED <<rState, rxSeq, rxSeqSet, errs, errDue, appBuf, msgRx, got, ctrl, session,
                  confirmed>>
  BY <1>1 DEF receiver, world
<1>6. RecvTypes'
  BY <1>5 DEF TypeInv, RecvTypes
<1>7. BufTypes' /\ MsgRxTypes' /\ CtrlTypes'
  BY <1>5 DEF TypeInv, BufTypes, MsgRxTypes, CtrlTypes
<1>8. HistTypes'
  BY <1>1, <1>5, Sizes DEF TypeInv, HistTypes
<1> QED
  BY <1>3, <1>4, <1>6, <1>7, <1>8 DEF TypeInv

LEMMA LockTypes ==
  ASSUME TypeInv, SenderLock \/ ReceiverLock
  PROVE  TypeInv'
<1>1. /\ UNCHANGED <<txSeq, pending, nakWake, clearAllEpoch, call, msgs, rxSeq, rxSeqSet>>
      /\ UNCHANGED <<errs, errDue, data, ctrl>>
      /\ sState' \in {"OK", "SWP"} /\ rState' \in {"OK", "SWP"}
      /\ UNCHANGED <<appBuf, msgRx>> \/ (appBuf' = <<>> /\ msgRx' = NoMsg)
      /\ \/ session' = session + 1 /\ confirmed' = {} /\ got' = <<>>
         \/ UNCHANGED <<session, confirmed, got>>
  BY DEF SenderLock, ReceiverLock, sender, NewSession, JoinSession, TypeInv, SendTypes,
         RecvTypes
<1>2. SendTypes' /\ DataTypes' /\ CtrlTypes'
  BY <1>1 DEF TypeInv, SendTypes, DataTypes, CtrlTypes
<1>3. RecvTypes'
  BY <1>1 DEF TypeInv, RecvTypes
<1>4. <<>> \in Seq(Units) /\ Len(<<>>) = 0 /\ <<>> \in Seq(1..MaxMsgs)
  OBVIOUS
<1>5. BufTypes'
  <2>1. CASE UNCHANGED appBuf
    BY <2>1 DEF TypeInv, BufTypes
  <2>2. CASE appBuf' = <<>>
    BY <1>4, <2>2, Sizes DEF BufTypes
  <2> QED
    BY <1>1, <2>1, <2>2
<1>6. MsgRxTypes'
  BY <1>1 DEF TypeInv, MsgRxTypes
<1>7. HistTypes'
  <2>1. CASE session' = session + 1 /\ confirmed' = {} /\ got' = <<>>
    BY <1>1, <1>4, <2>1 DEF TypeInv, HistTypes
  <2>2. CASE UNCHANGED <<session, confirmed, got>>
    BY <1>1, <2>2 DEF TypeInv, HistTypes
  <2> QED
    BY <1>1, <2>1, <2>2
<1> QED
  BY <1>1, <1>2, <1>3, <1>5, <1>6, <1>7 DEF TypeInv

\* A line loses its first frame, or gives it to the sender.
LEMMA LineTypes ==
  ASSUME TypeInv, OnAck \/ OnNak \/ LoseData \/ LoseCtrl \/ SenderReset
  PROVE  TypeInv'
<1>1. /\ UNCHANGED <<call, msgs, rState, rxSeq, rxSeqSet, errs, errDue, appBuf, msgRx, got>>
      /\ UNCHANGED <<session, confirmed>>
  BY DEF OnAck, OnNak, LoseData, LoseCtrl, SenderReset, sender, receiver, world
<1>2. BufTypes' /\ MsgRxTypes' /\ HistTypes'
  BY <1>1 DEF TypeInv, BufTypes, MsgRxTypes, HistTypes
<1>3. RecvTypes'
  BY <1>1 DEF TypeInv, RecvTypes
<1>4. CASE OnAck \/ OnNak \/ LoseCtrl
  <2>1. ctrl # <<>> /\ ctrl' = Tail(ctrl) /\ data' = data
    BY <1>4 DEF OnAck, OnNak, LoseCtrl
  <2>2. ctrl \in Seq(CtrlFrames) /\ Len(ctrl) <= RingCap /\ Len(ctrl) \in Nat
    BY DEF TypeInv, CtrlTypes
  <2>3. Tail(ctrl) \in Seq(CtrlFrames) /\ Len(Tail(ctrl)) = Len(ctrl) - 1 /\ Head(ctrl) \in CtrlFrames
    BY <2>1, <2>2, LinesTyped
  <2>4. CtrlTypes'
    BY <2>1, <2>2, <2>3, Sizes DEF CtrlTypes
  <2>5. Head(ctrl).seq \in Seqs
    BY <2>3 DEF CtrlFrames
  <2>6. SendTypes'
    BY <1>4, <2>5 DEF OnAck, OnNak, LoseCtrl, sender, TypeInv, SendTypes
  <2> QED
    BY <1>1, <1>2, <1>3, <2>1, <2>4, <2>6 DEF TypeInv, DataTypes
<1>5. CASE LoseData
  <2>1. data # <<>> /\ data' = Tail(data) /\ UNCHANGED <<sender, ctrl>>
    BY <1>5 DEF LoseData
  <2>2. DataTypes'
    BY <2>1, FrameTyped DEF DataTypes
  <2>3. SendTypes' /\ CtrlTypes'
    BY <2>1 DEF TypeInv, SendTypes, CtrlTypes, sender
  <2> QED
    BY <1>1, <1>2, <1>3, <2>2, <2>3 DEF TypeInv
<1>6. CASE SenderReset
  <2>1. SenderWipe /\ UNCHANGED <<nakWake, ctrl>>
    BY <1>6 DEF SenderReset
  <2>2. SendTypes' /\ DataTypes'
    BY <2>1, WipeTypes DEF TypeInv, SendTypes
  <2> QED
    BY <1>1, <1>2, <1>3, <2>1, <2>2 DEF TypeInv, CtrlTypes
<1> QED
  BY <1>4, <1>5, <1>6

LEMMA InitTypes == Init => TypeInv
<1> SUFFICES ASSUME Init PROVE TypeInv
  OBVIOUS
<1>1. SendTypes
  BY SeqFacts DEF Init, SendTypes
<1>2. CallOK(call)
  BY IdleOK DEF Init
<1>3. rxSeqSet \in BOOLEAN /\ errDue \in BOOLEAN
  BY Zenon DEF Init
<1>4. RecvTypes
  BY <1>3, SeqFacts, Sizes DEF Init, RecvTypes
<1>5. BufTypes
  <2>1. <<>> \in Seq(Units) /\ Len(<<>>) = 0
    OBVIOUS
  <2> QED
    BY <2>1, Sizes DEF Init, BufTypes
<1>6. MsgRxTypes
  BY DEF Init, MsgRxTypes
<1>7. DataTypes /\ CtrlTypes
  <2>1. <<>> \in Seq(DataFrames) /\ <<>> \in Seq(CtrlFrames) /\ Len(<<>>) = 0
    OBVIOUS
  <2> QED
    BY <2>1, Sizes DEF Init, DataTypes, CtrlTypes
<1>8. HistTypes
  <2>1. <<>> \in Seq(1..MaxMsgs)
    OBVIOUS
  <2> QED
    BY <2>1, Sizes DEF Init, HistTypes
<1> QED
  BY <1>1, <1>2, <1>4, <1>5, <1>6, <1>7, <1>8 DEF TypeInv

LEMMA NextTypes ==
  ASSUME TypeInv, [Next]_vars
  PROVE  TypeInv'
<1>1. ASSUME NEW n \in BodyLens, NEW merged \in BOOLEAN, SendMsg(n, merged)
      PROVE  TypeInv'
  BY <1>1, SendMsgTypes
<1>2. CASE CallNext
  <2>1. SendTypes' /\ CallOK(call') /\ DataTypes' /\ confirmed' \subseteq 1..MaxMsgs
    BY <1>2, CallTypes
  <2>2. UNCHANGED <<receiver, ctrl, world, msgs>>
    BY <1>2 DEF CallNext, FrameAcked, WaitReset, WaitNak, WaitTimeout, Drain, SenderStep
  <2>3. UNCHANGED <<rState, rxSeq, rxSeqSet, errs, errDue, appBuf, msgRx, got, ctrl, session,
                    msgs>>
    BY <2>2 DEF receiver, world
  <2>4. RecvTypes'
    BY <2>3 DEF TypeInv, RecvTypes
  <2>5. BufTypes' /\ MsgRxTypes' /\ CtrlTypes' /\ HistTypes'
    BY <2>1, <2>3 DEF TypeInv, BufTypes, MsgRxTypes, CtrlTypes, HistTypes
  <2> QED
    BY <2>1, <2>4, <2>5 DEF TypeInv
<1>3. CASE UartNext
  BY <1>3, LineTypes, ReceiveTypes DEF UartNext
<1>4. CASE AppNext
  BY <1>4, RecvTypesKept, ErrTypes DEF AppNext
<1>5. CASE SenderReset \/ LoseData \/ LoseCtrl
  BY <1>5, LineTypes
<1>6. CASE ReceiverReset
  <2>1. errDue' \in BOOLEAN
    BY <1>6, Zenon DEF ReceiverReset, TypeInv, RecvTypes
  <2> QED
    BY <1>6, <2>1, ReceiverWipeTypes DEF ReceiverReset
<1>7. CASE SenderLock \/ ReceiverLock
  BY <1>7, LockTypes
<1>8. CASE UNCHANGED vars
  <2>1. /\ UNCHANGED <<sState, txSeq, pending, nakWake, clearAllEpoch, call, msgs>>
        /\ UNCHANGED <<rState, rxSeq, rxSeqSet, errs, errDue, appBuf, msgRx, got>>
        /\ UNCHANGED <<data, ctrl, session, confirmed>>
    BY <1>8 DEF vars, sender, receiver, world
  <2>2. RecvTypes'
    BY <2>1 DEF TypeInv, RecvTypes
  <2>3. /\ SendTypes' /\ BufTypes' /\ MsgRxTypes' /\ DataTypes' /\ CtrlTypes' /\ HistTypes'
    BY <2>1 DEF TypeInv, SendTypes, BufTypes, MsgRxTypes, DataTypes, CtrlTypes, HistTypes
  <2> QED
    BY <2>1, <2>2, <2>3 DEF TypeInv
<1> QED
  BY <1>1, <1>2, <1>3, <1>4, <1>5, <1>6, <1>7, <1>8 DEF Next

\* The fields that sendMsg, the UART task, recvMsg and the sweep share keep
\* their types: in particular neither ring nor the app buffer is overfilled,
\* recvMsg returns only messages that were sent, and errs stays below the
\* threshold at which err() resets the link.
THEOREM SyncTypes == Spec => []TypeOK
<1>1. TypeInv => TypeOK
  <2> SUFFICES ASSUME TypeInv PROVE TypeOK
    OBVIOUS
  <2>1. rxSeqSet \in BOOLEAN /\ errDue \in BOOLEAN
    BY DEF TypeInv, RecvTypes
  <2>2. call.phase \in {"idle", "drain", "wait"} /\ call.seq \in Seqs /\ call.part \in 0..call.len
    BY DEF TypeInv, CallOK
  <2>3. msgRx.len \in BodyLens \cup {0}
    BY DEF TypeInv, MsgRxTypes, NoMsg
  <2> QED
    BY <2>1, <2>2, <2>3 DEF TypeInv, SendTypes, RecvTypes, BufTypes, DataTypes, CtrlTypes,
       HistTypes, TypeOK
<1> QED
  BY <1>1, InitTypes, NextTypes, PTL DEF Spec

-----------------------------------------------------------------------------
(* What the receiving app has still to read                                *)

\* The units that recvMsg has not returned yet, with a header it has read.
Unread == IF msgRx = NoMsg THEN appBuf ELSE Header(msgRx.msg, msgRx.len) \o appBuf

\* Where unit k is in the message of unit i, if it belongs to it.
Place(u, i, k) == k - i + u[i].at

\* The units are messages one after the other, with rising numbers, whole up
\* to the last one, of which a part at the end may be missing.
Parsed(u) ==
  \A i \in 1..Len(u) :
    /\ u[i].at \in 1..Total(u[i].len) /\ u[i].at <= i
    /\ \A k \in 1..Len(u) :
         /\ Place(u, i, k) \in 1..Total(u[i].len) =>
              u[k] = Unit(u[i].msg, u[i].len, Place(u, i, k))
         /\ Place(u, i, k) > Total(u[i].len) => u[i].msg < u[k].msg

\* The message of unit i is there to its end.
Whole(u, i) == i - u[i].at + Total(u[i].len) <= Len(u)

\* Message m was returned, or is there as a whole.
Held(m, g, u) ==
  \/ \E i \in 1..Len(g) : g[i] = m
  \/ \E d \in 1..Len(u) : u[d].msg = m /\ u[d].at = 1 /\ Whole(u, d)

Increasing(g) == \A i, j \in 1..Len(g) : i < j => g[i] < g[j]

\* What was returned and what is unread of the messages up to "last", of
\* which only "open" is still being sent.
Stream(u, g, conf, last, open) ==
  /\ Parsed(u) /\ Increasing(g)
  /\ \A i \in 1..Len(g) : g[i] <= last
  /\ \A i \in 1..Len(g) : \A k \in 1..Len(u) : g[i] < u[k].msg
  /\ \A k \in 1..Len(u) : u[k].msg <= last
  /\ \A k \in 1..Len(u) : Whole(u, k) \/ u[k].msg = open
  /\ \A m \in conf : Held(m, g, u)

\* Message m, of n body units, has arrived up to its unit h.
UpTo(u, g, m, n, h) ==
  /\ h < Total(n) => \A i \in 1..Len(g) : g[i] < m
  /\ \A k \in 1..Len(u) : u[k].msg = m => u[k].len = n /\ u[k].at <= h
  /\ 0 < h /\ h < Total(n) => Len(u) >= 1 /\ u[Len(u)] = Unit(m, n, h)
  /\ h = Total(n) => Held(m, g, u)

-----------------------------------------------------------------------------
(* A session in which nothing was given up                                 *)

Live(c, sess) == c.phase # "idle" /\ c.sess = sess
Foreign(c, sess) == c.phase # "idle" /\ c.sess # sess

\* The receiver had joined the session and has left it.
Gone == rState = "SWP" /\ "receiver" \in joined

\* Whether the frame of a call has been sent.  A call that waited for room
\* while the sender was reset sends its frame under a number of the new count
\* (stray); nothing follows it.
Mode(c, sess, state, epoch) ==
  IF ~Live(c, sess) THEN "none"
  ELSE IF state = "SWP" /\ c.phase = "wait" /\ ~c.again /\ c.gen = epoch THEN "stray"
  ELSE IF c.phase = "wait" \/ c.again THEN "out" ELSE "none"

\* The number of the frame that is, or comes, next; the last one delivered.
Cur(c, tx) == IF c.phase = "idle" THEN tx ELSE c.seq
Rx == IF rxSeqSet THEN rxSeq ELSE NoSeq

AckedBy(c, pend, epoch) == budgetIdx(c.seq) \notin pend /\ c.gen = epoch

CursorOK(mode, cur, rx) ==
  rx = NoSeq \/ NextSeq(rx) = cur \/ (mode = "out" /\ rx = cur)

\* A frame on the line is a duplicate of the last one delivered or the one
\* that is out.
DataOK(d, mode, cur, bytes, rx) ==
  /\ mode = "none" => \A i \in 1..Len(d) : d[i].seq = rx
  /\ mode = "out" =>
       /\ \A i \in 1..Len(d) : d[i].seq = rx \/ (d[i].seq = cur /\ d[i].bytes = bytes)
       /\ \A i, k \in 1..Len(d) : i < k /\ d[i].seq = cur => d[k].seq = cur
  /\ mode = "stray" =>
       \A i \in 1..Len(d) : d[i].seq = rx \/ (i = Len(d) /\ d[i].bytes = bytes)

\* An ACK on the way back is for the frame before or, once it is delivered,
\* for the one that is out.
AcksOK(a, mode, cur, rx) ==
  /\ \A i \in 1..Len(a) : a[i].type = "ACK" =>
       NextSeq(a[i].seq) = cur \/ (mode = "out" /\ a[i].seq = cur /\ rx = cur)
  /\ \A i, k \in 1..Len(a) :
       i < k /\ a[i].type = "ACK" /\ a[k].type = "ACK" /\ a[i].seq = cur => a[k].seq = cur

AllAcked(a, s) == \A i \in 1..Len(a) : a[i].type = "ACK" => a[i].seq = s

\* How much of its message the receiver has when a call is at a frame.
ProgressOK(c, mode, u, g, rx, d) ==
  LET before == UpTo(u, g, c.msg, c.len, Base(c))
      after == UpTo(u, g, c.msg, c.len, Full(c))
  IN  /\ mode = "none" => before
      /\ mode = "out" /\ rx # c.seq => before
      /\ mode = "out" /\ rx = c.seq => after
      /\ mode = "stray" => before \/ (d = <<>> /\ after)

\* Nothing has happened before the sender begins.
QuietInv(c) ==
  "sender" \notin joined \/ Foreign(c, session) =>
    /\ data = <<>> /\ ctrl = <<>> /\ got = <<>> /\ confirmed = {}
    /\ ~rxSeqSet /\ appBuf = <<>> /\ msgRx = NoMsg
    /\ c.phase = "wait" => ~AckedBy(c, pending, clearAllEpoch)
NumberInv(c) ==
  sState = "OK" /\ Live(c, session) =>
    txSeq = IF Mode(c, session, sState, clearAllEpoch) = "out" THEN NextSeq(c.seq) ELSE c.seq
CursorInv(c) ==
  sState = "OK" \/ Mode(c, session, sState, clearAllEpoch) = "out" =>
    CursorOK(Mode(c, session, sState, clearAllEpoch), Cur(c, txSeq), Rx)
DataInv(c) ==
  DataOK(data, Mode(c, session, sState, clearAllEpoch), Cur(c, txSeq), Payload(c), Rx)
AckInv(c) ==
  /\ sState = "OK" =>
       AcksOK(ctrl, Mode(c, session, sState, clearAllEpoch), Cur(c, txSeq), Rx)
  /\ sState = "OK" /\ Live(c, session) /\ c.phase = "wait"
       /\ AckedBy(c, pending, clearAllEpoch) =>
       Rx = c.seq /\ AllAcked(ctrl, c.seq)
StreamInv(c) ==
  /\ msgRx # NoMsg => msgRx.msg # 0
  /\ Stream(Unread, got, confirmed, msgs, IF Live(c, session) THEN c.msg ELSE 0)
ProgressInv(c) ==
  Live(c, session) =>
    ProgressOK(c, Mode(c, session, sState, clearAllEpoch), Unread, got, Rx, data)

CleanInv(c) ==
  /\ QuietInv(c) /\ NumberInv(c) /\ CursorInv(c) /\ DataInv(c) /\ AckInv(c)
  /\ StreamInv(c) /\ ProgressInv(c)

\* What holds in every session, of the sender and of the receiver.
SenderInv ==
  /\ sState = "OK" => "sender" \in joined
  /\ Live(call, session) => "sender" \in joined
  /\ sState = "SWP" /\ call.phase = "wait" => ~AckedBy(call, pending, clearAllEpoch)
  /\ call.gen <= clearAllEpoch /\ call.sess <= session
  /\ call.phase # "idle" => call.msg = msgs
ReceiverInv ==
  /\ rState = "OK" => "receiver" \in joined
  /\ rState = "SWP" => ~rxSeqSet /\ appBuf = <<>> /\ msgRx = NoMsg

SessionInv == taint = {} => Increasing(got) /\ (~Gone => CleanInv(call))

SyncInv == TypeInv /\ SenderInv /\ ReceiverInv /\ SessionInv

-----------------------------------------------------------------------------
(* Lemmas about the unread units                                           *)

LEMMA TotalNat ==
  ASSUME NEW n \in BodyLens
  PROVE  n \in Nat \ {0} /\ Total(n) \in Nat /\ Total(n) > MSG_HDR /\ Total(n) >= 1
<1>1. n \in Nat \ {0} /\ MSG_HDR \in Nat
  BY Sizes
<1> QED
  BY <1>1 DEF Total

LEMMA UnitNat ==
  ASSUME NEW u \in Seq(Units), NEW i \in 1..Len(u)
  PROVE  /\ u[i].msg \in Nat /\ u[i].msg >= 1 /\ u[i].msg \in 1..MaxMsgs
         /\ u[i].len \in BodyLens /\ u[i].at \in Nat
         /\ Total(u[i].len) \in Nat /\ Total(u[i].len) >= 1
         /\ u[i] = Unit(u[i].msg, u[i].len, u[i].at)
<1>1. u[i] \in Units
  OBVIOUS
<1>2. /\ u[i].msg \in 1..MaxMsgs /\ u[i].len \in BodyLens /\ u[i].at \in Nat
      /\ u[i] = Unit(u[i].msg, u[i].len, u[i].at)
  BY <1>1 DEF Units, Unit
<1>3. Total(u[i].len) \in Nat /\ Total(u[i].len) >= 1
  BY <1>2, TotalNat
<1>4. u[i].msg \in Nat /\ u[i].msg >= 1
  BY <1>2, Sizes
<1> QED
  BY <1>2, <1>3, <1>4

LEMMA UnitEq ==
  ASSUME NEW m, NEW n, NEW k, NEW x, x = Unit(m, n, k)
  PROVE  x.msg = m /\ x.len = n /\ x.at = k
  BY DEF Unit

LEMMA ParsedAt ==
  ASSUME NEW u \in Seq(Units), Parsed(u), NEW i \in 1..Len(u), NEW k \in 1..Len(u)
  PROVE  /\ u[i].at \in 1..Total(u[i].len) /\ u[i].at <= i
         /\ k - i + u[i].at \in 1..Total(u[i].len) =>
              u[k] = Unit(u[i].msg, u[i].len, k - i + u[i].at)
         /\ k - i + u[i].at > Total(u[i].len) => u[i].msg < u[k].msg
  BY DEF Parsed, Place

\* Two units of one message are as far apart as their places.
LEMMA SameMessage ==
  ASSUME NEW u \in Seq(Units), Parsed(u), NEW i \in 1..Len(u), NEW k \in 1..Len(u), i <= k,
         u[i].msg = u[k].msg
  PROVE  u[k] = Unit(u[i].msg, u[i].len, k - i + u[i].at) /\ k - i + u[i].at <= Total(u[i].len)
<1>1. /\ u[i].at \in Nat /\ Total(u[i].len) \in Nat /\ u[i].msg \in Nat /\ u[k].msg \in Nat
      /\ i \in Nat /\ k \in Nat
  BY UnitNat
<1>2. /\ u[i].at \in 1..Total(u[i].len)
      /\ k - i + u[i].at \in 1..Total(u[i].len) =>
           u[k] = Unit(u[i].msg, u[i].len, k - i + u[i].at)
      /\ k - i + u[i].at > Total(u[i].len) => u[i].msg < u[k].msg
  BY ParsedAt
<1>3. ~(u[i].msg < u[k].msg)
  BY <1>1
<1>4. k - i + u[i].at <= Total(u[i].len) /\ k - i + u[i].at >= 1 /\ k - i + u[i].at \in Int
  BY <1>1, <1>2, <1>3
<1>5. k - i + u[i].at \in 1..Total(u[i].len)
  BY <1>1, <1>4
<1> QED
  BY <1>2, <1>4, <1>5

\* The first units are those of one message, from its start.
LEMMA FirstBlock ==
  ASSUME NEW u \in Seq(Units), Parsed(u), Len(u) >= 1
  PROVE  /\ u[1].at = 1
         /\ \A k \in 1..Len(u) : k <= Total(u[1].len) => u[k] = Unit(u[1].msg, u[1].len, k)
         /\ \A k \in 1..Len(u) : k > Total(u[1].len) => u[1].msg < u[k].msg
<1>0. 1 \in 1..Len(u) /\ Len(u) \in Nat
  OBVIOUS
<1>1. u[1].at \in Nat /\ Total(u[1].len) \in Nat
  BY <1>0, UnitNat
<1>2. u[1].at = 1
  BY <1>0, <1>1, ParsedAt
<1>3. ASSUME NEW k \in 1..Len(u)
      PROVE  /\ k <= Total(u[1].len) => u[k] = Unit(u[1].msg, u[1].len, k)
             /\ k > Total(u[1].len) => u[1].msg < u[k].msg
  <2>1. k - 1 + u[1].at = k /\ k \in Nat /\ k >= 1
    BY <1>2
  <2>2. /\ k \in 1..Total(u[1].len) => u[k] = Unit(u[1].msg, u[1].len, k)
        /\ k > Total(u[1].len) => u[1].msg < u[k].msg
    BY <1>0, <2>1, ParsedAt
  <2> QED
    BY <1>1, <2>1, <2>2
<1> QED
  BY <1>2, <1>3

\* Units put behind others.
LEMMA Appended ==
  ASSUME NEW u \in Seq(Units), NEW p \in Seq(Units)
  PROVE  /\ u \o p \in Seq(Units) /\ Len(u \o p) = Len(u) + Len(p)
         /\ \A i \in 1..Len(u) : (u \o p)[i] = u[i]
         /\ \A j \in 1..Len(p) : (u \o p)[Len(u) + j] = p[j]
         /\ \A k \in 1..Len(u \o p) :
              k \in 1..Len(u) \/ \E j \in 1..Len(p) : k = Len(u) + j
<1>1. /\ u \o p \in Seq(Units) /\ Len(u \o p) = Len(u) + Len(p)
      /\ \A i \in 1..(Len(u) + Len(p)) :
           (u \o p)[i] = IF i <= Len(u) THEN u[i] ELSE p[i - Len(u)]
  BY ConcatProperties
<1>2. Len(u) \in Nat /\ Len(p) \in Nat
  OBVIOUS
<1>3. ASSUME NEW i \in 1..Len(u) PROVE (u \o p)[i] = u[i]
  BY <1>1, <1>2
<1>4. ASSUME NEW j \in 1..Len(p) PROVE (u \o p)[Len(u) + j] = p[j]
  <2>1. Len(u) + j \in 1..(Len(u) + Len(p)) /\ ~(Len(u) + j <= Len(u)) /\ Len(u) + j - Len(u) = j
    BY <1>2
  <2> QED
    BY <1>1, <2>1
<1>5. ASSUME NEW k \in 1..Len(u \o p)
      PROVE  k \in 1..Len(u) \/ \E j \in 1..Len(p) : k = Len(u) + j
  <2>1. CASE k > Len(u)
    <3>1. k - Len(u) \in 1..Len(p) /\ k = Len(u) + (k - Len(u))
      BY <1>1, <1>2, <2>1
    <3> QED
      BY <3>1
  <2> QED
    BY <1>1, <1>2, <2>1
<1> QED
  BY <1>1, <1>3, <1>4, <1>5

\* The arithmetic of places.
LEMMA PlaceBeyond ==
  ASSUME NEW l \in Nat, NEW j \in Nat, NEW i \in Nat, NEW a \in Nat, NEW t \in Nat,
         j >= 1, i - a + t <= l
  PROVE  l + j - i + a > t
  OBVIOUS

\* A stretch that continues the message at the end of the units, or starts
\* a new one behind whole ones.
LEMMA ParsedAppend ==
  ASSUME NEW u \in Seq(Units), NEW p \in Seq(Units), NEW g \in Seq(1..MaxMsgs), NEW conf,
         NEW m \in 1..MaxMsgs, NEW n \in BodyLens, NEW b \in Nat,
         Stream(u, g, conf, m, m), UpTo(u, g, m, n, b), Len(p) >= 1, b + Len(p) <= Total(n),
         \A j \in 1..Len(p) : p[j] = Unit(m, n, b + j)
  PROVE  Parsed(u \o p)
<1> DEFINE v == u \o p
           L == Len(u)
<1>0. /\ v \in Seq(Units) /\ Len(v) = L + Len(p) /\ L \in Nat /\ Len(p) \in Nat
      /\ \A i \in 1..L : v[i] = u[i]
      /\ \A j \in 1..Len(p) : v[L + j] = p[j]
      /\ \A k \in 1..Len(v) : k \in 1..L \/ \E j \in 1..Len(p) : k = L + j
  BY Appended
<1>a. L \in Nat /\ Len(p) \in Nat
  BY <1>0
<1>1. Total(n) \in Nat /\ b < Total(n) /\ m \in Nat
  BY <1>0, TotalNat
<1>2. Parsed(u)
  BY DEF Stream
<1> HIDE DEF v, L
<1>3. ASSUME b > 0
      PROVE  L >= 1 /\ L \in 1..Len(u) /\ u[L] = Unit(m, n, b) /\ u[L].at = b /\ u[L].msg = m
             /\ u[L].len = n /\ b <= L
  <2>1. Len(u) >= 1 /\ u[Len(u)] = Unit(m, n, b)
    BY <1>1, <1>3 DEF UpTo
  <2>2. L \in 1..Len(u) /\ L >= 1
    BY <1>0, <2>1 DEF L
  <2>3. u[L].at = b /\ u[L].msg = m /\ u[L].len = n
    BY <2>1, UnitEq DEF L
  <2>4. u[L].at <= L
    BY <1>2, <2>2, ParsedAt
  <2> QED
    BY <2>1, <2>2, <2>3, <2>4 DEF L
\* An old unit and a new one.
<1>4. ASSUME NEW i \in 1..L, NEW j \in 1..Len(p)
      PROVE  /\ L + j - i + u[i].at \in 1..Total(u[i].len) =>
                  p[j] = Unit(u[i].msg, u[i].len, L + j - i + u[i].at)
             /\ L + j - i + u[i].at > Total(u[i].len) => u[i].msg < p[j].msg
  <2>0. i \in 1..Len(u) /\ p[j] = Unit(m, n, b + j) /\ p[j].msg = m
    BY UnitEq DEF L
  <2>a. u[i].msg \in Nat /\ u[i].at \in Nat /\ Total(u[i].len) \in Nat
    BY <2>0, UnitNat
  <2>b. i \in Nat /\ j \in Nat /\ j >= 1 /\ i <= L /\ j <= Len(p)
    BY <1>a
  <2>1. /\ u[i].msg \in Nat /\ u[i].at \in Nat /\ Total(u[i].len) \in Nat /\ i \in Nat /\ j \in Nat
        /\ j >= 1 /\ i <= L /\ j <= Len(p)
    BY <2>a, <2>b
  <2>2. u[i].msg <= m /\ (Whole(u, i) \/ u[i].msg = m)
    BY <2>0 DEF Stream
  <2>3. CASE u[i].msg # m
    <3>1. i - u[i].at + Total(u[i].len) <= L
      BY <2>2, <2>3 DEF Whole, L
    <3>2. u[i].msg < m
      BY <1>1, <2>1, <2>2, <2>3
    <3>3. L + j - i + u[i].at > Total(u[i].len)
      BY <1>a, <2>1, <3>1, PlaceBeyond
    <3> QED
      BY <2>0, <2>1, <3>2, <3>3, SMTT(30)
  <2>4. CASE u[i].msg = m
    <3>1. u[i].len = n /\ u[i].at <= b
      BY <2>0, <2>4 DEF UpTo
    <3>2. u[i].at >= 1
      BY <1>2, <2>0, <2>1, ParsedAt
    <3>3. b > 0
      BY <2>1, <3>1, <3>2
    <3>4. L \in 1..Len(u) /\ u[L].at = b /\ u[L].msg = m
      BY <1>3, <3>3
    <3>5. u[L] = Unit(u[i].msg, u[i].len, L - i + u[i].at)
      BY <1>2, <2>0, <2>1, <2>4, <3>4, SameMessage, SMTT(30)
    <3>6. b = L - i + u[i].at
      BY <3>4, <3>5, UnitEq
    <3>7. L + j - i + u[i].at = b + j /\ b + j <= Total(n)
      <4>1. L + j - i + u[i].at = b + j
        <5>1. u[i].at \in Nat /\ i \in Nat /\ j \in Nat
          BY <2>1
        <5>2. \A a \in Nat : b = L - i + a => L + j - i + a = b + j
          BY <1>a, <5>1
        <5> QED
          BY <3>6, <5>1, <5>2
      <4>2. b + j <= Total(n)
        BY <1>a, <1>1, <2>1
      <4> QED
        BY <4>1, <4>2
    <3>8. p[j] = Unit(u[i].msg, u[i].len, L + j - i + u[i].at)
      BY <2>0, <2>4, <3>1, <3>7
    <3>9. ~(L + j - i + u[i].at > Total(u[i].len))
      BY <1>1, <2>1, <3>1, <3>7
    <3> QED
      BY <3>8, <3>9
  <2> QED
    BY <2>3, <2>4
\* A new unit and an old one.
<1>5. ASSUME NEW i \in 1..L, NEW j \in 1..Len(p)
      PROVE  /\ i - (L + j) + (b + j) \in 1..Total(n) =>
                  u[i] = Unit(m, n, i - (L + j) + (b + j))
             /\ ~(i - (L + j) + (b + j) > Total(n))
  <2>0. i \in 1..Len(u) /\ i \in Nat /\ j \in Nat /\ i <= L
    BY <1>0 DEF L
  <2>1. i - (L + j) + (b + j) = i - L + b /\ i - L + b <= b
    BY <1>0, <2>0
  <2>2. CASE b = 0
    BY <1>0, <1>1, <2>0, <2>1, <2>2
  <2>3. CASE b > 0
    <3>1. L \in 1..Len(u) /\ u[L].at = b /\ u[L].msg = m /\ u[L].len = n
      BY <1>3, <2>3
    <3>2. i - L + u[L].at \in 1..Total(u[L].len) =>
            u[i] = Unit(u[L].msg, u[L].len, i - L + u[L].at)
      BY <1>2, <2>0, <3>1, ParsedAt
    <3> QED
      BY <1>0, <1>1, <2>0, <2>1, <3>1, <3>2, SMTT(30)
  <2> QED
    BY <2>2, <2>3
<1>6. ASSUME NEW i \in 1..Len(v)
      PROVE  /\ v[i].at \in 1..Total(v[i].len) /\ v[i].at <= i
             /\ \A k \in 1..Len(v) :
                  /\ k - i + v[i].at \in 1..Total(v[i].len) =>
                       v[k] = Unit(v[i].msg, v[i].len, k - i + v[i].at)
                  /\ k - i + v[i].at > Total(v[i].len) => v[i].msg < v[k].msg
  <2>1. CASE i \in 1..L
    <3>0. i \in 1..Len(u) /\ v[i] = u[i]
      BY <1>0, <2>1 DEF L
    <3>1. u[i].at \in 1..Total(u[i].len) /\ u[i].at <= i
      BY <1>2, <3>0, ParsedAt
    <3>2. ASSUME NEW k \in 1..Len(v)
          PROVE  /\ k - i + v[i].at \in 1..Total(v[i].len) =>
                      v[k] = Unit(v[i].msg, v[i].len, k - i + v[i].at)
                 /\ k - i + v[i].at > Total(v[i].len) => v[i].msg < v[k].msg
      <4>1. CASE k \in 1..L
        <5>1. k \in 1..Len(u) /\ v[k] = u[k]
          BY <1>0, <4>1 DEF L
        <5> QED
          BY <1>2, <3>0, <5>1, ParsedAt
      <4>2. CASE k \notin 1..L
        <5>1. PICK j \in 1..Len(p) : k = L + j
          BY <1>0, <4>2
        <5>2. v[k] = p[j]
          BY <1>0, <5>1
        <5>3. /\ L + j - i + u[i].at \in 1..Total(u[i].len) =>
                   p[j] = Unit(u[i].msg, u[i].len, L + j - i + u[i].at)
              /\ L + j - i + u[i].at > Total(u[i].len) => u[i].msg < p[j].msg
          BY <1>4, <2>1
        <5>4. k - i + v[i].at = L + j - i + u[i].at
          <6>1. u[i].at \in Nat /\ i \in Nat /\ j \in Nat
            BY <1>a, <3>0, <5>1, UnitNat
          <6> QED
            BY <1>a, <3>0, <5>1, <6>1
        <5> QED
          BY <3>0, <5>2, <5>3, <5>4, Zenon
      <4> QED
        BY <4>1, <4>2
    <3> QED
      BY <3>0, <3>1, <3>2
  <2>2. CASE i \notin 1..L
    <3>1. PICK j \in 1..Len(p) : i = L + j
      BY <1>0, <2>2
    <3>2. v[i] = Unit(m, n, b + j)
      BY <1>0, <3>1
    <3>3. v[i].msg = m /\ v[i].len = n /\ v[i].at = b + j
      BY <3>2, UnitEq
    <3>4. v[i].at \in 1..Total(v[i].len)
      BY <1>0, <1>1, <3>3
    <3>5. v[i].at <= i
      <4>1. b <= L
        BY <1>0, <1>3
      <4> QED
        BY <1>0, <3>1, <3>3, <4>1
    <3>6. ASSUME NEW k \in 1..Len(v)
          PROVE  /\ k - i + v[i].at \in 1..Total(v[i].len) =>
                      v[k] = Unit(v[i].msg, v[i].len, k - i + v[i].at)
                 /\ k - i + v[i].at > Total(v[i].len) => v[i].msg < v[k].msg
      <4>1. CASE k \in 1..L
        <5>1. v[k] = u[k] /\ k - i + v[i].at = k - (L + j) + (b + j)
          BY <1>0, <3>1, <3>3, <4>1
        <5> QED
          BY <1>5, <3>3, <4>1, <5>1
      <4>2. CASE k \notin 1..L
        <5>1. PICK l \in 1..Len(p) : k = L + l
          BY <1>0, <4>2
        <5>2. v[k] = Unit(m, n, b + l)
          BY <1>0, <5>1
        <5>3. k - i + v[i].at = b + l /\ ~(b + l > Total(n))
          BY <1>0, <1>1, <3>1, <3>3, <5>1, SMTT(30)
        <5> QED
          BY <3>3, <5>2, <5>3
      <4> QED
        BY <4>1, <4>2
    <3> QED
      BY <3>4, <3>5, <3>6
  <2> QED
    BY <2>1, <2>2
<1>7. Parsed(v)
  BY <1>6 DEF Parsed, Place
<1> QED
  BY <1>7 DEF v

\* What is there stays there when units come in behind it.
LEMMA HeldAppend ==
  ASSUME NEW u \in Seq(Units), NEW p \in Seq(Units), NEW g, NEW m, Held(m, g, u)
  PROVE  Held(m, g, u \o p)
<1> DEFINE v == u \o p
<1>0. /\ v \in Seq(Units) /\ Len(v) = Len(u) + Len(p)
      /\ \A i \in 1..Len(u) : v[i] = u[i]
  BY Appended
<1>a. Len(u) \in Nat /\ Len(p) \in Nat
  OBVIOUS
<1> HIDE DEF v
<1>1. CASE \E i \in 1..Len(g) : g[i] = m
  BY <1>1 DEF Held
<1>2. CASE \E d \in 1..Len(u) : u[d].msg = m /\ u[d].at = 1 /\ Whole(u, d)
  <2>1. PICK d \in 1..Len(u) : u[d].msg = m /\ u[d].at = 1 /\ Whole(u, d)
    BY <1>2
  <2>2. v[d] = u[d] /\ d \in 1..Len(v)
    BY <1>0, <1>a
  <2>3. Total(u[d].len) \in Nat /\ u[d].at \in Nat
    BY UnitNat
  <2>4. d - u[d].at + Total(u[d].len) <= Len(u)
    BY <2>1 DEF Whole
  <2>5. d - u[d].at + Total(u[d].len) <= Len(v)
    BY <1>0, <1>a, <2>3, <2>4
  <2>6. Whole(v, d)
    BY <2>2, <2>5 DEF Whole
  <2>7. Held(m, g, v)
    BY <2>1, <2>2, <2>6 DEF Held
  <2> QED
    BY <2>7 DEF v
<1> QED
  BY <1>1, <1>2 DEF Held

LEMMA StreamAppend ==
  ASSUME NEW u \in Seq(Units), NEW p \in Seq(Units), NEW g \in Seq(1..MaxMsgs), NEW conf,
         NEW m \in 1..MaxMsgs, NEW n \in BodyLens, NEW b \in Nat,
         Stream(u, g, conf, m, m), UpTo(u, g, m, n, b), Len(p) >= 1, b + Len(p) <= Total(n),
         \A j \in 1..Len(p) : p[j] = Unit(m, n, b + j)
  PROVE  Stream(u \o p, g, conf, m, m) /\ UpTo(u \o p, g, m, n, b + Len(p))
<1> DEFINE v == u \o p
           L == Len(u)
           h == b + Len(p)
<1>0. /\ v \in Seq(Units) /\ Len(v) = L + Len(p)
      /\ \A i \in 1..L : v[i] = u[i]
      /\ \A j \in 1..Len(p) : v[L + j] = p[j]
      /\ \A k \in 1..Len(v) : k \in 1..L \/ \E j \in 1..Len(p) : k = L + j
  BY Appended
<1>a. L \in Nat /\ Len(p) \in Nat /\ m \in Nat
  BY Sizes
<1>1. Total(n) \in Nat /\ b < Total(n) /\ h \in Nat /\ b < h
  BY <1>a, TotalNat
<1>2. Parsed(v)
  BY ParsedAppend
<1>3. \A x : Held(x, g, u) => Held(x, g, v)
  BY HeldAppend
<1>4. ASSUME NEW i \in 1..Len(g) PROVE g[i] < m
  BY <1>1 DEF UpTo
<1> HIDE DEF v, L, h
<1>5. ASSUME NEW k \in 1..Len(v), k \notin 1..L
      PROVE  /\ v[k].msg = m /\ v[k].len = n /\ v[k].at <= h
  <2>1. PICK j \in 1..Len(p) : k = L + j
    BY <1>0, <1>5
  <2>2. v[k] = Unit(m, n, b + j)
    BY <1>0, <2>1
  <2>3. b + j <= h
    BY <1>a DEF h
  <2> QED
    BY <2>2, <2>3, UnitEq
<1>6. Stream(v, g, conf, m, m)
  <2>1. Increasing(g) /\ \A i \in 1..Len(g) : g[i] <= m
    BY DEF Stream
  <2>2. ASSUME NEW i \in 1..Len(g), NEW k \in 1..Len(v) PROVE g[i] < v[k].msg
    <3>1. CASE k \in 1..L
      BY <1>0, <3>1 DEF Stream, L
    <3> QED
      BY <1>4, <1>5, <3>1
  <2>3. ASSUME NEW k \in 1..Len(v) PROVE v[k].msg <= m
    <3>1. CASE k \in 1..L
      BY <1>0, <3>1 DEF Stream, L
    <3> QED
      BY <1>5, <1>a, <3>1
  <2>4. ASSUME NEW k \in 1..Len(v) PROVE Whole(v, k) \/ v[k].msg = m
    <3>1. CASE k \in 1..L
      <4>1. k \in 1..Len(u) /\ v[k] = u[k]
        BY <1>0, <3>1 DEF L
      <4>2. Whole(u, k) \/ u[k].msg = m
        BY <4>1 DEF Stream
      <4>3. CASE Whole(u, k)
        <5>1. k - u[k].at + Total(u[k].len) <= L
          BY <4>3 DEF Whole, L
        <5>2. Total(u[k].len) \in Nat /\ u[k].at \in Nat /\ k \in Nat
          BY <4>1, UnitNat
        <5>a. Len(v) = L + Len(p)
          BY <1>0
        <5>b. L \in Nat /\ Len(p) \in Nat
          BY <1>a
        <5>c. PICK t \in Nat : t = Total(u[k].len)
          BY <5>2
        <5>d. PICK a \in Nat : a = u[k].at
          BY <5>2
        <5>f. k - a + t <= L
          BY <5>1, <5>c, <5>d
        <5>g. k \in Nat
          BY <5>2
        <5>e. k - a + t <= L + Len(p)
          BY <5>b, <5>f, <5>g
        <5>3. k - u[k].at + Total(u[k].len) <= Len(v)
          BY <5>a, <5>c, <5>d, <5>e
        <5> QED
          BY <4>1, <5>3 DEF Whole
      <4> QED
        BY <4>1, <4>2, <4>3
    <3> QED
      BY <1>5, <3>1
  <2>5. \A x \in conf : Held(x, g, v)
    BY <1>3 DEF Stream
  <2> QED
    BY <1>2, <2>1, <2>2, <2>3, <2>4, <2>5 DEF Stream
<1>7. UpTo(v, g, m, n, h)
  <2>1. \A i \in 1..Len(g) : g[i] < m
    BY <1>4
  <2>2. ASSUME NEW k \in 1..Len(v), v[k].msg = m PROVE v[k].len = n /\ v[k].at <= h
    <3>1. CASE k \in 1..L
      <4>1. k \in 1..Len(u) /\ v[k] = u[k]
        BY <1>0, <3>1 DEF L
      <4>2. u[k].len = n /\ u[k].at <= b /\ u[k].at \in Nat
        BY <2>2, <4>1, UnitNat DEF UpTo
      <4> QED
        BY <1>1, <4>1, <4>2
    <3> QED
      BY <1>5, <3>1
  <2>3. Len(v) >= 1 /\ v[Len(v)] = Unit(m, n, h)
    <3>1. Len(p) \in 1..Len(p)
      BY <1>a
    <3>2. v[L + Len(p)] = Unit(m, n, b + Len(p))
      BY <1>0, <3>1
    <3> QED
      BY <1>0, <1>a, <3>2 DEF h
  <2>4. ASSUME h = Total(n) PROVE Held(m, g, v)
    <3> DEFINE d == L - b + 1
    <3>1. d \in 1..Len(v) /\ v[d] = Unit(m, n, 1)
      <4>1. CASE b = 0
        <5>1. 1 \in 1..Len(p) /\ L + 1 = d /\ b + 1 = 1 /\ d \in 1..(L + Len(p))
          BY <1>a, <4>1
        <5>2. v[L + 1] = p[1] /\ p[1] = Unit(m, n, b + 1)
          BY <1>0, <5>1
        <5> QED
          BY <1>0, <5>1, <5>2
      <4>2. CASE b > 0
        <5>1. Len(u) >= 1 /\ u[Len(u)] = Unit(m, n, b)
          BY <1>1, <4>2 DEF UpTo
        <5>2. L \in 1..Len(u) /\ L >= 1 /\ u[L] = Unit(m, n, b)
          BY <1>a, <5>1 DEF L
        <5>3. u[L].at = b /\ u[L].msg = m /\ u[L].len = n
          BY <5>2, UnitEq
        <5>4. Parsed(u)
          BY DEF Stream
        <5>5. u[L].at <= L
          BY <5>2, <5>4, ParsedAt
        <5>6. d \in 1..L /\ d - L + b = 1 /\ d \in 1..(L + Len(p)) /\ 1 \in 1..Total(n)
          BY <1>1, <1>a, <4>2, <5>3, <5>5
        <5>7. d \in 1..Len(u)
          BY <5>6 DEF L
        <5>8. d - L + u[L].at \in 1..Total(u[L].len) =>
                u[d] = Unit(u[L].msg, u[L].len, d - L + u[L].at)
          BY <5>2, <5>4, <5>7, ParsedAt
        <5>9. u[d] = Unit(m, n, 1)
          BY <5>3, <5>6, <5>8
        <5> QED
          BY <1>0, <5>6, <5>9
      <4> QED
        BY <4>1, <4>2
    <3>2. v[d].msg = m /\ v[d].len = n /\ v[d].at = 1
      BY <3>1, UnitEq
    <3>3. d - 1 + Total(n) <= Len(v)
      BY <1>0, <1>1, <1>a, <2>4 DEF h
    <3>4. Whole(v, d)
      BY <3>2, <3>3 DEF Whole
    <3> HIDE DEF d
    <3> QED
      BY <3>1, <3>2, <3>4 DEF Held
  <2> QED
    BY <2>1, <2>2, <2>3, <2>4 DEF UpTo
<1> QED
  BY <1>6, <1>7 DEF v, h

\* The units that are left once the first message is taken out.
LEMMA DropIs ==
  ASSUME NEW u \in Seq(Units), NEW t \in 0..Len(u)
  PROVE  LET v == SubSeq(u, t + 1, Len(u))
         IN  /\ v \in Seq(Units) /\ Len(v) = Len(u) - t
             /\ \A i \in 1..Len(v) : i + t \in 1..Len(u) /\ v[i] = u[i + t]
<1> DEFINE v == SubSeq(u, t + 1, Len(u))
<1>1. v \in Seq(Units) /\ Len(v) = Len(u) - t
  BY DropTyped
<1>2. ASSUME NEW i \in 1..Len(v) PROVE i + t \in 1..Len(u) /\ v[i] = u[i + t]
  <2>1. Len(u) \in Nat /\ t \in Nat
    OBVIOUS
  <2>2. i + t \in 1..Len(u) /\ i \in 1..(Len(u) - (t + 1) + 1) /\ t + 1 + i - 1 = i + t
    BY <1>1, <2>1
  <2>3. \A k \in (t + 1)..Len(u) : u[k] \in Units
    BY <2>1
  <2>4. \A k \in 1..(Len(u) - (t + 1) + 1) : SubSeq(u, t + 1, Len(u))[k] = u[t + 1 + k - 1]
    BY <2>1, <2>3, SubSeqProperties
  <2> QED
    BY <2>2, <2>4
<1> QED
  BY <1>1, <1>2

LEMMA AppendGot ==
  ASSUME NEW g \in Seq(1..MaxMsgs), NEW m \in 1..MaxMsgs
  PROVE  /\ Len(Append(g, m)) = Len(g) + 1 /\ Len(g) \in Nat
         /\ \A i \in 1..Len(g) : Append(g, m)[i] = g[i]
         /\ Append(g, m)[Len(g) + 1] = m
         /\ \A i \in 1..Len(Append(g, m)) : i \in 1..Len(g) \/ i = Len(g) + 1
<1>1. /\ Len(Append(g, m)) = Len(g) + 1
      /\ \A i \in 1..Len(g) : Append(g, m)[i] = g[i]
      /\ Append(g, m)[Len(g) + 1] = m
  BY AppendProperties
<1>2. Len(g) \in Nat
  OBVIOUS
<1> QED
  BY <1>1, <1>2

LEMMA ParsedDrop ==
  ASSUME NEW u \in Seq(Units), Parsed(u), Len(u) >= 1, Total(u[1].len) <= Len(u)
  PROVE  /\ Parsed(SubSeq(u, Total(u[1].len) + 1, Len(u)))
         /\ Total(u[1].len) \in 0..Len(u)
<1> DEFINE t == Total(u[1].len)
           v == SubSeq(u, t + 1, Len(u))
<1>0. 1 \in 1..Len(u) /\ Len(u) \in Nat
  OBVIOUS
<1>1. t \in Nat /\ t >= 1 /\ u[1].msg \in Nat
  BY <1>0, UnitNat
<1>2. t \in 0..Len(u) /\ t \in 1..Len(u)
  BY <1>0, <1>1
<1>3. /\ v \in Seq(Units) /\ Len(v) = Len(u) - t
      /\ \A i \in 1..Len(v) : i + t \in 1..Len(u) /\ v[i] = u[i + t]
  BY <1>2, DropIs
<1>4. u[t] = Unit(u[1].msg, u[1].len, t)
  BY <1>2, FirstBlock
<1>5. \A k \in 1..Len(u) : k > t => u[1].msg < u[k].msg
  BY FirstBlock
<1> HIDE DEF v, t
<1>6. ASSUME NEW i \in 1..Len(v)
      PROVE  /\ v[i].at \in 1..Total(v[i].len) /\ v[i].at <= i
             /\ \A k \in 1..Len(v) :
                  /\ k - i + v[i].at \in 1..Total(v[i].len) =>
                       v[k] = Unit(v[i].msg, v[i].len, k - i + v[i].at)
                  /\ k - i + v[i].at > Total(v[i].len) => v[i].msg < v[k].msg
  <2>0. i + t \in 1..Len(u) /\ v[i] = u[i + t] /\ i \in Nat /\ i >= 1
    BY <1>3
  <2>1. /\ v[i].at \in Nat /\ Total(v[i].len) \in Nat /\ v[i].msg \in Nat
    BY <2>0, UnitNat
  <2>2. v[i].at \in 1..Total(v[i].len)
    BY <2>0, ParsedAt
  <2>3. v[i].at <= i
    <3>1. SUFFICES ASSUME v[i].at > i PROVE FALSE
      BY <2>0, <2>1
    <3>2. t - (i + t) + v[i].at \in 1..Total(v[i].len)
      BY <1>1, <2>0, <2>1, <2>2, <3>1
    <3>3. u[t] = Unit(v[i].msg, v[i].len, t - (i + t) + v[i].at)
      BY <1>2, <2>0, <3>2, ParsedAt
    <3>a. u[t].msg = u[1].msg
      BY <1>4, UnitEq
    <3>b. u[t].msg = v[i].msg
      BY <3>3, UnitEq
    <3>4. v[i].msg = u[1].msg
      BY <3>a, <3>b
    <3>5. i + t > t
      BY <1>1, <2>0
    <3>6. u[1].msg < v[i].msg
      BY <1>5, <2>0, <3>5
    <3> QED
      BY <1>1, <2>1, <3>4, <3>6
  <2>4. ASSUME NEW k \in 1..Len(v)
        PROVE  /\ k - i + v[i].at \in 1..Total(v[i].len) =>
                    v[k] = Unit(v[i].msg, v[i].len, k - i + v[i].at)
               /\ k - i + v[i].at > Total(v[i].len) => v[i].msg < v[k].msg
    <3>1. k + t \in 1..Len(u) /\ v[k] = u[k + t] /\ k \in Nat
      BY <1>3
    <3>2. (k + t) - (i + t) + v[i].at = k - i + v[i].at
      BY <1>1, <2>0, <2>1, <3>1
    <3>3. /\ (k + t) - (i + t) + u[i + t].at \in 1..Total(u[i + t].len) =>
               u[k + t] = Unit(u[i + t].msg, u[i + t].len, (k + t) - (i + t) + u[i + t].at)
          /\ (k + t) - (i + t) + u[i + t].at > Total(u[i + t].len) =>
               u[i + t].msg < u[k + t].msg
      BY <2>0, <3>1, ParsedAt
    <3> QED
      BY <2>0, <3>1, <3>2, <3>3, Zenon
  <2> QED
    BY <2>2, <2>3, <2>4
<1>7. Parsed(v)
  BY <1>6 DEF Parsed, Place
<1> QED
  BY <1>2, <1>7 DEF v, t

\* Returning the first message keeps in hand what was in hand.
LEMMA HeldDrop ==
  ASSUME NEW u \in Seq(Units), Parsed(u), Len(u) >= 1, Total(u[1].len) <= Len(u),
         NEW g \in Seq(1..MaxMsgs), NEW m, Held(m, g, u)
  PROVE  Held(m, Append(g, u[1].msg), SubSeq(u, Total(u[1].len) + 1, Len(u)))
<1> DEFINE t == Total(u[1].len)
           v == SubSeq(u, t + 1, Len(u))
           e == Append(g, u[1].msg)
<1>0. 1 \in 1..Len(u) /\ Len(u) \in Nat
  OBVIOUS
<1>1. t \in Nat /\ t >= 1 /\ u[1].msg \in 1..MaxMsgs
  BY <1>0, UnitNat
<1>2. t \in 0..Len(u)
  BY <1>0, <1>1
<1>3. /\ v \in Seq(Units) /\ Len(v) = Len(u) - t
      /\ \A i \in 1..Len(v) : i + t \in 1..Len(u) /\ v[i] = u[i + t]
  BY <1>2, DropIs
<1>4. \A k \in 1..Len(u) : k <= t => u[k] = Unit(u[1].msg, u[1].len, k)
  BY FirstBlock
<1>5. /\ Len(e) = Len(g) + 1 /\ Len(g) \in Nat
      /\ \A i \in 1..Len(g) : e[i] = g[i]
      /\ e[Len(g) + 1] = u[1].msg
  BY <1>1, AppendGot
<1> HIDE DEF v, t, e
<1>6. CASE \E i \in 1..Len(g) : g[i] = m
  <2>1. PICK i \in 1..Len(g) : g[i] = m
    BY <1>6
  <2>2. i \in 1..Len(e) /\ e[i] = m
    BY <1>5, <2>1
  <2> QED
    BY <2>2 DEF Held, v, t, e
<1>7. CASE \E d \in 1..Len(u) : u[d].msg = m /\ u[d].at = 1 /\ Whole(u, d)
  <2>1. PICK d \in 1..Len(u) : u[d].msg = m /\ u[d].at = 1 /\ Whole(u, d)
    BY <1>7
  <2>2. CASE d <= t
    <3>1. u[d] = Unit(u[1].msg, u[1].len, d)
      BY <1>4, <2>2
    <3>2. m = u[1].msg
      BY <2>1, <3>1, UnitEq
    <3>3. Len(g) + 1 \in 1..Len(e) /\ e[Len(g) + 1] = m
      BY <1>5, <3>2
    <3> QED
      BY <3>3 DEF Held, v, t, e
  <2>3. CASE d > t
    <3>1. d - t \in 1..Len(v) /\ (d - t) + t = d
      BY <1>0, <1>1, <1>3, <2>3
    <3>2. v[d - t] = u[d]
      BY <1>3, <3>1
    <3>3. Total(u[d].len) \in Nat
      BY UnitNat
    <3>4. d - 1 + Total(u[d].len) <= Len(u)
      BY <2>1 DEF Whole
    <3>a. Len(v) = Len(u) - t /\ d \in Nat
      BY <1>3
    <3>5. (d - t) - 1 + Total(u[d].len) <= Len(v)
      BY <1>0, <1>1, <3>3, <3>4, <3>a
    <3>6. Whole(v, d - t)
      BY <2>1, <3>2, <3>5 DEF Whole
    <3>7. Held(m, e, v)
      BY <2>1, <3>1, <3>2, <3>6 DEF Held
    <3> QED
      BY <3>7 DEF v, t, e
  <2> QED
    BY <1>0, <1>1, <2>2, <2>3
<1> QED
  BY <1>6, <1>7 DEF Held

LEMMA GotNat ==
  ASSUME NEW g \in Seq(1..MaxMsgs), NEW i \in 1..Len(g)
  PROVE  g[i] \in Nat /\ g[i] \in 1..MaxMsgs
<1>1. g[i] \in 1..MaxMsgs
  BY ElementOfSeq
<1> QED
  BY <1>1, Sizes

LEMMA StreamDrop ==
  ASSUME NEW u \in Seq(Units), NEW g \in Seq(1..MaxMsgs), NEW conf, NEW last \in Nat, NEW open,
         Stream(u, g, conf, last, open), Len(u) >= 1, Total(u[1].len) <= Len(u)
  PROVE  LET v == SubSeq(u, Total(u[1].len) + 1, Len(u))
             e == Append(g, u[1].msg)
         IN  /\ Stream(v, e, conf, last, open)
             /\ \A n \in BodyLens, h \in Nat : UpTo(u, g, last, n, h) => UpTo(v, e, last, n, h)
<1> DEFINE t == Total(u[1].len)
           v == SubSeq(u, t + 1, Len(u))
           e == Append(g, u[1].msg)
<1>0. 1 \in 1..Len(u) /\ Len(u) \in Nat /\ Parsed(u)
  BY DEF Stream
<1>1. t \in Nat /\ t >= 1 /\ u[1].msg \in 1..MaxMsgs /\ u[1].msg \in Nat /\ u[1].len \in BodyLens
  BY <1>0, UnitNat
<1>2. t \in 0..Len(u) /\ Parsed(v)
  BY <1>0, ParsedDrop
<1>3. /\ v \in Seq(Units) /\ Len(v) = Len(u) - t
      /\ \A i \in 1..Len(v) : i + t \in 1..Len(u) /\ v[i] = u[i + t]
  BY <1>2, DropIs
<1>4. /\ \A k \in 1..Len(u) : k <= t => u[k] = Unit(u[1].msg, u[1].len, k)
      /\ \A k \in 1..Len(u) : k > t => u[1].msg < u[k].msg
  BY <1>0, FirstBlock
<1>5. /\ Len(e) = Len(g) + 1 /\ Len(g) \in Nat
      /\ \A i \in 1..Len(g) : e[i] = g[i]
      /\ e[Len(g) + 1] = u[1].msg
      /\ \A i \in 1..Len(e) : i \in 1..Len(g) \/ i = Len(g) + 1
  BY <1>1, AppendGot
<1>6. \A x : Held(x, g, u) => Held(x, e, v)
  BY <1>0, HeldDrop
<1>7. u[1].msg <= last
  BY <1>0 DEF Stream
<1>8. \A i \in 1..Len(g) : g[i] < u[1].msg /\ g[i] \in Nat
  <2> TAKE i \in 1..Len(g)
  <2>1. g[i] < u[1].msg
    BY <1>0 DEF Stream
  <2> QED
    BY <2>1, GotNat
<1> HIDE DEF v, t, e
<1>9. Stream(v, e, conf, last, open)
  <2>1. Increasing(e)
    <3> SUFFICES ASSUME NEW i \in 1..Len(e), NEW j \in 1..Len(e), i < j PROVE e[i] < e[j]
      BY DEF Increasing
    <3>1. i \in 1..Len(g)
      BY <1>5
    <3>2. CASE j \in 1..Len(g)
      <4>1. g[i] < g[j]
        BY <3>1, <3>2 DEF Stream, Increasing
      <4> QED
        BY <1>5, <3>1, <3>2, <4>1
    <3>3. CASE j = Len(g) + 1
      BY <1>5, <1>8, <3>1, <3>3
    <3> QED
      BY <1>5, <3>2, <3>3
  <2>2. ASSUME NEW i \in 1..Len(e) PROVE e[i] <= last
    <3>1. CASE i \in 1..Len(g)
      BY <1>5, <3>1 DEF Stream
    <3> QED
      BY <1>5, <1>7, <3>1
  <2>3. ASSUME NEW i \in 1..Len(e), NEW k \in 1..Len(v) PROVE e[i] < v[k].msg
    <3>1. k + t \in 1..Len(u) /\ v[k] = u[k + t] /\ k + t > t
      BY <1>1, <1>3
    <3>2. CASE i \in 1..Len(g)
      BY <1>5, <3>1, <3>2 DEF Stream
    <3> QED
      BY <1>4, <1>5, <3>1, <3>2
  <2>4. ASSUME NEW k \in 1..Len(v) PROVE v[k].msg <= last /\ (Whole(v, k) \/ v[k].msg = open)
    <3>1. k + t \in 1..Len(u) /\ v[k] = u[k + t] /\ k \in Nat
      BY <1>3
    <3>2. u[k + t].msg <= last /\ (Whole(u, k + t) \/ u[k + t].msg = open)
      BY <3>1 DEF Stream
    <3>3. CASE Whole(u, k + t)
      <4>1. Total(v[k].len) \in Nat /\ v[k].at \in Nat
        BY <3>1, UnitNat
      <4>2. (k + t) - v[k].at + Total(v[k].len) <= Len(u)
        BY <3>1, <3>3 DEF Whole
      <4>a. Len(v) = Len(u) - t
        BY <1>3
      <4>3. k - v[k].at + Total(v[k].len) <= Len(v)
        BY <1>0, <1>1, <3>1, <4>1, <4>2, <4>a, SMTT(30)
      <4> QED
        BY <3>1, <3>2, <4>3 DEF Whole
    <3> QED
      BY <3>1, <3>2, <3>3
  <2>5. \A x \in conf : Held(x, e, v)
    BY <1>6 DEF Stream
  <2> QED
    BY <1>2, <2>1, <2>2, <2>3, <2>4, <2>5 DEF Stream
<1>10. ASSUME NEW n \in BodyLens, NEW h \in Nat, UpTo(u, g, last, n, h)
       PROVE  UpTo(v, e, last, n, h)
  <2>0. Total(n) \in Nat
    BY TotalNat
  <2>1. ASSUME h < Total(n), NEW i \in 1..Len(e) PROVE e[i] < last
    <3>1. CASE i \in 1..Len(g)
      BY <1>10, <1>5, <2>1, <3>1 DEF UpTo
    <3>2. u[1].msg # last
      <4> SUFFICES ASSUME u[1].msg = last PROVE FALSE
        OBVIOUS
      <4>1. u[1].len = n
        BY <1>0, <1>10 DEF UpTo
      <4>2. t \in 1..Len(u) /\ t <= t
        BY <1>0, <1>1, <1>2
      <4>3. u[t] = Unit(last, n, t)
        BY <1>4, <4>1, <4>2
      <4>4. u[t].msg = last /\ u[t].at = t
        BY <4>3, UnitEq
      <4>5. t <= h
        BY <1>10, <4>2, <4>4 DEF UpTo
      <4>6. t = Total(n)
        BY <4>1 DEF t
      <4> QED
        BY <2>0, <2>1, <4>5, <4>6
    <3>3. u[1].msg < last
      BY <1>1, <1>7, <3>2
    <3> QED
      BY <1>5, <3>1, <3>3
  <2>2. ASSUME NEW k \in 1..Len(v), v[k].msg = last PROVE v[k].len = n /\ v[k].at <= h
    <3>1. k + t \in 1..Len(u) /\ v[k] = u[k + t]
      BY <1>3
    <3> QED
      BY <1>10, <2>2, <3>1 DEF UpTo
  <2>3. ASSUME 0 < h, h < Total(n) PROVE Len(v) >= 1 /\ v[Len(v)] = Unit(last, n, h)
    <3>1. u[Len(u)] = Unit(last, n, h)
      BY <1>10, <2>3 DEF UpTo
    <3>2. Len(u) # t
      <4> SUFFICES ASSUME Len(u) = t PROVE FALSE
        OBVIOUS
      <4>1. t \in 1..Len(u) /\ t <= t
        BY <1>0, <1>1, <1>2
      <4>2. u[t] = Unit(u[1].msg, u[1].len, t)
        BY <1>4, <4>1
      <4>3. u[t].len = u[1].len /\ u[t].at = t
        BY <4>2, UnitEq
      <4>4. u[t].len = n /\ u[t].at = h
        BY <3>1, UnitEq
      <4>5. t = Total(n)
        BY <4>3, <4>4 DEF t
      <4> QED
        BY <2>0, <2>3, <4>3, <4>4, <4>5
    <3>3. Len(v) \in 1..Len(v) /\ Len(v) + t = Len(u) /\ Len(v) >= 1
      BY <1>0, <1>1, <1>2, <1>3, <3>2
    <3> QED
      BY <1>3, <3>1, <3>3
  <2>4. ASSUME h = Total(n) PROVE Held(last, e, v)
    BY <1>10, <1>6, <2>4 DEF UpTo
  <2> QED
    BY <2>1, <2>2, <2>3, <2>4 DEF UpTo
<1> QED
  BY <1>10, <1>9 DEF v, t, e

\* A message that was delivered to its end leaves nothing half done.
LEMMA StreamClose ==
  ASSUME NEW u \in Seq(Units), NEW g \in Seq(1..MaxMsgs), NEW conf, NEW m \in 1..MaxMsgs,
         NEW n \in BodyLens, Stream(u, g, conf, m, m), UpTo(u, g, m, n, Total(n))
  PROVE  Stream(u, g, conf \cup {m}, m, 0) /\ Stream(u, g, conf, m, 0)
<1>0. Total(n) \in Nat /\ Held(m, g, u) /\ Parsed(u) /\ Len(u) \in Nat /\ m \in Nat
  BY TotalNat, Sizes DEF UpTo, Stream
<1>1. ASSUME NEW k \in 1..Len(u), u[k].msg = m PROVE Whole(u, k)
  <2>0. /\ u[k].at \in Nat /\ Total(u[k].len) \in Nat /\ k \in Nat /\ u[k].len = n
    BY <1>1, UnitNat DEF UpTo
  <2>1. ~ \E i \in 1..Len(g) : g[i] = m
    <3> SUFFICES ASSUME NEW i \in 1..Len(g), g[i] = m PROVE FALSE
      OBVIOUS
    <3>1. g[i] < u[k].msg
      BY DEF Stream
    <3> QED
      BY <1>0, <1>1, <3>1
  <2>2. PICK d \in 1..Len(u) : u[d].msg = m /\ u[d].at = 1 /\ Whole(u, d)
    BY <1>0, <2>1 DEF Held
  <2>3. u[d].len = n /\ d \in Nat
    BY <2>2 DEF UpTo
  <2>4. d - 1 + Total(n) <= Len(u)
    BY <2>2, <2>3 DEF Whole
  <2>5. CASE d <= k
    <3>1. u[k] = Unit(u[d].msg, u[d].len, k - d + u[d].at)
      BY <1>0, <1>1, <2>2, <2>5, SameMessage
    <3>2. u[k].at = k - d + 1
      BY <2>2, <3>1, UnitEq
    <3>3. k - u[k].at + Total(n) <= Len(u)
      BY <1>0, <2>0, <2>3, <2>4, <3>2
    <3> QED
      BY <2>0, <3>3 DEF Whole
  <2>6. CASE k < d
    <3>1. u[d] = Unit(u[k].msg, u[k].len, d - k + u[k].at)
      BY <1>0, <1>1, <2>0, <2>2, <2>3, <2>6, SameMessage
    <3>2. u[d].at = d - k + u[k].at
      BY <3>1, UnitEq
    <3>3. u[k].at >= 1
      BY <1>0, <2>0, ParsedAt
    <3> QED
      BY <2>0, <2>2, <2>3, <2>6, <3>2, <3>3
  <2> QED
    BY <2>0, <2>3, <2>5, <2>6
<1> QED
  BY <1>0, <1>1 DEF Stream

\* A message of which nothing was delivered can be dropped.
LEMMA StreamForget ==
  ASSUME NEW u \in Seq(Units), NEW g \in Seq(1..MaxMsgs), NEW conf, NEW m \in 1..MaxMsgs,
         NEW n \in BodyLens, Stream(u, g, conf, m, m), UpTo(u, g, m, n, 0)
  PROVE  Stream(u, g, conf, m, 0)
<1>1. ASSUME NEW k \in 1..Len(u), u[k].msg = m PROVE FALSE
  <2>1. u[k].at <= 0
    BY <1>1 DEF UpTo
  <2>2. u[k].at \in Nat /\ Total(u[k].len) \in Nat
    BY UnitNat
  <2>3. Parsed(u)
    BY DEF Stream
  <2>4. u[k].at \in 1..Total(u[k].len)
    BY <2>3, ParsedAt
  <2> QED
    BY <2>1, <2>2, <2>4
<1> QED
  BY <1>1 DEF Stream

\* The next message starts behind whole ones.
LEMMA StreamStart ==
  ASSUME NEW u \in Seq(Units), NEW g \in Seq(1..MaxMsgs), NEW conf, NEW last \in Nat,
         NEW n \in BodyLens, Stream(u, g, conf, last, 0)
  PROVE  Stream(u, g, conf, last + 1, last + 1) /\ UpTo(u, g, last + 1, n, 0)
<1>0. Total(n) \in Nat /\ Total(n) >= 1
  BY TotalNat
<1>1. ASSUME NEW i \in 1..Len(g) PROVE g[i] < last + 1 /\ g[i] <= last + 1
  <2>1. g[i] <= last /\ g[i] \in Nat
    BY GotNat DEF Stream
  <2> QED
    BY <2>1
<1>2. ASSUME NEW k \in 1..Len(u)
      PROVE u[k].msg <= last + 1 /\ u[k].msg # last + 1 /\ Whole(u, k)
  <2>1. u[k].msg \in Nat /\ u[k].msg >= 1
    BY UnitNat
  <2>2. u[k].msg <= last /\ (Whole(u, k) \/ u[k].msg = 0)
    BY DEF Stream
  <2> QED
    BY <2>1, <2>2
<1>3. Stream(u, g, conf, last + 1, last + 1)
  BY <1>1, <1>2 DEF Stream
<1>4. UpTo(u, g, last + 1, n, 0)
  BY <1>0, <1>1, <1>2 DEF UpTo
<1> QED
  BY <1>3, <1>4

LEMMA StreamEmpty ==
  ASSUME NEW last, NEW open
  PROVE  Stream(<<>>, <<>>, {}, last, open) /\ Increasing(<<>>)
<1>1. Len(<<>>) = 0 /\ 1..0 = {}
  OBVIOUS
<1> QED
  BY <1>1 DEF Stream, Parsed, Increasing

-----------------------------------------------------------------------------
(* Lemmas about the lines                                                  *)

\* Two numbers in a row have slots of their own.
LEMMA Neighbours ==
  ASSUME NEW s \in Seqs
  PROVE  budgetIdx(NextSeq(s)) # budgetIdx(s) /\ NextSeq(s) # s /\ NextSeq(s) \in Seqs
<1>1. Ahead(s, 0) = s /\ Ahead(s, 1) = NextSeq(s)
  BY Sizes DEF Ahead, NextSeq, Seqs
<1>2. 0 \in 0..(PIPELINE_WINDOW - 1) /\ 1 \in 0..(PIPELINE_WINDOW - 1)
  BY Sizes
<1>3. budgetIdx(Ahead(s, 0)) = budgetIdx(Ahead(s, 1)) => 0 = 1
  BY <1>2, BudgetAssumption
<1> QED
  BY <1>1, <1>3, SeqFacts

LEMMA TailIs ==
  ASSUME NEW S, NEW q \in Seq(S), q # <<>>
  PROVE  /\ Tail(q) \in Seq(S) /\ Len(Tail(q)) = Len(q) - 1 /\ Len(q) \in Nat /\ Len(q) >= 1
         /\ \A i \in 1..Len(Tail(q)) : i + 1 \in 1..Len(q) /\ Tail(q)[i] = q[i + 1]
         /\ Head(q) = q[1] /\ q[1] \in S /\ 1 \in 1..Len(q)
<1>1. /\ Head(q) \in S /\ Tail(q) \in Seq(S) /\ Len(Tail(q)) = Len(q) - 1
      /\ \A i \in 1..Len(Tail(q)) : Tail(q)[i] = q[i + 1]
  BY HeadTailProperties
<1>2. Len(q) \in Nat /\ Len(q) >= 1 /\ Head(q) = q[1] /\ 1 \in 1..Len(q)
  OBVIOUS
<1>3. \A i \in 1..Len(Tail(q)) : i + 1 \in 1..Len(q)
  BY <1>1, <1>2
<1> QED
  BY <1>1, <1>2, <1>3

LEMMA AppendIs ==
  ASSUME NEW S, NEW q \in Seq(S), NEW e \in S
  PROVE  /\ Append(q, e) \in Seq(S) /\ Len(Append(q, e)) = Len(q) + 1 /\ Len(q) \in Nat
         /\ \A i \in 1..Len(q) : Append(q, e)[i] = q[i]
         /\ Append(q, e)[Len(q) + 1] = e
         /\ \A i \in 1..Len(Append(q, e)) : i \in 1..Len(q) \/ i = Len(q) + 1
<1>1. /\ Append(q, e) \in Seq(S) /\ Len(Append(q, e)) = Len(q) + 1
      /\ \A i \in 1..Len(q) : Append(q, e)[i] = q[i]
      /\ Append(q, e)[Len(q) + 1] = e
  BY AppendProperties
<1>2. Len(q) \in Nat
  OBVIOUS
<1> QED
  BY <1>1, <1>2

LEMMA DataEmpty ==
  ASSUME NEW mode, NEW cur, NEW bytes, NEW rx
  PROVE  DataOK(<<>>, mode, cur, bytes, rx)
<1>1. Len(<<>>) = 0 /\ 1..0 = {}
  OBVIOUS
<1> QED
  BY <1>1 DEF DataOK

LEMMA DataTail ==
  ASSUME NEW d \in Seq(DataFrames), d # <<>>, NEW mode, NEW cur, NEW bytes, NEW rx,
         DataOK(d, mode, cur, bytes, rx)
  PROVE  DataOK(Tail(d), mode, cur, bytes, rx)
<1> DEFINE e == Tail(d)
<1>1. /\ Len(e) = Len(d) - 1 /\ Len(d) \in Nat
      /\ \A i \in 1..Len(e) : i + 1 \in 1..Len(d) /\ e[i] = d[i + 1]
  BY TailIs
<1> HIDE DEF e
<1>2. ASSUME mode = "none", NEW i \in 1..Len(e) PROVE e[i].seq = rx
  BY <1>1, <1>2 DEF DataOK
<1>3. ASSUME mode = "out", NEW i \in 1..Len(e)
      PROVE  /\ e[i].seq = rx \/ (e[i].seq = cur /\ e[i].bytes = bytes)
             /\ \A k \in 1..Len(e) : i < k /\ e[i].seq = cur => e[k].seq = cur
  <2>1. e[i].seq = rx \/ (e[i].seq = cur /\ e[i].bytes = bytes)
    BY <1>1, <1>3 DEF DataOK
  <2>2. ASSUME NEW k \in 1..Len(e), i < k, e[i].seq = cur PROVE e[k].seq = cur
    <3>1. i + 1 \in 1..Len(d) /\ k + 1 \in 1..Len(d) /\ i + 1 < k + 1
          /\ e[i] = d[i + 1] /\ e[k] = d[k + 1]
      BY <1>1, <2>2
    <3> QED
      BY <1>3, <2>2, <3>1 DEF DataOK
  <2> QED
    BY <2>1, <2>2
<1>4. ASSUME mode = "stray", NEW i \in 1..Len(e)
      PROVE  e[i].seq = rx \/ (i = Len(e) /\ e[i].bytes = bytes)
  <2>1. i + 1 \in 1..Len(d) /\ e[i] = d[i + 1] /\ (i + 1 = Len(d) => i = Len(e))
    BY <1>1
  <2> QED
    BY <1>4, <2>1 DEF DataOK
<1>5. DataOK(e, mode, cur, bytes, rx)
  BY <1>2, <1>3, <1>4 DEF DataOK
<1> QED
  BY <1>5 DEF e

LEMMA DataPrefix ==
  ASSUME NEW d \in Seq(DataFrames), NEW mode, NEW cur, NEW bytes, NEW rx,
         DataOK(d, mode, cur, bytes, rx), NEW e \in Truncated(d)
  PROVE  DataOK(e, mode, cur, bytes, rx)
<1>1. Len(e) <= Len(d) /\ Len(d) \in Nat /\ Len(e) \in Nat
  BY PrefixIs
<1>2. \A i \in 1..Len(e) : i \in 1..Len(d) /\ e[i] = d[i] /\ (i = Len(d) => i = Len(e))
  BY <1>1, PrefixIs
<1> QED
  BY <1>2 DEF DataOK

\* A frame that is no duplicate is the one that is out.
LEMMA DataHead ==
  ASSUME NEW d \in Seq(DataFrames), d # <<>>, NEW mode \in {"none", "out", "stray"},
         NEW cur, NEW bytes, NEW rx,
         DataOK(d, mode, cur, bytes, rx), d[1].seq # rx
  PROVE  /\ mode # "none" /\ d[1].bytes = bytes
         /\ mode = "out" => d[1].seq = cur
         /\ mode = "stray" => Len(d) = 1
<1>1. 1 \in 1..Len(d)
  BY TailIs
<1> QED
  BY <1>1 DEF DataOK

\* The frame that is out is taken: what follows it are its duplicates.
LEMMA DataTaken ==
  ASSUME NEW d \in Seq(DataFrames), d # <<>>, NEW cur, NEW bytes, NEW rx,
         DataOK(d, "out", cur, bytes, rx), d[1].seq = cur
  PROVE  DataOK(Tail(d), "out", cur, bytes, cur)
<1>1. /\ 1 \in 1..Len(d)
      /\ \A i \in 1..Len(Tail(d)) : i + 1 \in 1..Len(d) /\ Tail(d)[i] = d[i + 1]
  BY TailIs
<1>2. ASSUME NEW i \in 1..Len(Tail(d)) PROVE Tail(d)[i].seq = cur
  <2>1. i + 1 \in 1..Len(d) /\ 1 < i + 1 /\ Tail(d)[i] = d[i + 1]
    BY <1>1
  <2>2. d[i + 1].seq = cur
    BY <1>1, <2>1 DEF DataOK
  <2> QED
    BY <2>1, <2>2
<1> QED
  BY <1>2 DEF DataOK

\* Once it was taken, only duplicates are left.
LEMMA DataNext ==
  ASSUME NEW d, NEW cur, NEW bytes, NEW next, NEW more,
         DataOK(d, "out", cur, bytes, cur)
  PROVE  DataOK(d, "none", next, more, cur)
  BY DEF DataOK

LEMMA DataSend ==
  ASSUME NEW d \in Seq(DataFrames), NEW mode \in {"none", "out"}, NEW cur \in Seqs,
         NEW bytes \in Seq(Units), NEW rx, DataOK(d, mode, cur, bytes, rx),
         mode = "none" => rx # cur
  PROVE  DataOK(Append(d, [seq |-> cur, bytes |-> bytes]), "out", cur, bytes, rx)
<1> DEFINE f == [seq |-> cur, bytes |-> bytes]
           e == Append(d, f)
<1>0. f \in DataFrames /\ f.seq = cur /\ f.bytes = bytes
  BY DEF DataFrames
<1> HIDE DEF f
<1>1. /\ Len(e) = Len(d) + 1 /\ Len(d) \in Nat
      /\ \A i \in 1..Len(d) : e[i] = d[i]
      /\ e[Len(d) + 1] = f
      /\ \A i \in 1..Len(e) : i \in 1..Len(d) \/ i = Len(d) + 1
  BY <1>0, AppendIs
<1> HIDE DEF e
<1>2. ASSUME NEW i \in 1..Len(e) PROVE e[i].seq = rx \/ (e[i].seq = cur /\ e[i].bytes = bytes)
  <2>1. CASE i \in 1..Len(d)
    BY <1>1, <2>1 DEF DataOK
  <2> QED
    BY <1>0, <1>1, <2>1
<1>3. ASSUME NEW i \in 1..Len(e), NEW k \in 1..Len(e), i < k, e[i].seq = cur
      PROVE  e[k].seq = cur
  <2>1. CASE k \in 1..Len(d)
    <3>1. i \in 1..Len(d) /\ e[i] = d[i] /\ e[k] = d[k]
      BY <1>1, <1>3, <2>1
    <3> QED
      BY <1>3, <2>1, <3>1 DEF DataOK
  <2> QED
    BY <1>0, <1>1, <2>1
<1>4. DataOK(e, "out", cur, bytes, rx)
  BY <1>2, <1>3 DEF DataOK
<1> QED
  BY <1>4 DEF e, f

LEMMA DataStray ==
  ASSUME NEW d \in Seq(DataFrames), NEW cur, NEW s \in Seqs,
         NEW bytes \in Seq(Units), NEW rx, DataOK(d, "none", cur, bytes, rx)
  PROVE  DataOK(Append(d, [seq |-> s, bytes |-> bytes]), "stray", cur, bytes, rx)
<1> DEFINE f == [seq |-> s, bytes |-> bytes]
           e == Append(d, f)
<1>0. f \in DataFrames /\ f.bytes = bytes
  BY DEF DataFrames
<1> HIDE DEF f
<1>1. /\ Len(e) = Len(d) + 1
      /\ \A i \in 1..Len(d) : e[i] = d[i]
      /\ e[Len(d) + 1] = f
      /\ \A i \in 1..Len(e) : i \in 1..Len(d) \/ i = Len(d) + 1
  BY <1>0, AppendIs
<1> HIDE DEF e
<1>2. ASSUME NEW i \in 1..Len(e) PROVE e[i].seq = rx \/ (i = Len(e) /\ e[i].bytes = bytes)
  <2>1. CASE i \in 1..Len(d)
    BY <1>1, <2>1 DEF DataOK
  <2> QED
    BY <1>0, <1>1, <2>1
<1>3. DataOK(e, "stray", cur, bytes, rx)
  BY <1>2 DEF DataOK
<1> QED
  BY <1>3 DEF e, f

LEMMA AcksEmpty ==
  ASSUME NEW mode, NEW cur, NEW rx
  PROVE  AcksOK(<<>>, mode, cur, rx) /\ AllAcked(<<>>, cur)
<1>1. Len(<<>>) = 0 /\ 1..0 = {}
  OBVIOUS
<1> QED
  BY <1>1 DEF AcksOK, AllAcked

LEMMA AcksTail ==
  ASSUME NEW a \in Seq(CtrlFrames), a # <<>>, NEW mode, NEW cur, NEW rx
  PROVE  /\ AcksOK(a, mode, cur, rx) => AcksOK(Tail(a), mode, cur, rx)
         /\ \A s : AllAcked(a, s) => AllAcked(Tail(a), s)
<1> DEFINE e == Tail(a)
<1>1. \A i \in 1..Len(e) : i + 1 \in 1..Len(a) /\ e[i] = a[i + 1]
  BY TailIs
<1> HIDE DEF e
<1>2. ASSUME AcksOK(a, mode, cur, rx) PROVE AcksOK(e, mode, cur, rx)
  <2>1. ASSUME NEW i \in 1..Len(e), e[i].type = "ACK"
        PROVE  NextSeq(e[i].seq) = cur \/ (mode = "out" /\ e[i].seq = cur /\ rx = cur)
    BY <1>1, <1>2, <2>1 DEF AcksOK
  <2>2. ASSUME NEW i \in 1..Len(e), NEW k \in 1..Len(e), i < k, e[i].type = "ACK",
               e[k].type = "ACK", e[i].seq = cur
        PROVE  e[k].seq = cur
    <3>1. i + 1 \in 1..Len(a) /\ k + 1 \in 1..Len(a) /\ i + 1 < k + 1
          /\ e[i] = a[i + 1] /\ e[k] = a[k + 1]
      BY <1>1, <2>2
    <3> QED
      BY <1>2, <2>2, <3>1 DEF AcksOK
  <2> QED
    BY <2>1, <2>2 DEF AcksOK
<1>3. \A s : AllAcked(a, s) => AllAcked(e, s)
  BY <1>1 DEF AllAcked
<1> QED
  BY <1>2, <1>3 DEF e

\* The first ACK is for the frame that is out: so are the others.
LEMMA AcksHead ==
  ASSUME NEW a \in Seq(CtrlFrames), a # <<>>, NEW mode, NEW cur \in Seqs, NEW rx,
         AcksOK(a, mode, cur, rx), a[1].type = "ACK", a[1].seq = cur
  PROVE  rx = cur /\ AllAcked(Tail(a), cur)
<1>1. /\ 1 \in 1..Len(a)
      /\ \A i \in 1..Len(Tail(a)) : i + 1 \in 1..Len(a) /\ Tail(a)[i] = a[i + 1]
  BY TailIs
<1>2. rx = cur
  BY <1>1, SeqFacts DEF AcksOK
<1>3. ASSUME NEW i \in 1..Len(Tail(a)), Tail(a)[i].type = "ACK" PROVE Tail(a)[i].seq = cur
  <2>1. i + 1 \in 1..Len(a) /\ 1 < i + 1 /\ Tail(a)[i] = a[i + 1]
    BY <1>1
  <2> QED
    BY <1>1, <1>3, <2>1 DEF AcksOK
<1> QED
  BY <1>2, <1>3 DEF AllAcked

\* A reply to the last frame delivered.
LEMMA AcksReply ==
  ASSUME NEW a \in Seq(CtrlFrames), NEW mode, NEW cur \in Seqs, NEW rx,
         AcksOK(a, mode, cur, rx), CursorOK(mode, cur, rx), NEW f \in CtrlFrames,
         f.type = "ACK" => f.seq = rx
  PROVE  /\ AcksOK(Append(a, f), mode, cur, rx)
         /\ AllAcked(a, cur) /\ rx = cur => AllAcked(Append(a, f), cur)
<1> DEFINE e == Append(a, f)
<1>1. /\ Len(e) = Len(a) + 1 /\ Len(a) \in Nat
      /\ \A i \in 1..Len(a) : e[i] = a[i]
      /\ e[Len(a) + 1] = f
      /\ \A i \in 1..Len(e) : i \in 1..Len(a) \/ i = Len(a) + 1
  BY AppendIs
<1>a. f.type = "ACK" => rx # NoSeq
  BY SeqFacts DEF CtrlFrames
<1> HIDE DEF e
<1>2. ASSUME NEW i \in 1..Len(e), e[i].type = "ACK"
      PROVE  NextSeq(e[i].seq) = cur \/ (mode = "out" /\ e[i].seq = cur /\ rx = cur)
  <2>1. CASE i \in 1..Len(a)
    BY <1>1, <1>2, <2>1 DEF AcksOK
  <2>2. CASE i = Len(a) + 1
    BY <1>1, <1>2, <1>a, <2>2 DEF CursorOK
  <2> QED
    BY <1>1, <2>1, <2>2
<1>3. ASSUME NEW i \in 1..Len(e), NEW k \in 1..Len(e), i < k, e[i].type = "ACK",
             e[k].type = "ACK", e[i].seq = cur
      PROVE  e[k].seq = cur
  <2>1. i \in 1..Len(a) /\ e[i] = a[i]
    BY <1>1, <1>3
  <2>2. CASE k \in 1..Len(a)
    BY <1>1, <1>3, <2>1, <2>2 DEF AcksOK
  <2>3. CASE k = Len(a) + 1
    <3>1. rx = cur
      BY <1>3, <2>1, SeqFacts DEF AcksOK
    <3> QED
      BY <1>1, <1>3, <2>3, <3>1
  <2> QED
    BY <1>1, <2>2, <2>3
<1>4. AcksOK(e, mode, cur, rx)
  BY <1>2, <1>3 DEF AcksOK
<1>5. AllAcked(a, cur) /\ rx = cur => AllAcked(e, cur)
  BY <1>1 DEF AllAcked
<1> QED
  BY <1>4, <1>5 DEF e

\* The frame that is out is delivered.
LEMMA AcksTaken ==
  ASSUME NEW a, NEW cur, NEW rx, AcksOK(a, "out", cur, rx)
  PROVE  AcksOK(a, "out", cur, cur)
  BY DEF AcksOK

\* It is acknowledged, and the next number is due.
LEMMA AcksNext ==
  ASSUME NEW a, NEW cur \in Seqs, NEW rx, AllAcked(a, cur)
  PROVE  AcksOK(a, "none", NextSeq(cur), rx)
  BY SeqFacts DEF AcksOK, AllAcked

LEMMA AcksSend ==
  ASSUME NEW a, NEW cur, NEW rx, NEW mode, AcksOK(a, "none", cur, rx)
  PROVE  AcksOK(a, mode, cur, rx)
  BY DEF AcksOK

-----------------------------------------------------------------------------
(* What holds in every session                                             *)

LEMMA IdleIs ==
  /\ Idle.phase = "idle" /\ Idle.gen = 0 /\ Idle.sess = 0 /\ Idle.seq = 0 /\ Idle.msg = 0
  BY DEF Idle

\* A call that leaves with its frame, or to wait for room.
LEMMA SenderSends ==
  ASSUME TypeInv, SenderInv, NEW c, Ready(c), c.sess <= session, c.msg = msgs',
         c.sess = session => "sender" \in joined, c.gen <= clearAllEpoch,
         \/ Transmit(c) /\ Len(data) < RingCap
         \/ call' = [c EXCEPT !.phase = "drain"],
         UNCHANGED <<sState, clearAllEpoch, session, joined>>
  PROVE  SenderInv'
<1>1. sState' = "OK" => "sender" \in joined'
  BY DEF SenderInv
<1>0. clearAllEpoch \in Nat /\ session \in Nat
  BY DEF TypeInv, SendTypes, HistTypes
<1>2. CASE Transmit(c) /\ Len(data) < RingCap
  <2>1. call' = SentCall(c, clearAllEpoch)
    BY <1>2, TransmitTypes
  <2>2. /\ call'.phase = "wait" /\ call'.gen = clearAllEpoch /\ call'.msg = c.msg
        /\ call'.sess = c.sess /\ call'.seq = c.seq
    BY <2>1, SentCallIs DEF Ready
  <2>3. budgetIdx(c.seq) \in pending'
    BY <1>2 DEF Transmit
  <2>4. ~AckedBy(call', pending', clearAllEpoch')
    BY <2>2, <2>3 DEF AckedBy
  <2> QED
    BY <1>0, <1>1, <2>2, <2>4 DEF SenderInv, Live
<1>3. CASE call' = [c EXCEPT !.phase = "drain"]
  <2>2. /\ call'.phase = "drain" /\ call'.gen = c.gen /\ call'.msg = c.msg
        /\ call'.sess = c.sess
    BY <1>3, DrainCallIs DEF Ready, DrainCall
  <2> QED
    BY <1>0, <1>1, <2>2 DEF SenderInv, Live
<1> QED
  BY <1>2, <1>3

\* A call that returns.
LEMMA SenderReturns ==
  ASSUME TypeInv, SenderInv, call' = Idle, session' = session, joined' = joined,
         clearAllEpoch' \in Nat, sState' = "OK" => sState = "OK"
  PROVE  SenderInv'
<1>1. call'.phase = "idle" /\ call'.gen = 0 /\ call'.sess = 0
  BY IdleIs
<1>2. session \in Nat /\ 0 <= session /\ 0 <= clearAllEpoch'
  BY DEF TypeInv, HistTypes
<1> QED
  BY <1>1, <1>2 DEF SenderInv, Live

LEMMA SenderCalls ==
  ASSUME TypeInv, SenderInv, CallNext
  PROVE  SenderInv'
<1>0. UNCHANGED <<session, joined, msgs>> /\ clearAllEpoch \in Nat /\ session \in Nat
  BY DEF CallNext, FrameAcked, WaitReset, WaitNak, WaitTimeout, Drain, SenderStep, world,
         TypeInv, SendTypes, HistTypes
<1>1. call.phase # "idle" /\ call.msg = msgs /\ call.sess <= session /\ call.gen <= clearAllEpoch
      /\ (call.sess = session => "sender" \in joined)
  BY DEF CallNext, FrameAcked, WaitReset, WaitNak, WaitTimeout, Drain, Waiting, SenderInv, Live
<1>2. Ready(call) /\ \A spent : Ready(AgainCall(call, spent))
  BY <1>1, ActiveReady DEF TypeInv
<1>3. CASE FrameAcked
  <2>1. UNCHANGED <<sState, clearAllEpoch>>
    BY <1>3 DEF FrameAcked
  <2>2. CASE call' = Idle
    BY <1>0, <2>1, <2>2, SenderReturns
  <2>3. CASE ~LastPart(call) /\ SendFrame(NextCall(call, txSeq))
    <3>1. PICK d : d = NextCall(call, txSeq)
      OBVIOUS
    <3>2. /\ IsCall(d) /\ d.gen = call.gen /\ d.msg = call.msg /\ d.len = call.len
          /\ d.merged = call.merged /\ d.part = call.part + 1 /\ d.seq = txSeq
          /\ d.sess = call.sess
      <4> DEFINE e == NextCall(call, txSeq)
      <4>2. /\ IsCall(e) /\ e.gen = call.gen /\ e.msg = call.msg /\ e.len = call.len
            /\ e.merged = call.merged /\ e.part = call.part + 1 /\ e.seq = txSeq
            /\ e.sess = call.sess
        BY NextCallIs, ZenonT(30) DEF TypeInv, CallOK
      <4> HIDE DEF e
      <4>3. d = e
        BY <3>1 DEF e
      <4> QED
        BY <4>2, <4>3
    <3>3. call.part < call.len /\ ~call.merged
      BY <1>2, <2>3, PayloadIs DEF Ready
    <3>4. call.len \in Nat
      BY <1>2, Sizes DEF Ready
    <3>5. Ready(d)
      BY <1>2, <3>2, <3>3, <3>4 DEF Ready, TypeInv, SendTypes
    <3>6. \/ Transmit(d) /\ Len(data) < RingCap
          \/ call' = [d EXCEPT !.phase = "drain"]
      BY <2>3, <3>1 DEF SendFrame
    <3> QED
      BY <1>0, <1>1, <2>1, <3>2, <3>5, <3>6, SenderSends
  <2> QED
    BY <1>3, <2>2, <2>3 DEF FrameAcked, NextCall
<1>4. ASSUME NEW dt, NEW clear, RtoStep(dt, clear) PROVE SenderInv'
  <2>1. PICK c : c = AgainCall(call, Spent(call, dt))
    OBVIOUS
  <2>2. /\ IsCall(c) /\ c.gen = call.gen /\ c.msg = call.msg /\ c.sess = call.sess
    BY <1>2, <2>1, AgainCallIs DEF Ready
  <2>3. Ready(c)
    BY <1>2, <2>1
  <2>4. \/ GiveUp(call, clear) /\ UNCHANGED nakWake
        \/ /\ \/ Transmit(c) /\ Len(data) < RingCap
              \/ call' = [c EXCEPT !.phase = "drain"]
           /\ UNCHANGED <<sState, clearAllEpoch>>
    BY <1>4, <2>1 DEF RtoStep, AgainCall
  <2>5. CASE GiveUp(call, clear)
    <3>1. clearAllEpoch' \in Nat /\ call' = Idle
      BY <2>5, GiveUpTypes
    <3>2. sState' = "OK" => sState = "OK"
      BY <2>5 DEF GiveUp, SenderWipe
    <3> QED
      BY <1>0, <3>1, <3>2, SenderReturns
  <2> QED
    BY <1>0, <1>1, <2>2, <2>3, <2>4, <2>5, SenderSends
<1>5. CASE Drain
  <2>1. CASE Len(data) < RingCap /\ Transmit(call) /\ UNCHANGED <<sState, clearAllEpoch>>
    BY <1>0, <1>1, <1>2, <2>1, SenderSends
  <2>2. CASE GiveUp(call, {})
    <3>1. clearAllEpoch' \in Nat /\ call' = Idle
      BY <2>2, GiveUpTypes
    <3>2. sState' = "OK" => sState = "OK"
      BY <2>2 DEF GiveUp, SenderWipe
    <3> QED
      BY <1>0, <3>1, <3>2, SenderReturns
  <2>3. CASE call' = Idle /\ UNCHANGED <<sState, clearAllEpoch>>
    BY <1>0, <2>3, SenderReturns
  <2> QED
    BY <1>5, <2>1, <2>2, <2>3 DEF Drain
<1> QED
  BY <1>3, <1>4, <1>5 DEF CallNext, WaitReset, WaitNak, WaitTimeout

LEMMA SenderNext ==
  ASSUME TypeInv, SenderInv, [Next]_vars
  PROVE  SenderInv'
<1>0. clearAllEpoch \in Nat /\ session \in Nat /\ call.gen \in Nat /\ call.sess \in Nat
  BY DEF TypeInv, SendTypes, HistTypes, CallOK
<1>1. ASSUME NEW n \in BodyLens, NEW merged \in BOOLEAN, SendMsg(n, merged)
      PROVE  SenderInv'
  <2>1. /\ SendFrame(FirstCall(n, merged)) /\ msgs' = msgs + 1 /\ sState = "OK"
        /\ UNCHANGED <<sState, clearAllEpoch, world>>
    BY <1>1 DEF SendMsg, FirstCall
  <2>2. PICK d : d = FirstCall(n, merged)
    OBVIOUS
  <2>3. d.gen = 0 /\ d.msg = msgs + 1 /\ d.sess = session
    BY <2>2, FirstCallIs, Zenon
  <2>4. Ready(d)
    BY <1>1, <2>2, FirstReady
  <2>5. \/ Transmit(d) /\ Len(data) < RingCap
        \/ call' = [d EXCEPT !.phase = "drain"]
    BY <2>1, <2>2 DEF SendFrame
  <2>6. d.gen <= clearAllEpoch /\ d.sess <= session /\ d.msg = msgs'
        /\ (d.sess = session => "sender" \in joined)
    BY <1>0, <2>1, <2>3 DEF SenderInv
  <2>7. UNCHANGED <<sState, clearAllEpoch, session, joined>>
    BY <2>1 DEF world
  <2> QED
    BY <2>4, <2>5, <2>6, <2>7, SenderSends
<1>2. CASE CallNext
  BY <1>2, SenderCalls
<1>3. CASE OnAck
  <2>1. /\ UNCHANGED <<sState, clearAllEpoch, call, msgs, session, joined>>
        /\ sState = "SWP" => pending' = pending
    BY <1>3 DEF OnAck, world
  <2> QED
    BY <2>1 DEF SenderInv
<1>4. CASE UNCHANGED <<sState, clearAllEpoch, call, msgs, session, joined, pending>>
  BY <1>4 DEF SenderInv
<1>5. CASE SenderReset
  <2>1. /\ sState' = "SWP" /\ clearAllEpoch' = clearAllEpoch + 1
        /\ UNCHANGED <<call, msgs, session, joined>>
    BY <1>5 DEF SenderReset, SenderWipe, world
  <2>2. call.gen # clearAllEpoch'
    BY <1>0, <2>1 DEF SenderInv
  <2>3. ~AckedBy(call, pending', clearAllEpoch')
    BY <2>2 DEF AckedBy
  <2>4. call.gen <= clearAllEpoch'
    BY <1>0, <2>1 DEF SenderInv
  <2> QED
    BY <2>1, <2>3, <2>4 DEF SenderInv
<1>6. CASE SenderLock \/ ReceiverLock
  <2>1. /\ UNCHANGED <<pending, clearAllEpoch, call, msgs>>
        /\ sState' = "SWP" => sState = "SWP"
        /\ \/ session' = session + 1 /\ sState = "SWP" /\ (sState' = "OK" => joined' = {"sender"})
           \/ /\ session' = session /\ joined \subseteq joined'
              /\ sState' # sState => "sender" \in joined'
    BY <1>6 DEF SenderLock, ReceiverLock, NewSession, JoinSession, sender
  <2>2. sState' \in {"OK", "SWP"} /\ sState \in {"OK", "SWP"}
    BY <1>6, NextTypes DEF Next, TypeInv, SendTypes
  <2>3. call.sess <= session' /\ (session' = session + 1 => ~Live(call, session'))
    BY <1>0, <2>1 DEF SenderInv, Live
  <2>4. sState' = "OK" => "sender" \in joined'
    BY <2>1, <2>2 DEF SenderInv
  <2>5. Live(call, session') => "sender" \in joined'
    BY <2>1, <2>3 DEF SenderInv
  <2> QED
    BY <2>1, <2>3, <2>4, <2>5 DEF SenderInv
<1> QED
  <2>1. CASE ReceiverReset \/ LoseData \/ LoseCtrl \/ UNCHANGED vars
    BY <1>4, <2>1 DEF ReceiverReset, LoseData, LoseCtrl, vars, sender, world
  <2>2. CASE UartNext
    BY <1>3, <1>4, <2>2 DEF UartNext, OnNak, ReceiveSweeping, ReceiveStale, ReceiveGap,
       ReceiveHeld, ReceiveForward, Receive, sender, world
  <2>3. CASE AppNext
    BY <1>4, <2>3 DEF AppNext, RecvStale, RecvBadHeader, RecvHeader, RecvBody, Err, AppStep,
       sender, world
  <2> QED
    BY <1>1, <1>2, <1>5, <1>6, <2>1, <2>2, <2>3 DEF Next

LEMMA ReceiverNext ==
  ASSUME TypeInv, ReceiverInv, [Next]_vars
  PROVE  ReceiverInv'
<1>0. rState \in {"OK", "SWP"}
  BY DEF TypeInv, RecvTypes
<1>1. CASE UNCHANGED <<rState, joined, rxSeqSet, appBuf, msgRx>>
  BY <1>1, Zenon DEF ReceiverInv
<1>2. CASE rState = "OK" /\ rState' = "OK" /\ joined' = joined
  BY <1>2 DEF ReceiverInv
<1>3. CASE ReceiverWipe
  BY <1>3 DEF ReceiverWipe, ReceiverInv
<1>4. CASE SenderLock
  <2>1. /\ UNCHANGED <<rState, rxSeqSet, appBuf, msgRx>>
        /\ rState = "OK" => joined \subseteq joined'
    BY <1>4 DEF SenderLock, NewSession, JoinSession
  <2> QED
    BY <2>1 DEF ReceiverInv
<1>5. CASE ReceiverLock
  <2>1. rState' = "OK" /\ "receiver" \in joined'
    BY <1>5 DEF ReceiverLock, NewSession, JoinSession
  <2> QED
    BY <2>1 DEF ReceiverInv
<1> QED
  <2>1. CASE ReceiverReset \/ SenderReset \/ LoseData \/ LoseCtrl \/ UNCHANGED vars
    BY <1>1, <1>3, <2>1 DEF ReceiverReset, SenderReset, LoseData, LoseCtrl, vars, receiver, world
  <2>2. CASE UartNext
    BY <1>1, <1>2, <2>2 DEF UartNext, OnAck, OnNak, ReceiveSweeping, ReceiveStale, ReceiveGap,
       ReceiveHeld, ReceiveForward, Receive, receiver, world
  <2>3. CASE AppNext
    <3>1. CASE Err
      BY <1>1, <1>3, <3>1 DEF Err, world
    <3>2. CASE AppStep /\ rState = "OK"
      BY <1>2, <3>2 DEF AppStep, world
    <3> QED
      BY <2>3, <3>1, <3>2 DEF AppNext, RecvStale, RecvBadHeader, RecvHeader, RecvBody, AppCalls
  <2>4. CASE CallNext
    BY <1>1, <2>4 DEF CallNext, FrameAcked, WaitReset, WaitNak, WaitTimeout, Drain, SenderStep,
       receiver, world
  <2>5. ASSUME NEW n \in BodyLens, NEW merged \in BOOLEAN, SendMsg(n, merged)
        PROVE  ReceiverInv'
    BY <1>1, <2>5 DEF SendMsg, receiver, world
  <2> QED
    BY <1>4, <1>5, <2>1, <2>2, <2>3, <2>4, <2>5 DEF Next

-----------------------------------------------------------------------------
(* Steps of the sender in a clean session                                  *)

LEMMA ModeIs ==
  ASSUME NEW c, NEW sess, NEW state \in {"OK", "SWP"}, NEW epoch
  PROVE  LET mode == Mode(c, sess, state, epoch)
         IN  /\ mode \in {"none", "out", "stray"}
             /\ ~Live(c, sess) => mode = "none"
             /\ state = "OK" => mode # "stray"
             /\ Live(c, sess) /\ c.phase = "wait" => mode # "none"
             /\ Live(c, sess) /\ c.phase # "wait" /\ ~c.again => mode = "none"
             /\ Live(c, sess) /\ c.again => mode = "out"
             /\ Live(c, sess) /\ c.phase = "wait" /\ ~c.again /\ c.gen = epoch =>
                  mode = IF state = "SWP" THEN "stray" ELSE "out"
  BY DEF Mode

LEMMA RxTyped ==
  ASSUME TypeInv
  PROVE  Rx \in Seqs \cup {NoSeq} /\ (Rx = NoSeq <=> ~rxSeqSet) /\ (rxSeqSet => Rx = rxSeq)
  BY SeqFacts DEF TypeInv, RecvTypes, Rx

LEMMA UnreadTyped ==
  ASSUME TypeInv, msgRx # NoMsg => msgRx.msg # 0
  PROVE  Unread \in Seq(Units)
<1>1. appBuf \in Seq(Units)
  BY DEF TypeInv, BufTypes
<1>2. CASE msgRx = NoMsg
  BY <1>1, <1>2 DEF Unread
<1>3. CASE msgRx # NoMsg
  <2>1. msgRx.msg \in 1..MaxMsgs /\ msgRx.msg \in 0..MaxMsgs /\ msgRx.len \in BodyLens
    BY <1>3 DEF TypeInv, MsgRxTypes
  <2>2. Header(msgRx.msg, msgRx.len) \in Seq(Units)
    BY <2>1, HeaderTyped
  <2>3. Header(msgRx.msg, msgRx.len) \o appBuf \in Seq(Units)
    BY <1>1, <2>2, ConcatProperties
  <2> QED
    BY <1>3, <2>3 DEF Unread
<1> QED
  BY <1>2, <1>3

\* Nothing has happened yet.
LEMMA FreshClean ==
  ASSUME data' = <<>>, ctrl' = <<>>, got' = <<>>, confirmed' = {}, ~rxSeqSet',
         appBuf' = <<>>, msgRx' = NoMsg, ~Live(call', session'), sState' \in {"OK", "SWP"},
         call'.phase = "wait" => ~AckedBy(call', pending', clearAllEpoch')
  PROVE  CleanInv(call)' /\ Increasing(got)'
<1>1. Rx' = NoSeq
  BY DEF Rx
<1>2. Unread' = <<>>
  BY DEF Unread
<1>3. QuietInv(call)'
  BY <1>1, <1>2 DEF QuietInv
<1>4. NumberInv(call)'
  BY DEF NumberInv
<1>5. CursorInv(call)'
  BY <1>1 DEF CursorInv, CursorOK
<1>6. DataInv(call)'
  BY DataEmpty DEF DataInv
<1>7. AckInv(call)'
  BY AcksEmpty DEF AckInv
<1>8. StreamInv(call)' /\ Increasing(got)'
  BY <1>2, StreamEmpty DEF StreamInv
<1>9. ProgressInv(call)'
  BY DEF ProgressInv
<1> QED
  BY <1>3, <1>4, <1>5, <1>6, <1>7, <1>8, <1>9 DEF CleanInv

\* A call that may send its frame.
Sendable(c, m) ==
  LET mode == IF c.again THEN "out" ELSE "none"
  IN  /\ sState = "OK" \/ c.again => CursorOK(mode, c.seq, Rx)
      /\ DataOK(data, mode, c.seq, Payload(c), Rx)
      /\ sState = "OK" =>
           /\ AcksOK(ctrl, mode, c.seq, Rx)
           /\ txSeq = IF c.again THEN NextSeq(c.seq) ELSE c.seq
      /\ msgRx # NoMsg => msgRx.msg # 0
      /\ Stream(Unread, got, confirmed, m, c.msg)
      /\ ProgressOK(c, mode, Unread, got, Rx, data)

LEMMA SendClean ==
  ASSUME TypeInv, NEW c, Ready(c), c.sess = session, "sender" \in joined,
         Sendable(c, msgs'),
         \/ Transmit(c) /\ Len(data) < RingCap
         \/ call' = [c EXCEPT !.phase = "drain"] /\ UNCHANGED <<data, txSeq>>,
         UNCHANGED <<sState, clearAllEpoch, receiver, ctrl, world, confirmed>>
  PROVE  CleanInv(call)'
<1> DEFINE old == IF c.again THEN "out" ELSE "none"
           new == Mode(call', session', sState', clearAllEpoch')
<1>0. /\ UNCHANGED <<sState, clearAllEpoch, ctrl, session, joined, confirmed, got, msgRx>>
      /\ UNCHANGED <<rxSeq, rxSeqSet, appBuf>>
  BY DEF receiver, world
<1>1. Rx' = Rx /\ Unread' = Unread
  BY <1>0 DEF Rx, Unread
<1>2. c.seq \in Seqs /\ txSeq \in Seqs /\ sState \in {"OK", "SWP"} /\ Payload(c) \in Seq(Units)
      /\ data \in Seq(DataFrames) /\ clearAllEpoch \in Nat
  BY ReadyOK DEF TypeInv, SendTypes, DataTypes, Ready
<1>3. old \in {"none", "out"} /\ (old = "out" <=> c.again)
  OBVIOUS
<1>4. /\ call'.phase \in {"wait", "drain"} /\ call'.msg = c.msg /\ call'.len = c.len
      /\ call'.merged = c.merged /\ call'.part = c.part /\ call'.seq = c.seq
      /\ call'.again = c.again /\ call'.sess = c.sess
      /\ (call'.phase = "wait" => Transmit(c) /\ Len(data) < RingCap /\ call'.gen = clearAllEpoch)
      /\ (call'.phase = "drain" => UNCHANGED <<data, txSeq>>)
  <2>1. CASE Transmit(c) /\ Len(data) < RingCap
    <3>1. call' = SentCall(c, clearAllEpoch)
      BY <2>1, TransmitTypes
    <3> QED
      BY <2>1, <3>1, SentCallIs DEF Ready
  <2>2. CASE call' = [c EXCEPT !.phase = "drain"] /\ UNCHANGED <<data, txSeq>>
    BY <2>2, DrainCallIs DEF Ready, DrainCall
  <2> QED
    BY <2>1, <2>2
<1>5. Live(call', session') /\ ~Foreign(call', session') /\ Cur(call', txSeq') = c.seq
  BY <1>0, <1>4 DEF Live, Foreign, Cur
<1>6. Payload(call') = Payload(c) /\ Base(call') = Base(c) /\ Full(call') = Full(c)
  BY <1>4, SamePayload
<1>7. /\ call'.phase = "drain" => new = old
      /\ call'.phase = "wait" => new = IF sState = "SWP" /\ ~c.again THEN "stray" ELSE "out"
      /\ new \in {"none", "out", "stray"}
  <2>1. sState' \in {"OK", "SWP"}
    BY <1>0, <1>2
  <2> QED
    BY <1>0, <1>2, <1>4, <1>5, <2>1, ModeIs
<1>8. old = "none" /\ sState = "OK" => Rx # c.seq
  BY <1>2, <1>3, SeqFacts DEF Sendable, CursorOK
<1> HIDE DEF old, new
<1>9. QuietInv(call)'
  BY <1>0, <1>5 DEF QuietInv
<1>10. NumberInv(call)'
  <2>1. CASE call'.phase = "drain"
    BY <1>0, <1>4, <1>7, <2>1 DEF NumberInv, Sendable, old, new
  <2>2. CASE call'.phase = "wait"
    <3>1. txSeq' = IF c.again THEN txSeq ELSE NextSeq(txSeq)
      BY <1>4, <2>2 DEF Transmit
    <3>2. sState = "OK" => new = "out"
      BY <1>7, <2>2
    <3> QED
      BY <1>0, <1>4, <3>1, <3>2 DEF NumberInv, Sendable, new
  <2> QED
    BY <1>4, <2>1, <2>2
<1>11. CursorInv(call)'
  <2>1. sState' = "OK" \/ new = "out" => sState = "OK" \/ c.again
    BY <1>0, <1>2, <1>3, <1>4, <1>7
  <2>2. sState = "OK" \/ c.again => CursorOK(old, c.seq, Rx)
    BY DEF Sendable, old
  <2>3. old = "out" => new = "out"
    BY <1>3, <1>4, <1>7
  <2> QED
    BY <1>1, <1>5, <2>1, <2>2, <2>3 DEF CursorInv, CursorOK, new
<1>12. DataInv(call)'
  <2>0. DataOK(data, old, c.seq, Payload(c), Rx)
    BY DEF Sendable, old
  <2>1. CASE call'.phase = "drain"
    BY <1>1, <1>4, <1>5, <1>6, <1>7, <2>0, <2>1 DEF DataInv, new
  <2>2. CASE call'.phase = "wait"
    <3>1. data' = Append(data, [seq |-> IF c.again THEN c.seq ELSE txSeq, bytes |-> Payload(c)])
      BY <1>4, <2>2 DEF Transmit
    <3>2. CASE new = "stray"
      <4>1. ~c.again /\ old = "none"
        BY <1>3, <1>7, <2>2, <3>2
      <4>2. data' = Append(data, [seq |-> txSeq, bytes |-> Payload(c)])
        BY <3>1, <4>1
      <4>3. DataOK(data', "stray", c.seq, Payload(c), Rx)
        BY <1>2, <2>0, <4>1, <4>2, DataStray
      <4> QED
        BY <1>1, <1>5, <1>6, <3>2, <4>3 DEF DataInv, new
    <3>3. CASE new = "out"
      <4>1. sState = "OK" \/ c.again
        BY <1>2, <1>7, <2>2, <3>3
      <4>2. (IF c.again THEN c.seq ELSE txSeq) = c.seq
        BY <4>1 DEF Sendable
      <4>3. data' = Append(data, [seq |-> c.seq, bytes |-> Payload(c)])
        BY <3>1, <4>2
      <4>4. old = "none" => Rx # c.seq
        BY <1>3, <1>8, <4>1
      <4>5. DataOK(data', "out", c.seq, Payload(c), Rx)
        BY <1>2, <1>3, <2>0, <4>3, <4>4, DataSend
      <4> QED
        BY <1>1, <1>5, <1>6, <3>3, <4>5 DEF DataInv, new
    <3> QED
      BY <1>7, <2>2, <3>2, <3>3
  <2> QED
    BY <1>4, <2>1, <2>2
<1>13. AckInv(call)'
  <2>1. ASSUME sState = "OK" PROVE AcksOK(ctrl', new, c.seq, Rx)
    <3>1. AcksOK(ctrl, old, c.seq, Rx)
      BY <2>1 DEF Sendable, old
    <3>2. CASE old = "none"
      BY <1>0, <3>1, <3>2, AcksSend
    <3>3. CASE old = "out"
      <4>1. new = "out"
        BY <1>3, <1>4, <1>7, <3>3
      <4> QED
        BY <1>0, <3>1, <3>3, <4>1
    <3> QED
      BY <1>3, <3>2, <3>3
  <2>2. call'.phase = "wait" => ~AckedBy(call', pending', clearAllEpoch')
    <3>1. ASSUME call'.phase = "wait" PROVE budgetIdx(c.seq) \in pending'
      BY <1>4, <3>1 DEF Transmit
    <3> QED
      BY <1>4, <3>1 DEF AckedBy
  <2> QED
    BY <1>0, <1>1, <1>5, <2>1, <2>2 DEF AckInv, new
<1>14. StreamInv(call)'
  BY <1>0, <1>1, <1>4, <1>5 DEF StreamInv, Sendable
<1>15. ProgressInv(call)'
  <2>1. ProgressOK(c, old, Unread, got, Rx, data)
    BY DEF Sendable, old
  <2>2. CASE call'.phase = "drain"
    BY <1>0, <1>1, <1>4, <1>6, <1>7, <2>1, <2>2 DEF ProgressInv, ProgressOK, new
  <2>3. CASE call'.phase = "wait" /\ old = "out"
    <3>1. new = "out"
      BY <1>3, <1>7, <2>3
    <3> QED
      BY <1>0, <1>1, <1>4, <1>6, <2>1, <2>3, <3>1 DEF ProgressInv, ProgressOK, new
  <2>4. CASE call'.phase = "wait" /\ old = "none"
    <3>1. UpTo(Unread, got, c.msg, c.len, Base(c))
      BY <2>1, <2>4 DEF ProgressOK
    <3>2. new = "out" => Rx # c.seq
      BY <1>2, <1>3, <1>7, <1>8, <2>4
    <3>3. new # "none"
      BY <1>7, <2>4
    <3> QED
      BY <1>0, <1>1, <1>4, <1>6, <3>1, <3>2, <3>3 DEF ProgressInv, ProgressOK, new
  <2> QED
    BY <1>3, <1>4, <2>2, <2>3, <2>4
<1> QED
  BY <1>9, <1>10, <1>11, <1>12, <1>13, <1>14, <1>15 DEF CleanInv

LEMMA AckedIs == Acked <=> AckedBy(call, pending, clearAllEpoch)
  BY DEF Acked, Pending, AckedBy

\* A call of an earlier session that is still waiting.
LEMMA ForeignClean ==
  ASSUME TypeInv, SenderInv, CleanInv(call), CallNext, taint' = {}, Foreign(call, session)
  PROVE  CleanInv(call)'
<1>0. UNCHANGED <<receiver, ctrl, world>>
  BY DEF CallNext, FrameAcked, WaitReset, WaitNak, WaitTimeout, Drain, SenderStep
<1>1. /\ data = <<>> /\ ctrl = <<>> /\ got = <<>> /\ confirmed = {}
      /\ ~rxSeqSet /\ appBuf = <<>> /\ msgRx = NoMsg
      /\ call.phase = "wait" => ~Acked
  BY AckedIs DEF CleanInv, QuietInv
<1>2. Len(data) < RingCap
  BY <1>1, Sizes
<1>3. ~FrameAcked
  BY <1>1 DEF FrameAcked, Waiting
<1>4. \A c, clear : ~GiveUp(c, clear)
  BY DEF GiveUp
<1>5. \A c : c.sess = call.sess => ~Transmit(c)
  BY DEF Transmit, Foreign
<1>6. Ready(call) /\ call.sess # session
  BY ActiveReady DEF Foreign, TypeInv
<1>7. ASSUME NEW dt, NEW clear, RtoStep(dt, clear) PROVE FALSE
  <2>1. PICK c : c = AgainCall(call, Spent(call, dt))
    OBVIOUS
  <2>2. c.sess = call.sess
    BY <1>6, <2>1, AgainCallIs DEF Ready
  <2>3. Transmit(c)
    BY <1>2, <1>4, <1>7, <2>1, Sizes DEF RtoStep, AgainCall, TypeInv, DataTypes
  <2> QED
    BY <1>5, <2>2, <2>3
<1>8. ~Drain
  <2> SUFFICES ASSUME Drain PROVE FALSE
    OBVIOUS
  <2>1. Transmit(call)
    BY <1>2, Sizes DEF Drain, TypeInv, DataTypes
  <2> QED
    BY <1>5, <2>1
<1> QED
  BY <1>3, <1>7, <1>8 DEF CallNext, WaitReset, WaitNak, WaitTimeout

\* A frame is acknowledged: it was delivered, and so were all before it.
LEMMA AckedClean ==
  ASSUME TypeInv, SenderInv, CleanInv(call), FrameAcked, Live(call, session)
  PROVE  CleanInv(call)'
<1>0. /\ call.phase = "wait" /\ AckedBy(call, pending, clearAllEpoch)
      /\ UNCHANGED <<sState, clearAllEpoch, receiver, ctrl, world, msgs>>
  BY AckedIs DEF FrameAcked, Waiting, SenderStep
<1>a. /\ UNCHANGED <<sState, clearAllEpoch, ctrl, session, joined, got, msgRx, msgs>>
      /\ UNCHANGED <<rxSeq, rxSeqSet, appBuf>>
  BY <1>0 DEF receiver, world
<1>1. sState = "OK" /\ sState \in {"OK", "SWP"} /\ "sender" \in joined
  BY <1>0 DEF SenderInv, TypeInv, SendTypes
<1>2. Mode(call, session, sState, clearAllEpoch) = "out"
  BY <1>0, <1>1, ModeIs
<1>3. Ready(call) /\ call.seq \in Seqs /\ call.phase # "idle"
  BY <1>0, ActiveReady DEF TypeInv, CallOK
<1>4. txSeq = NextSeq(call.seq) /\ Cur(call, txSeq) = call.seq
  BY <1>0, <1>1, <1>2 DEF CleanInv, NumberInv, Cur
<1>5. Rx = call.seq /\ AllAcked(ctrl, call.seq)
  BY <1>0, <1>1 DEF CleanInv, AckInv
<1>6. DataOK(data, "out", call.seq, Payload(call), call.seq)
  BY <1>2, <1>4, <1>5 DEF CleanInv, DataInv
<1>7. UpTo(Unread, got, call.msg, call.len, Full(call))
  BY <1>2, <1>5 DEF CleanInv, ProgressInv, ProgressOK
<1>8. /\ Stream(Unread, got, confirmed, call.msg, call.msg) /\ call.msg = msgs
      /\ msgRx # NoMsg => msgRx.msg # 0
  BY <1>3 DEF CleanInv, StreamInv, SenderInv
<1>9. Unread \in Seq(Units) /\ got \in Seq(1..MaxMsgs)
  BY <1>8, UnreadTyped DEF TypeInv, HistTypes
<1>10. call.msg \in 1..MaxMsgs /\ call.len \in BodyLens /\ (call.merged => call.part = 0)
       /\ call.part \in 0..call.len
  BY <1>3 DEF Ready
<1>11. AcksOK(ctrl, "none", NextSeq(call.seq), Rx)
  BY <1>3, <1>5, AcksNext
<1>12. CursorOK("none", NextSeq(call.seq), Rx)
  BY <1>5 DEF CursorOK
<1>13. CASE LastPart(call) /\ call' = Idle /\ UNCHANGED <<txSeq, pending, data>>
  <2>0. confirmed' = confirmed \cup {call.msg}
    BY <1>3, <1>10, <1>13, PayloadIs DEF FrameAcked, Live
  <2>1. Full(call) = Total(call.len)
    BY <1>10, <1>13, PayloadIs
  <2>2. Stream(Unread, got, confirmed \cup {call.msg}, call.msg, 0)
    BY <1>7, <1>8, <1>9, <1>10, <2>1, StreamClose
  <2>3. ~Live(call', session') /\ ~Foreign(call', session') /\ Cur(call', txSeq') = txSeq
        /\ call'.phase = "idle"
    BY <1>13, IdleIs DEF Live, Foreign, Cur
  <2>4. Mode(call', session', sState', clearAllEpoch') = "none"
    BY <2>3 DEF Mode
  <2>5. Rx' = Rx /\ Unread' = Unread
    BY <1>a DEF Rx, Unread
  <2>6. QuietInv(call)' /\ NumberInv(call)' /\ ProgressInv(call)'
    BY <1>1, <1>a, <2>3 DEF QuietInv, NumberInv, ProgressInv
  <2>7. CursorInv(call)'
    BY <1>4, <1>12, <2>3, <2>4, <2>5 DEF CursorInv
  <2>8. DataInv(call)'
    <3>1. DataOK(data, "none", txSeq, Payload(call'), call.seq)
      BY <1>6, DataNext
    <3> QED
      BY <1>5, <1>13, <2>3, <2>4, <2>5, <3>1 DEF DataInv
  <2>9. AckInv(call)'
    BY <1>4, <1>11, <1>a, <2>3, <2>4, <2>5 DEF AckInv
  <2>10. StreamInv(call)'
    BY <1>8, <1>a, <2>0, <2>2, <2>3, <2>5 DEF StreamInv
  <2> QED
    BY <2>6, <2>7, <2>8, <2>9, <2>10 DEF CleanInv
<1>14. CASE ~LastPart(call) /\ SendFrame(NextCall(call, txSeq)) /\ UNCHANGED confirmed
  <2>1. PICK d : d = NextCall(call, txSeq)
    OBVIOUS
  <2>2. /\ IsCall(d) /\ d.gen = call.gen /\ d.msg = call.msg /\ d.len = call.len
        /\ d.merged = call.merged /\ d.part = call.part + 1 /\ d.seq = txSeq
        /\ d.sess = call.sess /\ ~d.again
    <3> DEFINE e == NextCall(call, txSeq)
    <3>1. /\ IsCall(e) /\ e.gen = call.gen /\ e.msg = call.msg /\ e.len = call.len
          /\ e.merged = call.merged /\ e.part = call.part + 1 /\ e.seq = txSeq
          /\ e.sess = call.sess
      BY NextCallIs, ZenonT(30) DEF TypeInv, CallOK
    <3>3. ~e.again
      BY NextCallIs, Zenon DEF TypeInv, CallOK
    <3> HIDE DEF e
    <3>2. d = e
      BY <2>1 DEF e
    <3> QED
      BY <3>1, <3>2, <3>3
  <2>3. call.part < call.len /\ ~call.merged /\ Full(call) = MSG_HDR + call.part
    BY <1>10, <1>14, PayloadIs
  <2>a. call.len \in Nat \ {0}
    BY <1>10, Sizes
  <2>4. call.len \in Nat /\ call.part \in Nat /\ MSG_HDR \in Nat
    BY <1>10, <2>a, Sizes
  <2>5. Ready(d)
    BY <1>3, <2>2, <2>3, <2>4 DEF Ready, TypeInv, SendTypes
  <2>6. Base(d) = Full(call)
    BY <2>2, <2>3, <2>4 DEF Base
  <2>7. Sendable(d, msgs')
    <3>1. CursorOK("none", d.seq, Rx) /\ AcksOK(ctrl, "none", d.seq, Rx) /\ txSeq = d.seq
      BY <1>4, <1>11, <1>12, <2>2
    <3>2. DataOK(data, "none", d.seq, Payload(d), Rx)
      BY <1>5, <1>6, DataNext
    <3>3. Stream(Unread, got, confirmed, msgs', d.msg)
      BY <1>8, <1>a, <2>2
    <3>4. ProgressOK(d, "none", Unread, got, Rx, data)
      BY <1>7, <2>2, <2>6 DEF ProgressOK
    <3>5. ~d.again
      BY <2>2
    <3> QED
      BY <1>8, <3>1, <3>2, <3>3, <3>4, <3>5 DEF Sendable
  <2>8. \/ Transmit(d) /\ Len(data) < RingCap
        \/ call' = [d EXCEPT !.phase = "drain"] /\ UNCHANGED <<data, txSeq>>
    BY <1>14, <2>1 DEF SendFrame
  <2>9. d.sess = session
    BY <2>2 DEF Live
  <2> QED
    BY <1>0, <1>1, <1>14, <2>5, <2>7, <2>8, <2>9, SendClean
<1> QED
  BY <1>1, <1>13, <1>14 DEF FrameAcked, NextCall

\* The frame of a call that is going on may be sent, or sent again.
LEMMA LiveSendable ==
  ASSUME TypeInv, SenderInv, CleanInv(call), Live(call, session), NEW c, c.msg = call.msg,
         c.len = call.len, c.merged = call.merged, c.part = call.part, c.seq = call.seq,
         Mode(call, session, sState, clearAllEpoch) = IF c.again THEN "out" ELSE "none"
  PROVE  Sendable(c, msgs)
<1>1. Payload(c) = Payload(call) /\ Base(c) = Base(call) /\ Full(c) = Full(call)
  BY SamePayload
<1>2. Cur(call, txSeq) = c.seq
  BY DEF Live, Cur
<1> DEFINE mode == IF c.again THEN "out" ELSE "none"
<1>3. sState = "OK" \/ c.again => CursorOK(mode, c.seq, Rx)
  BY <1>2 DEF CleanInv, CursorInv
<1>4. DataOK(data, mode, c.seq, Payload(c), Rx)
  BY <1>1, <1>2 DEF CleanInv, DataInv
<1>5. sState = "OK" =>
        AcksOK(ctrl, mode, c.seq, Rx) /\ txSeq = IF c.again THEN NextSeq(c.seq) ELSE c.seq
  BY <1>2 DEF CleanInv, AckInv, NumberInv
<1>6. (msgRx # NoMsg => msgRx.msg # 0) /\ Stream(Unread, got, confirmed, msgs, c.msg)
  BY DEF CleanInv, StreamInv
<1>7. ProgressOK(call, mode, Unread, got, Rx, data)
  BY DEF CleanInv, ProgressInv
<1>8. ProgressOK(c, mode, Unread, got, Rx, data)
  BY <1>1, <1>7 DEF ProgressOK
<1> QED
  BY <1>3, <1>4, <1>5, <1>6, <1>8 DEF Sendable

\* The wait for an ACK has failed.
LEMMA RtoClean ==
  ASSUME TypeInv, SenderInv, CleanInv(call), Live(call, session), call.phase = "wait",
         NEW dt, NEW clear, RtoStep(dt, clear), SenderStep, UNCHANGED confirmed, taint' = {}
  PROVE  CleanInv(call)'
<1>0. UNCHANGED <<receiver, ctrl, world, msgs>>
  BY DEF SenderStep
<1>1. ~GiveUp(call, clear)
  BY DEF GiveUp
<1>2. PICK c : c = AgainCall(call, Spent(call, dt))
  OBVIOUS
<1>3. /\ sState = "OK" /\ UNCHANGED <<sState, clearAllEpoch>>
      /\ \/ Transmit(c) /\ Len(data) < RingCap
         \/ call' = [c EXCEPT !.phase = "drain"] /\ UNCHANGED <<data, txSeq>>
  BY <1>1, <1>2 DEF RtoStep, AgainCall
<1>4. Ready(call) /\ Ready(c)
  BY <1>2, ActiveReady DEF TypeInv
<1>5. /\ c.msg = call.msg /\ c.len = call.len /\ c.merged = call.merged /\ c.part = call.part
      /\ c.seq = call.seq /\ c.sess = call.sess
  BY <1>2, <1>4, AgainCallIs DEF Ready
<1>6. c.again
  BY <1>2, <1>4, AgainCallIs, Zenon DEF Ready
<1>7. Mode(call, session, sState, clearAllEpoch) = "out"
  BY <1>3, ModeIs
<1>8. Sendable(c, msgs')
  BY <1>0, <1>5, <1>6, <1>7, LiveSendable
<1>9. c.sess = session /\ "sender" \in joined
  BY <1>5 DEF Live, SenderInv
<1> QED
  BY <1>0, <1>3, <1>4, <1>8, <1>9, SendClean

\* There is room in the ring, or there is none for the first frame.
LEMMA DrainClean ==
  ASSUME TypeInv, SenderInv, CleanInv(call), Live(call, session), Drain, taint' = {}
  PROVE  CleanInv(call)'
<1>0. /\ UNCHANGED <<receiver, ctrl, world, msgs, confirmed>> /\ call.phase = "drain"
  BY DEF Drain, SenderStep
<1>a. /\ UNCHANGED <<ctrl, session, joined, got, msgRx, msgs, confirmed>>
      /\ UNCHANGED <<rxSeq, rxSeqSet, appBuf>>
  BY <1>0 DEF receiver, world
<1>1. ~GiveUp(call, {}) /\ "sender" \in joined /\ call.sess = session /\ call.msg = msgs
  BY <1>0 DEF GiveUp, SenderInv, Live
<1>2. Ready(call)
  BY <1>0, ActiveReady DEF TypeInv
<1>3. Mode(call, session, sState, clearAllEpoch) = IF call.again THEN "out" ELSE "none"
  BY <1>0, ModeIs DEF TypeInv, SendTypes
<1>4. CASE Len(data) < RingCap /\ Transmit(call) /\ UNCHANGED <<sState, clearAllEpoch>>
  <2>1. Sendable(call, msgs')
    BY <1>0, <1>3, LiveSendable
  <2> QED
    BY <1>0, <1>1, <1>2, <1>4, <2>1, SendClean
<1>5. CASE /\ ~call.again /\ call.part = 0 /\ call' = Idle
           /\ UNCHANGED <<sState, txSeq, pending, clearAllEpoch, data>>
  <2>1. Mode(call, session, sState, clearAllEpoch) = "none" /\ Cur(call, txSeq) = call.seq
    BY <1>0, <1>3, <1>5 DEF Cur
  <2>2. sState = "OK" => call.seq = txSeq
    BY <2>1 DEF CleanInv, NumberInv
  <2>3. ~Live(call', session') /\ ~Foreign(call', session') /\ Cur(call', txSeq') = txSeq
        /\ call'.phase = "idle"
    BY <1>5, IdleIs DEF Live, Foreign, Cur
  <2>4. Mode(call', session', sState', clearAllEpoch') = "none"
    BY <2>3 DEF Mode
  <2>5. Rx' = Rx /\ Unread' = Unread
    BY <1>a DEF Rx, Unread
  <2>6. QuietInv(call)' /\ NumberInv(call)' /\ ProgressInv(call)'
    BY <1>1, <1>a, <2>3 DEF QuietInv, NumberInv, ProgressInv
  <2>7. CursorInv(call)'
    BY <1>5, <2>1, <2>2, <2>3, <2>4, <2>5 DEF CleanInv, CursorInv
  <2>8. DataInv(call)'
    <3>1. DataOK(data, "none", call.seq, Payload(call), Rx)
      BY <2>1 DEF CleanInv, DataInv
    <3>2. DataOK(data, "none", txSeq, Payload(call'), Rx)
      BY <3>1 DEF DataOK
    <3> QED
      BY <1>5, <2>3, <2>4, <2>5, <3>2 DEF DataInv
  <2>9. AckInv(call)'
    BY <1>5, <1>a, <2>1, <2>2, <2>3, <2>4, <2>5 DEF CleanInv, AckInv
  <2>10. StreamInv(call)'
    <3>1. UpTo(Unread, got, call.msg, call.len, Base(call))
      BY <2>1 DEF CleanInv, ProgressInv, ProgressOK
    <3>2. Base(call) = 0
      BY <1>5 DEF Base
    <3>3. /\ Stream(Unread, got, confirmed, call.msg, call.msg)
          /\ msgRx # NoMsg => msgRx.msg # 0
      BY <1>1 DEF CleanInv, StreamInv
    <3>4. Unread \in Seq(Units) /\ got \in Seq(1..MaxMsgs)
      BY <3>3, UnreadTyped DEF TypeInv, HistTypes
    <3>5. Stream(Unread, got, confirmed, call.msg, 0)
      BY <1>2, <3>1, <3>2, <3>3, <3>4, StreamForget DEF Ready
    <3> QED
      BY <1>1, <1>a, <2>3, <2>5, <3>3, <3>5 DEF StreamInv
  <2> QED
    BY <2>6, <2>7, <2>8, <2>9, <2>10 DEF CleanInv
<1> QED
  BY <1>1, <1>4, <1>5 DEF Drain

LEMMA CallClean ==
  ASSUME TypeInv, SenderInv, CleanInv(call), CallNext, taint' = {}
  PROVE  CleanInv(call)'
<1>1. call.phase # "idle"
  BY DEF CallNext, FrameAcked, WaitReset, WaitNak, WaitTimeout, Drain, Waiting
<1>2. Live(call, session) \/ Foreign(call, session)
  BY <1>1 DEF Live, Foreign
<1> QED
  BY <1>2, ForeignClean, AckedClean, RtoClean, DrainClean
     DEF CallNext, WaitReset, WaitNak, WaitTimeout, Waiting

\* A new message.
LEMMA SendMsgClean ==
  ASSUME TypeInv, SenderInv, CleanInv(call), NEW n \in BodyLens, NEW merged \in BOOLEAN,
         SendMsg(n, merged)
  PROVE  CleanInv(call)'
<1>1. /\ SendFrame(FirstCall(n, merged)) /\ msgs' = msgs + 1 /\ sState = "OK" /\ call = Idle
      /\ UNCHANGED <<sState, clearAllEpoch, receiver, ctrl, world, confirmed>>
  BY DEF SendMsg, FirstCall
<1>2. PICK d : d = FirstCall(n, merged)
  OBVIOUS
<1>3. d.msg = msgs + 1 /\ d.len = n /\ d.part = 0 /\ d.seq = txSeq /\ d.sess = session /\ ~d.again
  BY <1>2, FirstCallIs, Zenon
<1>4. Ready(d) /\ "sender" \in joined
  BY <1>1, <1>2, FirstReady DEF SenderInv
<1>5. call.phase = "idle" /\ ~Live(call, session) /\ Cur(call, txSeq) = txSeq
      /\ Mode(call, session, sState, clearAllEpoch) = "none"
  BY <1>1, IdleIs DEF Live, Cur, Mode
<1>6. Sendable(d, msgs')
  <2>1. CursorOK("none", d.seq, Rx)
    BY <1>1, <1>3, <1>5 DEF CleanInv, CursorInv
  <2>2. DataOK(data, "none", d.seq, Payload(d), Rx)
    <3>1. DataOK(data, "none", txSeq, Payload(call), Rx)
      BY <1>5 DEF CleanInv, DataInv
    <3> QED
      BY <3>1 DEF DataOK
  <2>3. AcksOK(ctrl, "none", d.seq, Rx)
    BY <1>1, <1>3, <1>5 DEF CleanInv, AckInv
  <2>4. Stream(Unread, got, confirmed, msgs, 0) /\ (msgRx # NoMsg => msgRx.msg # 0)
    BY <1>5 DEF CleanInv, StreamInv
  <2>5. Unread \in Seq(Units) /\ got \in Seq(1..MaxMsgs) /\ msgs \in Nat
    BY <2>4, UnreadTyped, Sizes DEF TypeInv, HistTypes
  <2>6. Stream(Unread, got, confirmed, msgs + 1, msgs + 1) /\ UpTo(Unread, got, msgs + 1, n, 0)
    BY <2>4, <2>5, StreamStart
  <2>7. Base(d) = 0
    BY <1>3 DEF Base
  <2>8. ProgressOK(d, "none", Unread, got, Rx, data)
    BY <1>3, <2>6, <2>7 DEF ProgressOK
  <2> QED
    BY <1>1, <1>3, <2>1, <2>2, <2>3, <2>4, <2>6, <2>8 DEF Sendable
<1>7. \/ Transmit(d) /\ Len(data) < RingCap
      \/ call' = [d EXCEPT !.phase = "drain"] /\ UNCHANGED <<data, txSeq>>
  BY <1>1, <1>2 DEF SendFrame
<1> QED
  BY <1>1, <1>3, <1>4, <1>6, <1>7, SendClean

-----------------------------------------------------------------------------
(* Steps of the lines in a clean session                                   *)

begun == data # <<>> \/ ctrl # <<>>
steady == <<sState, txSeq, clearAllEpoch, call, msgs, session, joined, got, confirmed, msgRx>>

\* ACKs for the last frame delivered, and NAKs, may come in; others get out.
LEMMA RepliesClean ==
  ASSUME TypeInv, CleanInv(call), UNCHANGED <<steady, pending, rxSeq, rxSeqSet>>,
         \/ ctrl' = ctrl
         \/ ctrl # <<>> /\ ctrl' = Tail(ctrl)
         \/ \E f \in CtrlFrames :
              ctrl' = Append(ctrl, f) /\ (sState = "OK" /\ f.type = "ACK" => f.seq = Rx)
  PROVE  AckInv(call)'
<1>0. UNCHANGED <<sState, txSeq, clearAllEpoch, call, session>> /\ Rx' = Rx
  BY DEF steady, Rx
<1>1. ctrl \in Seq(CtrlFrames)
  BY DEF TypeInv, CtrlTypes
<1> DEFINE mode == Mode(call, session, sState, clearAllEpoch)
           cur == Cur(call, txSeq)
<1> HIDE DEF mode, cur
<1>2. ASSUME sState = "OK", ctrl # <<>>, ctrl' = Tail(ctrl)
      PROVE  AcksOK(ctrl', mode, cur, Rx) /\ (AllAcked(ctrl, call.seq) => AllAcked(ctrl', call.seq))
  BY <1>1, <1>2, AcksTail DEF CleanInv, AckInv, mode, cur
<1>3. ASSUME sState = "OK", NEW f \in CtrlFrames, ctrl' = Append(ctrl, f),
             f.type = "ACK" => f.seq = Rx
      PROVE  AcksOK(ctrl', mode, cur, Rx)
             /\ (AllAcked(ctrl, cur) /\ Rx = cur => AllAcked(ctrl', cur))
  <2>1. AcksOK(ctrl, mode, cur, Rx) /\ CursorOK(mode, cur, Rx)
    BY <1>3 DEF CleanInv, AckInv, CursorInv, mode, cur
  <2>2. cur \in Seqs
    BY DEF cur, Cur, TypeInv, SendTypes, CallOK
  <2> QED
    BY <1>1, <1>3, <2>1, <2>2, AcksReply
<1>4. call.phase = "wait" => cur = call.seq
  BY DEF cur, Cur
<1>5. sState = "OK" => AcksOK(ctrl', mode, cur, Rx)
  BY <1>2, <1>3 DEF CleanInv, AckInv, mode, cur
<1>6. ASSUME sState = "OK", Live(call, session), call.phase = "wait",
             AckedBy(call, pending, clearAllEpoch)
      PROVE  Rx = call.seq /\ AllAcked(ctrl', call.seq)
  <2>1. Rx = call.seq /\ AllAcked(ctrl, call.seq) /\ cur = call.seq
    BY <1>4, <1>6 DEF CleanInv, AckInv
  <2> QED
    BY <1>2, <1>3, <1>6, <2>1
<1> QED
  BY <1>0, <1>5, <1>6 DEF AckInv, mode, cur

\* A frame gets out of the data line, or none.
LEMMA LineClean ==
  ASSUME TypeInv, CleanInv(call), begun, UNCHANGED <<steady, rxSeq, rxSeqSet, appBuf>>,
         data' = data \/ (data # <<>> /\ data' = Tail(data)), AckInv(call)'
  PROVE  CleanInv(call)'
<1>0. UNCHANGED <<sState, txSeq, clearAllEpoch, call, session, joined, got, confirmed, msgRx, msgs>>
      /\ Rx' = Rx /\ Unread' = Unread
  BY DEF steady, Rx, Unread
<1>1. QuietInv(call)'
  BY <1>0 DEF CleanInv, QuietInv, begun
<1>2. NumberInv(call)'
  BY <1>0 DEF CleanInv, NumberInv
<1>3. CursorInv(call)'
  BY <1>0 DEF CleanInv, CursorInv
<1>4. DataInv(call)'
  <2>1. data \in Seq(DataFrames)
    BY DEF TypeInv, DataTypes
  <2> DEFINE mode == Mode(call, session, sState, clearAllEpoch)
             cur == Cur(call, txSeq)
  <2>2. DataOK(data, mode, cur, Payload(call), Rx)
    BY DEF CleanInv, DataInv
  <2> HIDE DEF mode, cur
  <2>3. DataOK(data', mode, cur, Payload(call), Rx)
    BY <2>1, <2>2, DataTail
  <2> QED
    BY <1>0, <2>3 DEF DataInv, mode, cur
<1>5. StreamInv(call)'
  BY <1>0 DEF CleanInv, StreamInv
<1>6. ProgressInv(call)'
  <2>1. ASSUME NEW mode, ProgressOK(call, mode, Unread, got, Rx, data)
        PROVE  ProgressOK(call, mode, Unread, got, Rx, data')
    BY <2>1 DEF ProgressOK
  <2> QED
    BY <1>0, <2>1 DEF CleanInv, ProgressInv
<1> QED
  BY <1>1, <1>2, <1>3, <1>4, <1>5, <1>6 DEF CleanInv

\* A frame is lost, or read by a board that is sweeping; a reply is lost, or
\* is a NAK.
LEMMA LossClean ==
  ASSUME TypeInv, CleanInv(call), LoseData \/ ReceiveSweeping \/ LoseCtrl \/ OnNak
  PROVE  CleanInv(call)'
<1>1. /\ UNCHANGED <<steady, pending, rxSeq, rxSeqSet, appBuf>> /\ begun
      /\ data' = data \/ (data # <<>> /\ data' = Tail(data))
      /\ ctrl' = ctrl \/ (ctrl # <<>> /\ ctrl' = Tail(ctrl))
  BY DEF LoseData, ReceiveSweeping, LoseCtrl, OnNak, steady, sender, receiver, world, begun
<1> QED
  BY <1>1, RepliesClean, LineClean

\* An ACK that clears the bit of the frame that is out is for that frame.
LEMMA OnAckClean ==
  ASSUME TypeInv, CleanInv(call), OnAck
  PROVE  CleanInv(call)'
<1>1. /\ UNCHANGED <<steady, rxSeq, rxSeqSet, appBuf, data>> /\ begun
      /\ ctrl # <<>> /\ Head(ctrl).type = "ACK" /\ ctrl' = Tail(ctrl)
      /\ pending' = IF sState = "OK" THEN pending \ {budgetIdx(Head(ctrl).seq)} ELSE pending
  BY DEF OnAck, steady, receiver, world, begun
<1>0. UNCHANGED <<sState, txSeq, clearAllEpoch, call, session>> /\ Rx' = Rx
  BY <1>1 DEF steady, Rx
<1>2. ctrl \in Seq(CtrlFrames) /\ Head(ctrl) = ctrl[1] /\ ctrl[1] \in CtrlFrames /\ 1 \in 1..Len(ctrl)
  BY <1>1, TailIs DEF TypeInv, CtrlTypes
<1>3. ctrl[1].seq \in Seqs /\ ctrl[1].type = "ACK"
  BY <1>1, <1>2 DEF CtrlFrames
<1> DEFINE mode == Mode(call, session, sState, clearAllEpoch)
           cur == Cur(call, txSeq)
<1> HIDE DEF mode, cur
<1>4. ASSUME sState = "OK" PROVE AcksOK(ctrl, mode, cur, Rx) /\ AcksOK(ctrl', mode, cur, Rx)
  BY <1>1, <1>2, <1>4, AcksTail DEF CleanInv, AckInv, mode, cur
<1>5. ASSUME sState = "OK", Live(call, session), call.phase = "wait",
             AckedBy(call, pending', clearAllEpoch)
      PROVE  Rx = call.seq /\ AllAcked(ctrl', call.seq)
  <2>0. cur = call.seq /\ call.seq \in Seqs
    BY <1>5 DEF cur, Cur, TypeInv, CallOK
  <2>1. CASE AckedBy(call, pending, clearAllEpoch)
    BY <1>1, <1>2, <1>5, <2>1, AcksTail DEF CleanInv, AckInv
  <2>2. CASE ~AckedBy(call, pending, clearAllEpoch)
    <3>1. budgetIdx(ctrl[1].seq) = budgetIdx(call.seq)
      BY <1>1, <1>2, <1>5, <2>2 DEF AckedBy
    <3>2. NextSeq(ctrl[1].seq) # call.seq
      BY <1>3, <3>1, Neighbours
    <3>3. ctrl[1].seq = cur
      BY <1>2, <1>3, <1>4, <1>5, <2>0, <3>2 DEF AcksOK
    <3> QED
      BY <1>1, <1>2, <1>3, <1>4, <1>5, <2>0, <3>3, AcksHead
  <2> QED
    BY <2>1, <2>2
<1>6. AckInv(call)'
  BY <1>0, <1>4, <1>5 DEF AckInv, mode, cur
<1> QED
  BY <1>1, <1>6, LineClean

\* A reset of the sender's board.
LEMMA SenderResetClean ==
  ASSUME TypeInv, SenderInv, CleanInv(call), SenderReset
  PROVE  CleanInv(call)'
<1>1. /\ sState = "OK" /\ sState' = "SWP" /\ txSeq' = 0 /\ clearAllEpoch' = clearAllEpoch + 1
      /\ data' \in Truncated(data)
      /\ UNCHANGED <<call, msgs, receiver, ctrl, world, confirmed>>
  BY DEF SenderReset, SenderWipe
<1>2. /\ UNCHANGED <<session, joined, got, msgRx, rxSeq, rxSeqSet, appBuf>>
      /\ Rx' = Rx /\ Unread' = Unread
  BY <1>1 DEF receiver, world, Rx, Unread
<1>3. call.gen # clearAllEpoch' /\ data \in Seq(DataFrames)
  BY <1>1 DEF SenderInv, TypeInv, SendTypes, CallOK, DataTypes
<1> DEFINE mode == Mode(call, session, sState, clearAllEpoch)
<1>4. Mode(call, session, sState', clearAllEpoch') = mode /\ mode # "stray"
  BY <1>1, <1>3 DEF Mode
<1>5. mode = "out" => call.phase # "idle"
  BY DEF Mode, Live
<1>6. mode \in {"none", "out", "stray"}
  BY <1>1, ModeIs
<1>7. mode = "out" => Cur(call, txSeq') = Cur(call, txSeq)
  BY <1>5 DEF Cur
<1>8. /\ DataOK(data, mode, Cur(call, txSeq), Payload(call), Rx)
      /\ CursorOK(mode, Cur(call, txSeq), Rx)
      /\ Live(call, session) => ProgressOK(call, mode, Unread, got, Rx, data)
  BY <1>1 DEF CleanInv, DataInv, CursorInv, ProgressInv
<1> HIDE DEF mode
<1>9. QuietInv(call)'
  <2>1. data = <<>> => data' = <<>>
    <3>1. data' \in Seq(DataFrames) /\ Len(data') <= Len(data)
      BY <1>1, <1>3, LinesTyped
    <3> QED
      BY <3>1, EmptySeq
  <2>2. ~AckedBy(call, pending', clearAllEpoch')
    BY <1>3 DEF AckedBy
  <2> QED
    BY <1>1, <1>2, <2>1, <2>2 DEF CleanInv, QuietInv
<1>10. NumberInv(call)' /\ AckInv(call)'
  BY <1>1 DEF NumberInv, AckInv
<1>11. CursorInv(call)'
  BY <1>1, <1>2, <1>4, <1>7, <1>8 DEF CursorInv
<1>12. DataInv(call)'
  <2>1. DataOK(data', mode, Cur(call, txSeq), Payload(call), Rx)
    BY <1>1, <1>3, <1>8, DataPrefix
  <2>2. DataOK(data', mode, Cur(call, txSeq'), Payload(call), Rx)
    BY <1>4, <1>6, <1>7, <2>1 DEF DataOK
  <2> QED
    BY <1>1, <1>2, <1>4, <2>2 DEF DataInv
<1>13. StreamInv(call)'
  BY <1>1, <1>2 DEF CleanInv, StreamInv
<1>14. ProgressInv(call)'
  <2>1. ASSUME ProgressOK(call, mode, Unread, got, Rx, data)
        PROVE  ProgressOK(call, mode, Unread, got, Rx, data')
    BY <1>4, <2>1 DEF ProgressOK
  <2> QED
    BY <1>1, <1>2, <1>4, <1>8, <2>1 DEF ProgressInv
<1> QED
  BY <1>9, <1>10, <1>11, <1>12, <1>13, <1>14 DEF CleanInv

-----------------------------------------------------------------------------
(* Steps of the receiver in a clean session                                *)

LEMMA Classified ==
  ASSUME NEW s \in Seqs, NEW r \in Seqs
  PROVE  /\ classifyGap(s, r, FALSE) = "Forward"
         /\ classifyGap(NextSeq(r), r, TRUE) = "Forward"
         /\ classifyGap(r, r, TRUE) = "Stale"
<1>1. r # NextSeq(r)
  BY SeqFacts
<1>2. GapDiff(r, r) = 0
  BY Sizes DEF GapDiff, Seqs
<1> QED
  BY <1>1, <1>2 DEF classifyGap

\* What a frame can be that comes in.
LEMMA FrameCases ==
  ASSUME TypeInv, CleanInv(call), data # <<>>
  PROVE  LET class == classifyGap(frame.seq, rxSeq, rxSeqSet)
             mode == Mode(call, session, sState, clearAllEpoch)
         IN  \/ frame.seq = Rx /\ class = "Stale"
             \/ /\ frame.seq # Rx /\ mode = "out" /\ frame.seq = call.seq
                /\ frame.bytes = Payload(call) /\ class = "Forward"
             \/ mode = "stray" /\ Tail(data) = <<>> /\ frame.bytes = Payload(call)
<1> DEFINE mode == Mode(call, session, sState, clearAllEpoch)
<1>1. /\ frame = data[1] /\ frame.seq \in Seqs /\ data \in Seq(DataFrames)
      /\ Tail(data) \in Seq(DataFrames) /\ Len(Tail(data)) = Len(data) - 1
  BY FrameTyped DEF TypeInv, DataTypes
<1>2. rxSeq \in Seqs /\ rxSeqSet \in BOOLEAN /\ sState \in {"OK", "SWP"}
  BY DEF TypeInv, RecvTypes, SendTypes
<1>3. mode \in {"none", "out", "stray"}
  BY <1>2, ModeIs
<1>4. CASE frame.seq = Rx
  <2>1. rxSeqSet = TRUE /\ Rx = rxSeq
    BY <1>1, <1>2, <1>4, SeqFacts DEF Rx
  <2>2. classifyGap(rxSeq, rxSeq, TRUE) = "Stale"
    BY <1>2, Classified
  <2>3. classifyGap(frame.seq, rxSeq, rxSeqSet) = "Stale"
    BY <1>4, <2>1, <2>2, Zenon
  <2> QED
    BY <1>4, <2>3
<1>5. CASE frame.seq # Rx
  <2>0. DataOK(data, mode, Cur(call, txSeq), Payload(call), Rx)
    BY DEF CleanInv, DataInv
  <2>a. mode = "out" => Cur(call, txSeq) = call.seq
    BY DEF Mode, Live, Cur
  <2>b. mode = "out" => CursorOK(mode, Cur(call, txSeq), Rx)
    BY DEF CleanInv, CursorInv
  <2> HIDE DEF mode
  <2>1. /\ mode # "none" /\ frame.bytes = Payload(call)
        /\ mode = "out" => frame.seq = Cur(call, txSeq)
        /\ mode = "stray" => Len(data) = 1
    BY <1>1, <1>3, <1>5, <2>0, DataHead
  <2>2. CASE mode = "out"
    <3>1. frame.seq = call.seq /\ (Rx = NoSeq \/ NextSeq(Rx) = frame.seq)
      BY <1>5, <2>1, <2>2, <2>a, <2>b DEF CursorOK
    <3>2. CASE rxSeqSet = TRUE
      <4>1. Rx = rxSeq /\ Rx # NoSeq
        BY <1>2, <3>2, SeqFacts DEF Rx
      <4>2. classifyGap(NextSeq(rxSeq), rxSeq, TRUE) = "Forward"
        BY <1>2, Classified
      <4>3. classifyGap(frame.seq, rxSeq, rxSeqSet) = "Forward"
        BY <3>1, <3>2, <4>1, <4>2, Zenon
      <4> QED
        BY <1>5, <2>1, <2>2, <3>1, <4>3 DEF mode
    <3>3. CASE rxSeqSet = FALSE
      BY <1>1, <1>2, <1>5, <2>1, <2>2, <3>1, <3>3, Classified DEF mode
    <3> QED
      BY <1>2, <3>2, <3>3
  <2>3. CASE mode = "stray"
    <3>1. Tail(data) = <<>>
      <4>a. Len(data) = 1
        BY <2>1, <2>3
      <4>b. Len(Tail(data)) = Len(data) - 1
        BY <1>1
      <4>1. Len(Tail(data)) = 0
        BY <4>a, <4>b
      <4> QED
        BY <1>1, <4>1, EmptySeq
    <3> QED
      BY <2>1, <2>3, <3>1 DEF mode
  <2> QED
    BY <1>3, <2>1, <2>2, <2>3
<1> QED
  BY <1>4, <1>5

\* The frame that is out goes into the app buffer.
LEMMA UnitsTaken ==
  ASSUME TypeInv, SenderInv, CleanInv(call), Live(call, session),
         UpTo(Unread, got, call.msg, call.len, Base(call)),
         appBuf' = appBuf \o Payload(call), UNCHANGED msgRx
  PROVE  /\ Stream(Unread', got, confirmed, msgs, call.msg)
         /\ UpTo(Unread', got, call.msg, call.len, Full(call))
<1>1. Ready(call) /\ call.msg = msgs
  BY ActiveReady DEF TypeInv, Live, SenderInv
<1>2. /\ Stream(Unread, got, confirmed, call.msg, call.msg)
      /\ msgRx # NoMsg => msgRx.msg # 0
  BY <1>1 DEF CleanInv, StreamInv
<1>3. Unread \in Seq(Units) /\ got \in Seq(1..MaxMsgs) /\ appBuf \in Seq(Units)
  BY <1>2, UnreadTyped DEF TypeInv, HistTypes, BufTypes
<1>4. /\ Payload(call) \in Seq(Units) /\ Len(Payload(call)) >= 1 /\ Base(call) \in Nat
      /\ Full(call) <= Total(call.len)
      /\ \A k \in 1..Len(Payload(call)) :
           Payload(call)[k] = Unit(call.msg, call.len, Base(call) + k)
  BY <1>1, PayloadIs DEF Ready
<1>5. Unread' = Unread \o Payload(call)
  <2>1. CASE msgRx = NoMsg
    BY <2>1 DEF Unread
  <2>2. CASE msgRx # NoMsg
    <3>1. msgRx.msg \in 1..MaxMsgs /\ msgRx.len \in BodyLens
      BY <1>2, <2>2 DEF TypeInv, MsgRxTypes
    <3>2. Header(msgRx.msg, msgRx.len) \in Seq(Units)
      BY <3>1, HeaderTyped
    <3>a. PICK h \in Seq(Units) : h = Header(msgRx.msg, msgRx.len)
      BY <3>2
    <3>b. PICK p \in Seq(Units) : p = Payload(call)
      BY <1>4
    <3>3. (h \o appBuf) \o p = h \o (appBuf \o p)
      BY <1>3, ConcatAssociative, SMTT(30)
    <3> QED
      BY <2>2, <3>a, <3>b, <3>3 DEF Unread
  <2> QED
    BY <2>1, <2>2
<1>6. /\ Stream(Unread \o Payload(call), got, confirmed, call.msg, call.msg)
      /\ UpTo(Unread \o Payload(call), got, call.msg, call.len, Base(call) + Len(Payload(call)))
  BY <1>1, <1>2, <1>3, <1>4, StreamAppend DEF Ready, Full
<1> QED
  BY <1>1, <1>5, <1>6 DEF Full

\* The frame that is out is delivered and acknowledged.
LEMMA DeliverClean ==
  ASSUME TypeInv, SenderInv, CleanInv(call), data # <<>>,
         Mode(call, session, sState, clearAllEpoch) = "out",
         frame.seq = call.seq, frame.seq # Rx, frame.bytes = Payload(call),
         appBuf' = appBuf \o Payload(call), rxSeq' = call.seq, rxSeqSet', data' = Tail(data),
         ctrl' = ctrl \/ ctrl' = Append(ctrl, [type |-> "ACK", seq |-> call.seq]),
         UNCHANGED <<steady, pending>>
  PROVE  CleanInv(call)'
<1>0. UNCHANGED <<sState, txSeq, clearAllEpoch, call, session, joined, got, confirmed, msgRx, msgs>>
  BY DEF steady
<1>1. Rx' = call.seq /\ call.seq \in Seqs
  BY DEF Rx, TypeInv, CallOK
<1>2. Live(call, session) /\ Cur(call, txSeq) = call.seq /\ ~Foreign(call, session)
  BY DEF Mode, Live, Cur, Foreign
<1>3. UpTo(Unread, got, call.msg, call.len, Base(call))
  BY <1>2 DEF CleanInv, ProgressInv, ProgressOK
<1>4. /\ Stream(Unread', got, confirmed, msgs, call.msg)
      /\ UpTo(Unread', got, call.msg, call.len, Full(call))
  BY <1>0, <1>2, <1>3, UnitsTaken
<1>5. QuietInv(call)'
  BY <1>0, <1>2 DEF QuietInv, SenderInv
<1>6. NumberInv(call)'
  BY <1>0 DEF CleanInv, NumberInv
<1>7. CursorInv(call)'
  BY <1>0, <1>1, <1>2 DEF CursorInv, CursorOK
<1>8. DataInv(call)'
  <2>1. data \in Seq(DataFrames) /\ data[1].seq = call.seq
    BY FrameTyped DEF TypeInv, DataTypes
  <2>2. DataOK(data, "out", call.seq, Payload(call), Rx)
    BY <1>2 DEF CleanInv, DataInv
  <2>3. DataOK(data', "out", call.seq, Payload(call), call.seq)
    BY <2>1, <2>2, DataTaken
  <2> QED
    BY <1>0, <1>1, <1>2, <2>3 DEF DataInv
<1>9. AckInv(call)'
  <2>1. ASSUME sState = "OK" PROVE AcksOK(ctrl', "out", call.seq, call.seq)
    <3>1. AcksOK(ctrl, "out", call.seq, call.seq)
      BY <1>2, <2>1, AcksTaken DEF CleanInv, AckInv
    <3>2. CursorOK("out", call.seq, call.seq) /\ ctrl \in Seq(CtrlFrames)
      BY DEF CursorOK, TypeInv, CtrlTypes
    <3>3. [type |-> "ACK", seq |-> call.seq] \in CtrlFrames
      BY <1>1 DEF CtrlFrames
    <3>4. AcksOK(Append(ctrl, [type |-> "ACK", seq |-> call.seq]), "out", call.seq, call.seq)
      BY <1>1, <3>1, <3>2, <3>3, AcksReply
    <3> QED
      BY <3>1, <3>4
  <2>2. sState = "OK" /\ call.phase = "wait" => ~AckedBy(call, pending, clearAllEpoch)
    BY <1>2 DEF CleanInv, AckInv
  <2> QED
    BY <1>0, <1>1, <1>2, <2>1, <2>2 DEF AckInv
<1>10. StreamInv(call)'
  BY <1>0, <1>2, <1>4 DEF CleanInv, StreamInv
<1>11. ProgressInv(call)'
  BY <1>0, <1>1, <1>2, <1>4 DEF ProgressInv, ProgressOK
<1> QED
  BY <1>5, <1>6, <1>7, <1>8, <1>9, <1>10, <1>11 DEF CleanInv

\* A frame sent after a reset of its sender comes in; nothing follows it.
LEMMA StrayClean ==
  ASSUME TypeInv, SenderInv, CleanInv(call), data # <<>>, data' = <<>>,
         Mode(call, session, sState, clearAllEpoch) = "stray",
         appBuf' = appBuf \/ appBuf' = appBuf \o Payload(call), UNCHANGED steady
  PROVE  CleanInv(call)'
<1>0. UNCHANGED <<sState, txSeq, clearAllEpoch, call, session, joined, got, confirmed, msgRx, msgs>>
  BY DEF steady
<1>1. Live(call, session) /\ ~Foreign(call, session) /\ sState = "SWP"
  BY DEF Mode, Live, Foreign
<1>2. UpTo(Unread, got, call.msg, call.len, Base(call))
  BY <1>1 DEF CleanInv, ProgressInv, ProgressOK
<1>3. /\ Stream(Unread', got, confirmed, msgs, call.msg)
      /\ \/ UpTo(Unread', got, call.msg, call.len, Base(call))
         \/ UpTo(Unread', got, call.msg, call.len, Full(call))
  <2>1. CASE appBuf' = appBuf
    <3>1. Unread' = Unread
      BY <1>0, <2>1 DEF Unread
    <3>2. Stream(Unread, got, confirmed, msgs, call.msg)
      BY <1>1 DEF CleanInv, StreamInv
    <3> QED
      BY <1>2, <3>1, <3>2
  <2>2. CASE appBuf' = appBuf \o Payload(call)
    BY <1>0, <1>1, <1>2, <2>2, UnitsTaken
  <2> QED
    BY <2>1, <2>2
<1>4. QuietInv(call)'
  BY <1>0, <1>1 DEF QuietInv, SenderInv
<1>5. NumberInv(call)' /\ CursorInv(call)' /\ AckInv(call)'
  BY <1>0, <1>1 DEF NumberInv, CursorInv, AckInv
<1>6. DataInv(call)'
  BY <1>0, DataEmpty DEF DataInv
<1>7. StreamInv(call)'
  BY <1>0, <1>1, <1>3 DEF CleanInv, StreamInv
<1>8. ProgressInv(call)'
  BY <1>0, <1>1, <1>3 DEF ProgressInv, ProgressOK
<1> QED
  BY <1>4, <1>5, <1>6, <1>7, <1>8 DEF CleanInv

\* A frame comes in on a board that is locked.
LEMMA ReceiveClean ==
  ASSUME TypeInv, SenderInv, CleanInv(call),
         ReceiveStale \/ ReceiveGap \/ ReceiveHeld \/ ReceiveForward
  PROVE  CleanInv(call)'
<1> DEFINE class == classifyGap(frame.seq, rxSeq, rxSeqSet)
           mode == Mode(call, session, sState, clearAllEpoch)
<1>0. data # <<>> /\ data' = Tail(data) /\ UNCHANGED <<steady, pending>> /\ begun
  BY DEF ReceiveStale, ReceiveGap, ReceiveHeld, ReceiveForward, Receive, sender, world,
         steady, begun
<1>1. frame.seq \in Seqs
  BY <1>0, FrameTyped
<1>2. appBuf' = appBuf \/ appBuf' = appBuf \o frame.bytes
  BY DEF ReceiveStale, ReceiveGap, ReceiveHeld, ReceiveForward
<1>3. CASE mode = "stray" /\ Tail(data) = <<>> /\ frame.bytes = Payload(call)
  BY <1>0, <1>2, <1>3, StrayClean
<1>4. ASSUME NEW type \in {"ACK", "NAK"}, Reply(type, frame.seq),
             sState = "OK" /\ type = "ACK" => frame.seq = Rx
      PROVE  \/ ctrl' = ctrl
             \/ \E f \in CtrlFrames :
                  ctrl' = Append(ctrl, f) /\ (sState = "OK" /\ f.type = "ACK" => f.seq = Rx)
  <2>1. [type |-> type, seq |-> frame.seq] \in CtrlFrames
    BY <1>1, <1>4 DEF CtrlFrames
  <2> QED
    BY <1>4, <2>1 DEF Reply
<1>5. CASE frame.seq = Rx /\ class = "Stale"
  <2>1. ReceiveStale
    BY <1>5 DEF ReceiveGap, ReceiveHeld, ReceiveForward, Receive
  <2>2. UNCHANGED <<rxSeq, rxSeqSet, appBuf>> /\ (Reply("ACK", frame.seq) \/ ctrl' = ctrl)
    BY <2>1 DEF ReceiveStale
  <2> QED
    BY <1>0, <1>4, <1>5, <2>2, RepliesClean, LineClean
<1>6. CASE /\ frame.seq # Rx /\ mode = "out" /\ frame.seq = call.seq
           /\ frame.bytes = Payload(call) /\ class = "Forward"
  <2>1. CASE ReceiveHeld
    <3>1. UNCHANGED <<rxSeq, rxSeqSet, appBuf>> /\ (Reply("NAK", frame.seq) \/ ctrl' = ctrl)
      BY <2>1 DEF ReceiveHeld
    <3> QED
      BY <1>0, <1>4, <3>1, RepliesClean, LineClean
  <2>2. CASE ReceiveForward
    <3>1. /\ appBuf' = appBuf \o Payload(call) /\ rxSeq' = call.seq /\ rxSeqSet'
          /\ ctrl' = ctrl \/ ctrl' = Append(ctrl, [type |-> "ACK", seq |-> call.seq])
      BY <1>6, <2>2 DEF ReceiveForward, Reply
    <3> QED
      BY <1>0, <1>6, <3>1, DeliverClean
  <2> QED
    BY <1>6, <2>1, <2>2 DEF ReceiveStale, ReceiveGap, Receive
<1> QED
  BY <1>0, <1>3, <1>5, <1>6, FrameCases

-----------------------------------------------------------------------------
(* What the parser meets in a clean session                                *)

LEMMA FrontIs ==
  ASSUME NEW b \in Seq(Units), NEW t \in 0..Len(b)
  PROVE  /\ SubSeq(b, 1, t) \in Seq(Units) /\ Len(SubSeq(b, 1, t)) = t
         /\ \A i \in 1..t : SubSeq(b, 1, t)[i] = b[i]
<1>1. SubSeq(b, 1, t) \in Truncated(b)
  BY DEF Truncated
<1>2. /\ SubSeq(b, 1, t) \in Seq(Units)
      /\ \A i \in 1..Len(SubSeq(b, 1, t)) : SubSeq(b, 1, t)[i] = b[i]
  BY <1>1, PrefixIs
<1>3. Len(SubSeq(b, 1, t)) = t
  <2>1. 1 \in 1..(Len(b) + 1)
    OBVIOUS
  <2>2. Len(SubSeq(b, 1, t)) = IF 1 <= t THEN t - 1 + 1 ELSE 0
    BY <2>1, StretchTyped
  <2> QED
    BY <2>2
<1> QED
  BY <1>2, <1>3

LEMMA Split ==
  ASSUME NEW b \in Seq(Units), NEW t \in 0..Len(b)
  PROVE  SubSeq(b, 1, t) \o SubSeq(b, t + 1, Len(b)) = b
<1>1. PICK p \in Seq(Units) :
        p = SubSeq(b, 1, t) /\ Len(p) = t /\ \A i \in 1..t : p[i] = b[i]
  BY FrontIs
<1>2. PICK v \in Seq(Units) :
        /\ v = SubSeq(b, t + 1, Len(b)) /\ Len(v) = Len(b) - t
        /\ \A i \in 1..Len(v) : i + t \in 1..Len(b) /\ v[i] = b[i + t]
  BY DropIs
<1>3. /\ p \o v \in Seq(Units) /\ Len(p \o v) = Len(p) + Len(v)
      /\ \A i \in 1..Len(p) : (p \o v)[i] = p[i]
      /\ \A j \in 1..Len(v) : (p \o v)[Len(p) + j] = v[j]
      /\ \A k \in 1..Len(p \o v) : k \in 1..Len(p) \/ \E j \in 1..Len(v) : k = Len(p) + j
  BY Appended
<1>4. Len(p \o v) = Len(b)
  <2>1. Len(b) \in Nat /\ t \in Nat /\ Len(p) = t /\ Len(v) = Len(b) - t
    BY <1>1, <1>2
  <2>2. Len(p \o v) = Len(p) + Len(v)
    BY <1>3
  <2> QED
    BY <2>1, <2>2
<1>5. ASSUME NEW k \in 1..Len(p \o v) PROVE (p \o v)[k] = b[k]
  <2>1. CASE k \in 1..Len(p)
    BY <1>1, <1>3, <2>1
  <2>2. ASSUME NEW j \in 1..Len(v), k = Len(p) + j PROVE (p \o v)[k] = b[k]
    <3>1. k = j + t
      BY <1>1, <2>2
    <3> QED
      BY <1>2, <1>3, <2>2, <3>1
  <2> QED
    BY <1>3, <2>1, <2>2
<1>6. p \o v = b
  BY <1>3, <1>4, <1>5, SeqEqual
<1> QED
  BY <1>1, <1>2, <1>6

LEMMA BodyTyped ==
  ASSUME NEW m \in 1..MaxMsgs, NEW n \in BodyLens
  PROVE  /\ Body(m, n) \in Seq(Units) /\ Len(Body(m, n)) = n
         /\ \A k \in 1..n : Body(m, n)[k] = Unit(m, n, MSG_HDR + k)
<1>1. m \in 0..MaxMsgs
  BY Sizes
<1>2. /\ Len(Body(m, n)) = n
      /\ \A k \in 1..n : Body(m, n)[k] = Unit(m, n, MSG_HDR + k)
      /\ Body(m, n) \in Seq([msg : {m}, len : {n}, at : Nat])
  BY <1>1, BodyIs
<1>3. \A k \in 1..Len(Body(m, n)) : Body(m, n)[k] \in Units
  <2> TAKE k \in 1..Len(Body(m, n))
  <2>1. MSG_HDR + k \in Nat /\ Body(m, n)[k] = Unit(m, n, MSG_HDR + k)
    BY <1>2, Sizes
  <2> QED
    BY <2>1, UnitTyped
<1> QED
  BY <1>2, <1>3

\* Where a header is due there is one.
LEMMA HeaderAt ==
  ASSUME NEW b \in Seq(Units), Parsed(b), Len(b) >= MSG_HDR
  PROVE  /\ SubSeq(b, 1, MSG_HDR) = Header(b[1].msg, b[1].len)
         /\ b[1].msg \in 1..MaxMsgs /\ b[1].len \in BodyLens
<1>0. MSG_HDR \in Nat /\ MSG_HDR >= 1 /\ Len(b) \in Nat
  BY Sizes
<1>1. Len(b) >= 1 /\ MSG_HDR \in 0..Len(b) /\ 1 \in 1..Len(b)
  BY <1>0
<1>2. b[1].msg \in 1..MaxMsgs /\ b[1].len \in BodyLens
  BY <1>1, UnitNat
<1>3. PICK m \in 1..MaxMsgs : m = b[1].msg
  BY <1>2
<1>4. PICK n \in BodyLens : n = b[1].len
  BY <1>2
<1>5. \A k \in 1..Len(b) : k <= Total(n) => b[k] = Unit(m, n, k)
  BY <1>1, <1>3, <1>4, FirstBlock
<1>6. Total(n) \in Nat /\ Total(n) > MSG_HDR
  BY TotalNat
<1>7. m \in 0..MaxMsgs
  BY Sizes
<1>8. /\ Header(m, n) \in Seq(Units) /\ Len(Header(m, n)) = MSG_HDR
      /\ \A k \in 1..MSG_HDR : Header(m, n)[k] = Unit(m, n, k)
  BY <1>7, HeaderIs, HeaderTyped
<1>9. PICK p \in Seq(Units) :
        p = SubSeq(b, 1, MSG_HDR) /\ Len(p) = MSG_HDR /\ \A i \in 1..MSG_HDR : p[i] = b[i]
  BY <1>1, FrontIs
<1>10. ASSUME NEW k \in 1..MSG_HDR PROVE p[k] = Header(m, n)[k]
  <2>1. k \in 1..Len(b) /\ k <= Total(n)
    BY <1>0, <1>1, <1>6
  <2> QED
    BY <1>5, <1>8, <1>9, <2>1
<1>11. p = Header(m, n)
  BY <1>8, <1>9, <1>10, SeqEqual
<1> QED
  BY <1>2, <1>3, <1>4, <1>9, <1>11

\* Behind a header that was read there is its body.
Behind(u, m, n, b) == u = Header(m, n) \o b
Rest(u, t) == SubSeq(u, t + 1, Len(u))

LEMMA BodyAt ==
  ASSUME NEW m \in 1..MaxMsgs, NEW n \in BodyLens, NEW b \in Seq(Units),
         NEW u \in Seq(Units), Behind(u, m, n, b)
  PROVE  /\ Len(u) = MSG_HDR + Len(b) /\ Len(u) >= 1
         /\ u[1].msg = m /\ u[1].len = n
         /\ Parsed(u) /\ n <= Len(b) =>
              /\ SubSeq(b, 1, n) = Body(m, n) /\ Total(n) <= Len(u)
              /\ Rest(b, n) = Rest(u, Total(n))
<1>0. MSG_HDR \in Nat /\ MSG_HDR >= 1 /\ Len(b) \in Nat
  BY Sizes
<1>a. n \in Nat /\ Total(n) \in Nat /\ Total(n) = MSG_HDR + n
  BY TotalNat DEF Total
<1>1. m \in 0..MaxMsgs
  BY Sizes
<1>2. PICK h \in Seq(Units) :
        /\ h = Header(m, n) /\ Len(h) = MSG_HDR
        /\ \A k \in 1..MSG_HDR : h[k] = Unit(m, n, k)
  BY <1>1, HeaderIs, HeaderTyped
<1>3. /\ Len(u) = Len(h) + Len(b)
      /\ \A i \in 1..Len(h) : u[i] = h[i]
      /\ \A j \in 1..Len(b) : u[Len(h) + j] = b[j]
  BY <1>2, Appended DEF Behind
<1>4. Len(u) = MSG_HDR + Len(b) /\ Len(u) >= 1
  BY <1>0, <1>2, <1>3
<1>5. u[1] = Unit(m, n, 1)
  BY <1>0, <1>2, <1>3
<1>6. u[1].msg = m /\ u[1].len = n
  BY <1>5, UnitEq
<1>7. ASSUME Parsed(u), n <= Len(b)
      PROVE  /\ SubSeq(b, 1, n) = Body(m, n) /\ Total(n) <= Len(u)
             /\ Rest(b, n) = Rest(u, Total(n))
  <2>0. Total(n) <= Len(u) /\ n \in 0..Len(b) /\ Total(n) \in 0..Len(u)
    BY <1>0, <1>4, <1>7, <1>a
  <2>1. \A k \in 1..Len(u) : k <= Total(n) => u[k] = Unit(m, n, k)
    BY <1>4, <1>6, <1>7, FirstBlock
  <2>2. PICK p \in Seq(Units) :
          p = SubSeq(b, 1, n) /\ Len(p) = n /\ \A i \in 1..n : p[i] = b[i]
    BY <2>0, FrontIs
  <2>3. PICK q \in Seq(Units) :
          /\ q = Body(m, n) /\ Len(q) = n
          /\ \A k \in 1..n : q[k] = Unit(m, n, MSG_HDR + k)
    BY BodyTyped
  <2>4. ASSUME NEW k \in 1..n PROVE p[k] = q[k]
    <3>1. k \in 1..Len(b) /\ MSG_HDR + k \in 1..Len(u) /\ MSG_HDR + k <= Total(n)
      BY <1>0, <1>4, <1>7, <1>a
    <3>2. b[k] = u[MSG_HDR + k]
      BY <1>2, <1>3, <3>1
    <3>3. u[MSG_HDR + k] = Unit(m, n, MSG_HDR + k)
      BY <2>1, <3>1
    <3> QED
      BY <2>2, <2>3, <3>2, <3>3
  <2>5. p = q
    BY <2>2, <2>3, <2>4, SeqEqual
  <2>6. PICK v \in Seq(Units) :
          /\ v = SubSeq(b, n + 1, Len(b)) /\ Len(v) = Len(b) - n
          /\ \A i \in 1..Len(v) : i + n \in 1..Len(b) /\ v[i] = b[i + n]
    BY <2>0, DropIs
  <2>7. PICK w \in Seq(Units) :
          /\ w = SubSeq(u, Total(n) + 1, Len(u)) /\ Len(w) = Len(u) - Total(n)
          /\ \A i \in 1..Len(w) : i + Total(n) \in 1..Len(u) /\ w[i] = u[i + Total(n)]
    BY <2>0, DropIs
  <2>8. Len(v) = Len(w) /\ Len(v) \in Nat
    BY <1>0, <1>4, <1>a, <2>6, <2>7, SMTT(30)
  <2>9. ASSUME NEW k \in 1..Len(v) PROVE v[k] = w[k]
    <3>1. k + n \in 1..Len(b) /\ v[k] = b[k + n] /\ w[k] = u[k + Total(n)]
      BY <2>6, <2>7, <2>8
    <3>2. u[MSG_HDR + (k + n)] = b[k + n]
      BY <1>2, <1>3, <3>1
    <3>3. MSG_HDR + (k + n) = k + Total(n)
      BY <1>0, <1>a, <2>8
    <3> QED
      BY <3>1, <3>2, <3>3
  <2>10. v = w
    BY <2>6, <2>7, <2>8, <2>9, SeqEqual
  <2> QED
    BY <2>0, <2>2, <2>3, <2>5, <2>6, <2>7, <2>10 DEF Rest
<1> QED
  BY <1>3, <1>4, <1>6, <1>7

-----------------------------------------------------------------------------
(* Steps of the app in a clean session                                     *)

lines == <<sState, txSeq, pending, clearAllEpoch, call, msgs, rxSeq, rxSeqSet, data, ctrl,
           session, joined, confirmed>>

\* The app reads on: the rest is as it was.
LEMMA ReadClean ==
  ASSUME TypeInv, CleanInv(call), UNCHANGED lines, appBuf # <<>> \/ msgRx # NoMsg,
         StreamInv(call)',
         \A n \in BodyLens, h \in Nat :
           UpTo(Unread, got, call.msg, n, h) /\ Live(call, session) =>
             UpTo(Unread', got', call.msg, n, h)
  PROVE  CleanInv(call)'
<1>0. UNCHANGED <<sState, txSeq, pending, clearAllEpoch, call, msgs, rxSeq, rxSeqSet, data, ctrl>>
      /\ UNCHANGED <<session, joined, confirmed>> /\ Rx' = Rx
  BY DEF lines, Rx
<1>1. QuietInv(call)'
  BY <1>0 DEF CleanInv, QuietInv
<1>2. NumberInv(call)' /\ CursorInv(call)' /\ DataInv(call)' /\ AckInv(call)'
  BY <1>0 DEF CleanInv, NumberInv, CursorInv, DataInv, AckInv
<1>3. ASSUME Live(call, session) PROVE ProgressInv(call)'
  <2>1. Ready(call)
    BY <1>3, ActiveReady DEF TypeInv, Live
  <2>2. Base(call) \in Nat /\ Full(call) \in Nat /\ call.len \in BodyLens
    BY <2>1, PayloadIs DEF Ready
  <2>3. /\ UpTo(Unread, got, call.msg, call.len, Base(call)) =>
             UpTo(Unread', got', call.msg, call.len, Base(call))
        /\ UpTo(Unread, got, call.msg, call.len, Full(call)) =>
             UpTo(Unread', got', call.msg, call.len, Full(call))
    BY <1>3, <2>2
  <2>4. ASSUME NEW mode, ProgressOK(call, mode, Unread, got, Rx, data)
        PROVE  ProgressOK(call, mode, Unread', got', Rx, data)
    BY <2>3, <2>4 DEF ProgressOK
  <2> QED
    BY <1>0, <1>3, <2>4 DEF CleanInv, ProgressInv
<1>4. ProgressInv(call)'
  BY <1>0, <1>3 DEF ProgressInv
<1> QED
  BY <1>1, <1>2, <1>4 DEF CleanInv

\* There are no bytes that are no header.
LEMMA HeaderDue ==
  ASSUME TypeInv, CleanInv(call), msgRx = NoMsg, Len(appBuf) >= MSG_HDR
  PROVE  AtHeader /\ appBuf[1].msg \in 1..MaxMsgs /\ appBuf[1].len \in BodyLens
<1>1. appBuf \in Seq(Units) /\ Parsed(appBuf)
  BY DEF TypeInv, BufTypes, CleanInv, StreamInv, Stream, Unread
<1> QED
  BY <1>1, HeaderAt DEF AtHeader

\* The header that was read, and what is behind it.
LEMMA ReadSoFar ==
  ASSUME TypeInv, CleanInv(call), msgRx # NoMsg
  PROVE  /\ msgRx.msg \in 1..MaxMsgs /\ msgRx.len \in BodyLens /\ appBuf \in Seq(Units)
         /\ Unread = Header(msgRx.msg, msgRx.len) \o appBuf /\ Unread \in Seq(Units)
<1>1. Unread \in Seq(Units)
  BY UnreadTyped DEF CleanInv, StreamInv
<1> QED
  BY <1>1 DEF TypeInv, MsgRxTypes, BufTypes, CleanInv, StreamInv, Unread

\* The header in front of the buffer, and what is behind it.
LEMMA HeaderAhead ==
  ASSUME TypeInv, CleanInv(call), msgRx = NoMsg, Len(appBuf) >= MSG_HDR
  PROVE  /\ Drop(MSG_HDR) \in Seq(Units) /\ Unread \in Seq(Units)
         /\ Unread = Header(appBuf[1].msg, appBuf[1].len) \o Drop(MSG_HDR)
<1>1. appBuf \in Seq(Units) /\ Len(appBuf) \in Nat /\ MSG_HDR \in Nat \ {0}
  BY Sizes DEF TypeInv, BufTypes
<1>2. MSG_HDR \in 0..Len(appBuf)
  BY <1>1
<1>3. Drop(MSG_HDR) \in Seq(Units)
  BY <1>1, <1>2, DropTyped DEF Drop
<1>4. SubSeq(appBuf, 1, MSG_HDR) \o SubSeq(appBuf, MSG_HDR + 1, Len(appBuf)) = appBuf
  BY <1>1, <1>2, Split
<1>5. Header(appBuf[1].msg, appBuf[1].len) = SubSeq(appBuf, 1, MSG_HDR)
  BY HeaderDue DEF AtHeader
<1>6. Unread = appBuf
  BY DEF Unread
<1> QED
  BY <1>1, <1>3, <1>4, <1>5, <1>6 DEF Drop

\* A complete body behind its header is the body that was sent.
LEMMA TakeBodyClean ==
  ASSUME TypeInv, SenderInv, CleanInv(call), UNCHANGED lines, appBuf # <<>> \/ msgRx # NoMsg,
         NEW m \in 1..MaxMsgs, NEW n \in BodyLens, NEW b \in Seq(Units), n <= Len(b),
         Unread = Header(m, n) \o b, Unread \in Seq(Units),
         NEW h, h.msg = m, h.len = n, TakeBody(h, b)
  PROVE  CleanInv(call)' /\ errDue' = errDue
<1>0. /\ msgRx' = NoMsg /\ appBuf' = SubSeq(b, n + 1, Len(b))
      /\ SubSeq(b, 1, n) = Body(m, n) => got' = Append(got, m) /\ errDue' = errDue
  BY DEF TakeBody
<1>4. PICK u \in Seq(Units) : u = Header(m, n) \o b /\ u = Unread
  OBVIOUS
<1>5. PICK open : open = IF Live(call, session) THEN call.msg ELSE 0
  OBVIOUS
<1>6. Stream(u, got, confirmed, msgs, open) /\ got \in Seq(1..MaxMsgs) /\ msgs \in Nat
  BY <1>4, <1>5, Sizes DEF CleanInv, StreamInv, TypeInv, HistTypes
<1>7. /\ Len(u) >= 1 /\ u[1].msg = m /\ u[1].len = n
      /\ SubSeq(b, 1, n) = Body(m, n) /\ Total(n) <= Len(u)
      /\ Rest(b, n) = Rest(u, Total(n))
  <2>1. Parsed(u) /\ Behind(u, m, n, b) /\ n <= Len(b)
    BY <1>4, <1>6 DEF Stream, Behind
  <2>2. Len(u) >= 1 /\ u[1].msg = m /\ u[1].len = n
    BY <2>1, BodyAt
  <2>3. /\ SubSeq(b, 1, n) = Body(m, n) /\ Total(n) <= Len(u)
        /\ Rest(b, n) = Rest(u, Total(n))
    BY <2>1, BodyAt
  <2> QED
    BY <2>2, <2>3
<1>8. got' = Append(got, m) /\ errDue' = errDue
  BY <1>0, <1>7
<1>9. Unread' = SubSeq(u, Total(n) + 1, Len(u))
  BY <1>0, <1>7 DEF Unread, Rest
<1>10. /\ Stream(Unread', got', confirmed, msgs, open)
       /\ \A k \in BodyLens, i \in Nat :
            UpTo(u, got, msgs, k, i) => UpTo(Unread', got', msgs, k, i)
  BY <1>6, <1>7, <1>8, <1>9, StreamDrop
<1>11. StreamInv(call)'
  BY <1>0, <1>5, <1>10 DEF StreamInv, lines
<1>12. Live(call, session) => call.msg = msgs
  BY DEF SenderInv, Live
<1> QED
  BY <1>4, <1>8, <1>10, <1>11, <1>12, ReadClean

LEMMA RecvHeaderClean ==
  ASSUME TypeInv, SenderInv, CleanInv(call), NEW n \in BodyLens, RecvHeader(n)
  PROVE  CleanInv(call)' /\ errDue' = errDue
<1> DEFINE h == [msg |-> IF AtHeader THEN appBuf[1].msg ELSE 0, len |-> n]
<1>1. /\ msgRx = NoMsg /\ Len(appBuf) >= MSG_HDR /\ (AtHeader => n = appBuf[1].len)
      /\ \/ msgRx' = h /\ appBuf' = Drop(MSG_HDR) /\ got' = got /\ errDue' = errDue
         \/ Len(Drop(MSG_HDR)) >= n /\ TakeBody(h, Drop(MSG_HDR))
      /\ UNCHANGED lines
  BY DEF RecvHeader, AppStep, lines, sender, world
<1>2. AtHeader /\ appBuf[1].msg \in 1..MaxMsgs /\ n = appBuf[1].len
  BY <1>1, HeaderDue
<1>3. h.msg = appBuf[1].msg /\ h.len = n /\ NoMsg.msg = 0
  BY <1>2 DEF NoMsg
<1> HIDE DEF h
<1>4. h.msg # 0 /\ h # NoMsg
  BY <1>2, <1>3
<1>5. /\ Drop(MSG_HDR) \in Seq(Units) /\ Unread \in Seq(Units)
      /\ Unread = Header(h.msg, n) \o Drop(MSG_HDR)
  BY <1>1, <1>2, <1>3, HeaderAhead
<1>6. appBuf # <<>>
  BY <1>1, Sizes
<1>7. CASE msgRx' = h /\ appBuf' = Drop(MSG_HDR) /\ got' = got /\ errDue' = errDue
  <2>1. Unread' = Unread
    BY <1>3, <1>4, <1>5, <1>7 DEF Unread
  <2>2. StreamInv(call)'
    BY <1>1, <1>4, <1>7, <2>1 DEF CleanInv, StreamInv, lines
  <2> QED
    BY <1>1, <1>6, <1>7, <2>1, <2>2, ReadClean
<1>8. CASE Len(Drop(MSG_HDR)) >= n /\ TakeBody(h, Drop(MSG_HDR))
  <2>1. PICK b \in Seq(Units) : b = Drop(MSG_HDR)
    BY <1>5
  <2>2. n <= Len(b)
    BY <1>8, <2>1, Sizes
  <2>3. h.msg \in 1..MaxMsgs
    BY <1>2, <1>3
  <2> QED
    BY <1>1, <1>3, <1>5, <1>6, <1>8, <2>1, <2>2, <2>3, TakeBodyClean
<1> QED
  BY <1>1, <1>7, <1>8

LEMMA RecvBodyClean ==
  ASSUME TypeInv, SenderInv, CleanInv(call), RecvBody
  PROVE  CleanInv(call)' /\ errDue' = errDue
<1>1. msgRx # NoMsg /\ Len(appBuf) >= msgRx.len /\ TakeBody(msgRx, appBuf) /\ UNCHANGED lines
  BY DEF RecvBody, AppStep, lines, sender, world
<1>2. /\ msgRx.msg \in 1..MaxMsgs /\ msgRx.len \in BodyLens /\ appBuf \in Seq(Units)
      /\ Unread = Header(msgRx.msg, msgRx.len) \o appBuf /\ Unread \in Seq(Units)
  BY <1>1, ReadSoFar
<1>3. msgRx.len <= Len(appBuf)
  BY <1>1, <1>2, Sizes
<1> QED
  BY <1>1, <1>2, <1>3, TakeBodyClean

\* A message that is not complete is the one that is being sent: whatever
\* recvMsg abandons, it abandons too soon.
LEMMA NeverOrphaned ==
  ASSUME TypeInv, CleanInv(call), msgRx # NoMsg
  PROVE  TooSoon
<1> SUFFICES ASSUME ~TooSoon PROVE FALSE
  OBVIOUS
<1>0. msgRx # NoMsg /\ call.msg # msgRx.msg /\ ~(Len(appBuf) >= msgRx.len)
  BY DEF TooSoon
<1>1. PICK m \in 1..MaxMsgs : m = msgRx.msg
  BY <1>0, ReadSoFar
<1>2. PICK n \in BodyLens : n = msgRx.len
  BY <1>0, ReadSoFar
<1>3. PICK b \in Seq(Units) : b = appBuf /\ Len(b) < n
  <2>1. appBuf \in Seq(Units) /\ Len(appBuf) \in Nat /\ n \in Nat
    BY <1>0, ReadSoFar, Sizes
  <2> QED
    BY <1>0, <1>2, <2>1
<1>4. PICK u \in Seq(Units) : u = Header(m, n) \o b /\ u = Unread
  BY <1>0, <1>1, <1>2, <1>3, ReadSoFar
<1>5. PICK open : open = IF Live(call, session) THEN call.msg ELSE 0
  OBVIOUS
<1>6. Stream(u, got, confirmed, msgs, open)
  BY <1>4, <1>5 DEF CleanInv, StreamInv
<1>7. Len(u) = MSG_HDR + Len(b) /\ Len(u) >= 1 /\ u[1].msg = m /\ u[1].len = n
  <2>1. Behind(u, m, n, b)
    BY <1>4 DEF Behind
  <2> QED
    BY <2>1, BodyAt
<1>8. u[1].at = 1
  BY <1>6, <1>7, FirstBlock DEF Stream
<1>9. n \in Nat /\ MSG_HDR \in Nat /\ Len(b) \in Nat /\ Len(u) \in Nat /\ Total(n) = MSG_HDR + n
  BY <1>7, TotalNat, Sizes DEF Total
<1>10. 1 - 1 + Total(n) > Len(u)
  BY <1>3, <1>7, <1>9
<1>11. ~Whole(u, 1)
  BY <1>7, <1>8, <1>9, <1>10 DEF Whole
<1>12. u[1].msg = open
  BY <1>6, <1>7, <1>9, <1>11 DEF Stream
<1>13. m # 0 /\ m # call.msg
  BY <1>0, <1>1
<1> QED
  BY <1>5, <1>7, <1>12, <1>13

-----------------------------------------------------------------------------
(* The session invariant                                                   *)

\* Nothing changes that the invariant of a session is about.
LEMMA SameClean ==
  ASSUME CleanInv(call), UNCHANGED <<sState, txSeq, pending, clearAllEpoch, call, msgs>>,
         UNCHANGED <<rxSeq, rxSeqSet, appBuf, msgRx, data, ctrl, session, confirmed, got>>,
         "sender" \in joined' <=> "sender" \in joined
  PROVE  CleanInv(call)'
<1>1. Rx' = Rx /\ Unread' = Unread
  BY DEF Rx, Unread
<1>2. QuietInv(call)'
  BY DEF CleanInv, QuietInv
<1>3. NumberInv(call)' /\ CursorInv(call)' /\ DataInv(call)' /\ AckInv(call)'
  BY <1>1 DEF CleanInv, NumberInv, CursorInv, DataInv, AckInv
<1>4. StreamInv(call)' /\ ProgressInv(call)'
  BY <1>1 DEF CleanInv, StreamInv, ProgressInv
<1> QED
  BY <1>2, <1>3, <1>4 DEF CleanInv

LEMMA CleanIncreasing ==
  ASSUME CleanInv(call)'
  PROVE  Increasing(got)'
  BY DEF CleanInv, StreamInv, Stream

\* A new session, or the sender's part in one.
LEMMA LockClean ==
  ASSUME TypeInv, SenderInv, ReceiverInv, SessionInv, taint' = {}, SenderLock \/ ReceiverLock
  PROVE  Increasing(got)' /\ (~Gone' => CleanInv(call)')
<1>0. /\ UNCHANGED <<txSeq, pending, clearAllEpoch, call, msgs, rxSeq, rxSeqSet, data, ctrl>>
      /\ appBuf' = appBuf \/ appBuf' = <<>>
      /\ msgRx' = msgRx \/ msgRx' = NoMsg
  BY DEF SenderLock, ReceiverLock, sender
<1>1. sState' \in {"OK", "SWP"} /\ session \in Nat /\ call.sess \in Nat
  BY DEF TypeInv, SendTypes, HistTypes, CallOK, SenderLock, ReceiverLock, sender
<1>2. CASE \E side : NewSession(side)
  <2>1. /\ sState = "SWP" /\ rState = "SWP" /\ data = <<>> /\ ctrl = <<>>
        /\ session' = session + 1 /\ confirmed' = {} /\ got' = <<>>
    BY <1>2 DEF NewSession
  <2>2. ~rxSeqSet' /\ appBuf' = <<>> /\ msgRx' = NoMsg
    BY <1>0, <2>1 DEF ReceiverInv
  <2>3. call'.sess # session'
    BY <1>0, <1>1, <2>1 DEF SenderInv
  <2>4. ~Live(call', session')
    BY <2>3 DEF Live
  <2>5. call'.phase = "wait" => ~AckedBy(call', pending', clearAllEpoch')
    BY <1>0, <2>1 DEF SenderInv
  <2> QED
    BY <1>0, <1>1, <2>1, <2>2, <2>4, <2>5, FreshClean
<1>3. CASE SenderLock /\ JoinSession("sender", rState)
  <2>1. /\ sState = "SWP" /\ rState = "OK" /\ "sender" \notin joined /\ taint = {}
        /\ UNCHANGED <<session, confirmed, got, appBuf, msgRx>>
    BY <1>3 DEF SenderLock, JoinSession
  <2>2. CleanInv(call)
    BY <2>1 DEF SessionInv, Gone
  <2>3. /\ data = <<>> /\ ctrl = <<>> /\ got = <<>> /\ confirmed = {}
        /\ ~rxSeqSet /\ appBuf = <<>> /\ msgRx = NoMsg
    BY <2>1, <2>2 DEF CleanInv, QuietInv
  <2>4. ~Live(call, session) /\ (call.phase = "wait" => ~AckedBy(call, pending, clearAllEpoch))
    BY <2>1 DEF SenderInv
  <2> QED
    BY <1>0, <1>1, <2>1, <2>3, <2>4, FreshClean
<1>4. CASE ReceiverLock /\ JoinSession("receiver", sState)
  <2>1. /\ rState = "SWP" /\ "receiver" \notin joined /\ taint = {} /\ sState' = sState
        /\ UNCHANGED <<session, confirmed, got>> /\ appBuf' = <<>> /\ msgRx' = NoMsg
        /\ ("sender" \in joined' <=> "sender" \in joined)
    BY <1>4 DEF ReceiverLock, JoinSession, sender
  <2>2. CleanInv(call)
    BY <2>1 DEF SessionInv, Gone
  <2>3. appBuf' = appBuf /\ msgRx' = msgRx
    BY <2>1 DEF ReceiverInv
  <2>4. CleanInv(call)'
    BY <1>0, <2>1, <2>2, <2>3, SameClean
  <2> QED
    BY <2>4, CleanIncreasing
<1> QED
  BY <1>2, <1>3, <1>4 DEF SenderLock, ReceiverLock

\* What has gone wrong in a session stays.
LEMMA TaintStays ==
  ASSUME [Next]_vars, ~SenderLock, ~ReceiverLock
  PROVE  taint \subseteq taint'
<1>1. ASSUME NEW c, Transmit(c) \/ SendFrame(c) PROVE taint \subseteq taint'
  BY <1>1 DEF SendFrame, Transmit
<1>2. ASSUME NEW c, NEW clear, GiveUp(c, clear) PROVE taint \subseteq taint'
  BY <1>2 DEF GiveUp
<1>3. ASSUME NEW dt, NEW clear, RtoStep(dt, clear) PROVE taint \subseteq taint'
  BY <1>1, <1>2, <1>3 DEF RtoStep
<1>4. CASE FrameAcked
  BY <1>1, <1>4 DEF FrameAcked
<1>5. CASE Drain
  BY <1>1, <1>2, <1>5 DEF Drain
<1>6. CASE CallNext
  BY <1>3, <1>4, <1>5, <1>6 DEF CallNext, WaitReset, WaitNak, WaitTimeout
<1>7. ASSUME NEW n \in BodyLens, NEW merged \in BOOLEAN, SendMsg(n, merged)
      PROVE  taint \subseteq taint'
  BY <1>1, <1>7 DEF SendMsg
<1>8. CASE UNCHANGED taint
  BY <1>8
<1>9. CASE UartNext
  BY <1>8, <1>9 DEF UartNext, OnAck, OnNak, ReceiveSweeping, ReceiveStale, ReceiveGap,
     ReceiveHeld, ReceiveForward, Receive
<1>10. CASE AppNext
  BY <1>8, <1>10 DEF AppNext, RecvStale, RecvBadHeader, RecvHeader, RecvBody, Err, AppStep
<1>11. CASE SenderReset \/ ReceiverReset \/ LoseData \/ LoseCtrl \/ UNCHANGED vars
  BY <1>8, <1>11 DEF SenderReset, ReceiverReset, LoseData, LoseCtrl, vars
<1> QED
  BY <1>6, <1>7, <1>9, <1>10, <1>11 DEF Next

\* The app's calls in a clean session: no error is due.
LEMMA AppClean ==
  ASSUME TypeInv, SenderInv, CleanInv(call), AppNext, ~Err, taint' = {}
  PROVE  CleanInv(call)' /\ errDue' = errDue
<1>1. ~RecvStale
  <2> SUFFICES ASSUME RecvStale PROVE FALSE
    OBVIOUS
  <2>1. TooSoon
    BY NeverOrphaned DEF RecvStale, Overdue
  <2>2. taint' = taint \cup {"stale"}
    BY <2>1 DEF RecvStale
  <2> QED
    BY <2>2
<1>2. ~RecvBadHeader
  BY HeaderDue DEF RecvBadHeader
<1>3. ASSUME NEW n \in BodyLens, RecvHeader(n) PROVE CleanInv(call)' /\ errDue' = errDue
  BY <1>3, RecvHeaderClean
<1>4. CASE RecvBody
  BY <1>4, RecvBodyClean
<1> QED
  BY <1>1, <1>2, <1>3, <1>4 DEF AppNext

LEMMA SessionNext ==
  ASSUME SyncInv, [Next]_vars
  PROVE  SessionInv'
<1> SUFFICES ASSUME taint' = {} PROVE Increasing(got)' /\ (~Gone' => CleanInv(call)')
  BY DEF SessionInv
<1>0. TypeInv /\ SenderInv /\ ReceiverInv /\ SessionInv
  BY DEF SyncInv
<1>1. CASE SenderLock \/ ReceiverLock
  BY <1>0, <1>1, LockClean
<1>2. CASE ~SenderLock /\ ~ReceiverLock
  <2>0. taint = {} /\ Increasing(got) /\ (~Gone => CleanInv(call)) /\ rState \in {"OK", "SWP"}
    BY <1>0, <1>2, TaintStays DEF SessionInv, TypeInv, RecvTypes
  <2>1. ASSUME UNCHANGED <<rState, joined>>, got' = got \/ rState = "OK",
               CleanInv(call) => CleanInv(call)'
        PROVE  Increasing(got)' /\ (~Gone' => CleanInv(call)')
    <3>1. Gone' <=> Gone
      BY <2>1 DEF Gone
    <3>2. Gone => rState # "OK"
      BY DEF Gone
    <3> QED
      BY <2>0, <2>1, <3>1, <3>2, CleanIncreasing
  <2>2. CASE ReceiverWipe /\ rState = "OK" /\ UNCHANGED <<joined, got>>
    <3>1. Gone'
      BY <1>0, <2>2 DEF ReceiverWipe, ReceiverInv, Gone
    <3> QED
      BY <2>0, <2>2, <3>1
  <2>3. ASSUME NEW n \in BodyLens, NEW merged \in BOOLEAN, SendMsg(n, merged)
        PROVE  Increasing(got)' /\ (~Gone' => CleanInv(call)')
    <3>1. UNCHANGED <<rState, joined, got>>
      BY <2>3 DEF SendMsg, receiver, world
    <3> QED
      BY <1>0, <2>1, <2>3, <3>1, SendMsgClean
  <2>4. CASE CallNext
    <3>1. UNCHANGED <<rState, joined, got>>
      BY <2>4 DEF CallNext, FrameAcked, WaitReset, WaitNak, WaitTimeout, Drain, SenderStep,
         receiver, world
    <3> QED
      BY <1>0, <2>1, <2>4, <3>1, CallClean
  <2>5. CASE UartNext \/ LoseData \/ LoseCtrl \/ SenderReset
    <3>1. UNCHANGED <<rState, joined, got>>
      BY <2>5 DEF UartNext, OnAck, OnNak, ReceiveSweeping, ReceiveStale, ReceiveGap,
         ReceiveHeld, ReceiveForward, Receive, LoseData, LoseCtrl, SenderReset, receiver, world
    <3>2. CleanInv(call) => CleanInv(call)'
      BY <1>0, <2>5, OnAckClean, LossClean, ReceiveClean, SenderResetClean DEF UartNext
    <3> QED
      BY <2>1, <3>1, <3>2
  <2>6. CASE AppNext /\ ~Err
    <3>1. UNCHANGED <<rState, joined>> /\ rState = "OK"
      BY <2>6 DEF AppNext, RecvStale, RecvBadHeader, RecvHeader, RecvBody, AppStep, AppCalls, world
    <3> QED
      BY <1>0, <2>1, <2>6, <3>1, AppClean
  <2>7. CASE UNCHANGED <<sender, rState, rxSeq, rxSeqSet, appBuf, msgRx, got, data, ctrl,
                         world, confirmed>>
    <3>1. /\ UNCHANGED <<sState, txSeq, pending, clearAllEpoch, call, msgs>>
          /\ UNCHANGED <<rxSeq, rxSeqSet, appBuf, msgRx, data, ctrl, session, confirmed, got>>
          /\ UNCHANGED <<rState, joined>>
      BY <2>7 DEF sender, world
    <3> QED
      BY <2>1, <3>1, SameClean
  <2>8. CASE Err
    <3>1. CASE ErrsExceeded /\ ReceiverWipe
      BY <2>2, <2>8, <3>1 DEF Err, ErrsExceeded, world
    <3> QED
      BY <2>7, <2>8, <3>1 DEF Err
  <2>9. CASE ReceiverReset
    BY <2>2, <2>9 DEF ReceiverReset, world
  <2>10. CASE UNCHANGED vars
    BY <2>7, <2>10 DEF vars, receiver
  <2> QED
    BY <1>2, <2>3, <2>4, <2>5, <2>6, <2>8, <2>9, <2>10 DEF Next
<1> QED
  BY <1>1, <1>2

LEMMA InitSync == Init => SyncInv
<1> SUFFICES ASSUME Init PROVE SyncInv
  OBVIOUS
<1>1. TypeInv
  BY InitTypes
<1>2. /\ sState = "SWP" /\ call = Idle /\ clearAllEpoch = 0 /\ rState = "SWP" /\ ~rxSeqSet
      /\ appBuf = <<>> /\ msgRx = NoMsg /\ data = <<>> /\ ctrl = <<>> /\ session = 0
      /\ joined = {} /\ confirmed = {} /\ got = <<>> /\ msgs = 0
  BY Zenon DEF Init
<1>3. call.phase = "idle" /\ call.gen = 0 /\ call.sess = 0 /\ ~Live(call, session)
  BY <1>2, IdleIs DEF Live
<1>4. SenderInv /\ ReceiverInv
  BY <1>2, <1>3 DEF SenderInv, ReceiverInv
<1>5. Rx = NoSeq /\ Unread = <<>> /\ Mode(call, session, sState, clearAllEpoch) = "none"
  BY <1>2, <1>3 DEF Rx, Unread, Mode
<1>6. QuietInv(call) /\ NumberInv(call) /\ CursorInv(call) /\ ProgressInv(call)
  BY <1>2, <1>3, <1>5 DEF QuietInv, NumberInv, CursorInv, CursorOK, ProgressInv
<1>7. DataInv(call) /\ AckInv(call)
  BY <1>2, DataEmpty, AcksEmpty DEF DataInv, AckInv
<1>8. StreamInv(call) /\ Increasing(got)
  BY <1>2, <1>5, StreamEmpty DEF StreamInv
<1> QED
  BY <1>1, <1>4, <1>6, <1>7, <1>8 DEF SyncInv, SessionInv, CleanInv

\* The invariant holds in every reachable state: what a session in which no
\* frame was given up, and no message abandoned by recvMsg while it was being
\* sent or complete, has on its lines, in its cursors and in the app buffer.
THEOREM SyncInvariant == Spec => []SyncInv
<1>1. Init => SyncInv
  BY InitSync
<1>2. SyncInv /\ [Next]_vars => SyncInv'
  <2> SUFFICES ASSUME SyncInv, [Next]_vars PROVE SyncInv'
    OBVIOUS
  <2>1. TypeInv'
    BY NextTypes DEF SyncInv
  <2>2. SenderInv' /\ ReceiverInv'
    BY SenderNext, ReceiverNext DEF SyncInv
  <2>3. SessionInv'
    BY SessionNext
  <2> QED
    BY <2>1, <2>2, <2>3 DEF SyncInv
<1> QED
  BY <1>1, <1>2, PTL DEF Spec

-----------------------------------------------------------------------------
(* What sendMsg confirms                                                   *)

\* A whole message among the unread units is a whole message of the buffer,
\* which starts behind the first k of them.
LEMMA WholeIsFull ==
  ASSUME NEW u \in Seq(Units), NEW b \in Seq(Units), Parsed(u), NEW k \in Nat,
         Len(u) = k + Len(b), \A j \in 1..Len(b) : u[k + j] = b[j],
         NEW d \in 1..Len(u), k < d, u[d].at = 1, Whole(u, d)
  PROVE  \E e \in 1..Len(b) : b[e].msg = u[d].msg /\ FullAt(b, e)
<1>1. PICK m \in 1..MaxMsgs : m = u[d].msg
  BY UnitNat
<1>2. PICK n \in BodyLens : n = u[d].len
  BY UnitNat
<1>3. n \in Nat /\ MSG_HDR \in Nat /\ MSG_HDR >= 1 /\ Total(n) = MSG_HDR + n
      /\ Len(b) \in Nat /\ Len(u) \in Nat /\ d \in Nat
  BY TotalNat, Sizes DEF Total
<1>4. d - 1 + Total(n) <= Len(u)
  BY <1>2 DEF Whole
<1>5. PICK e \in 1..Len(b) : e = d - k
  BY <1>3
<1>6. k + e = d /\ e + Total(n) <= Len(b) + 1
  BY <1>3, <1>4, <1>5
<1>7. b[e] = u[d]
  BY <1>6
<1>8. e + MSG_HDR <= Len(b) + 1 /\ e + MSG_HDR + n <= Len(b) + 1
  BY <1>3, <1>6
<1>9. SubSeq(b, e, e + MSG_HDR + n - 1) = Text(m, n)
  <2>1. e \in 1..(Len(b) + 1) /\ e + MSG_HDR + n - 1 \in 0..Len(b)
        /\ e <= e + MSG_HDR + n - 1
        /\ e + MSG_HDR + n - 1 - e + 1 = Total(n)
    BY <1>3, <1>5, <1>8
  <2>2. PICK z : z = e + MSG_HDR + n - 1
    OBVIOUS
  <2>3. z \in 0..Len(b) /\ z \in Int /\ e \in Int /\ e <= z /\ z - e + 1 = Total(n)
    BY <1>3, <2>1, <2>2
  <2>4. /\ SubSeq(b, e, z) \in Seq(Units)
        /\ Len(SubSeq(b, e, z)) = IF e <= z THEN z - e + 1 ELSE 0
    BY <2>1, <2>3, StretchTyped
  <2>5. \A j \in 1..(z - e + 1) : SubSeq(b, e, z)[j] = b[e + j - 1]
    <3>1. \A i \in e..z : b[i] \in Units
      BY <2>3
    <3> QED
      BY <2>3, <3>1, SubSeqProperties
  <2>6. Len(SubSeq(b, e, z)) = Total(n)
    BY <2>3, <2>4
  <2>7. /\ Text(m, n) \in Seq(Units) /\ Len(Text(m, n)) = Total(n)
        /\ \A j \in 1..Total(n) : Text(m, n)[j] = Unit(m, n, j)
    BY TextTyped
  <2>8. ASSUME NEW j \in 1..Total(n) PROVE SubSeq(b, e, z)[j] = Text(m, n)[j]
    <3>1. SubSeq(b, e, z)[j] = b[e + j - 1]
      BY <2>3, <2>5
    <3>2. e + j - 1 \in 1..Len(b) /\ k + (e + j - 1) = d + j - 1 /\ d + j - 1 \in 1..Len(u)
          /\ (d + j - 1) - d + 1 = j
      BY <1>3, <1>4, <1>5, <1>6
    <3>3. b[e + j - 1] = u[d + j - 1]
      BY <3>2
    <3>4. PICK i \in 1..Len(u) : i = d + j - 1 /\ i - d + 1 = j
      BY <3>2
    <3>5. i - d + u[d].at \in 1..Total(u[d].len) =>
            u[i] = Unit(u[d].msg, u[d].len, i - d + u[d].at)
      BY ParsedAt
    <3>6. u[i] = Unit(m, n, j)
      BY <1>1, <1>2, <3>4, <3>5
    <3> QED
      BY <2>7, <3>1, <3>3, <3>4, <3>6
  <2>9. SubSeq(b, e, z) = Text(m, n)
    BY <2>4, <2>6, <2>7, <2>8, SeqEqual
  <2> QED
    BY <2>2, <2>9
<1>10. FullAt(b, e) /\ b[e].msg = u[d].msg
  BY <1>1, <1>2, <1>7, <1>8, <1>9 DEF FullAt
<1> QED
  BY <1>10

\* What is held is in the app's hands.
LEMMA HeldInHand ==
  ASSUME TypeInv, CleanInv(call), NEW m, Held(m, got, Unread)
  PROVE  InHand(m)
<1>1. CASE \E i \in 1..Len(got) : got[i] = m
  BY <1>1 DEF InHand
<1>2. ASSUME NEW d \in 1..Len(Unread), Unread[d].msg = m, Unread[d].at = 1, Whole(Unread, d)
      PROVE  InHand(m)
  <2>0. Parsed(Unread) /\ Unread \in Seq(Units) /\ appBuf \in Seq(Units)
    BY UnreadTyped DEF CleanInv, StreamInv, Stream, TypeInv, BufTypes
  <2>1. CASE msgRx = NoMsg
    <3>1. Unread = appBuf
      BY <2>1 DEF Unread
    <3>2. Len(Unread) = 0 + Len(appBuf) /\ \A j \in 1..Len(appBuf) : Unread[0 + j] = appBuf[j]
      BY <2>0, <3>1
    <3>3. 0 < d
      BY <2>0
    <3>4. \E e \in 1..Len(appBuf) : appBuf[e].msg = Unread[d].msg /\ FullAt(appBuf, e)
      BY <1>2, <2>0, <3>2, <3>3, WholeIsFull
    <3> QED
      BY <1>2, <3>4 DEF InHand
  <2>2. CASE msgRx # NoMsg
    <3>1. PICK n \in BodyLens : n = msgRx.len
      BY <2>2, ReadSoFar
    <3>2. PICK k \in 1..MaxMsgs : k = msgRx.msg
      BY <2>2, ReadSoFar
    <3>3. PICK u \in Seq(Units) : u = Unread
      BY <2>0
    <3>4. PICK b \in Seq(Units) : b = appBuf
      BY <2>0
    <3>5. Behind(u, k, n, b)
      BY <2>2, <3>1, <3>2, <3>3, <3>4, ReadSoFar DEF Behind
    <3>6. Len(u) = MSG_HDR + Len(b) /\ Len(u) >= 1 /\ u[1].msg = k /\ u[1].len = n
      BY <3>5, BodyAt
    <3>7. n \in Nat /\ MSG_HDR \in Nat /\ Total(n) = MSG_HDR + n /\ Len(b) \in Nat
      BY TotalNat, Sizes DEF Total
    <3>8. CASE d = 1
      <4>1. 1 - 1 + Total(n) <= Len(u)
        BY <1>2, <3>3, <3>6, <3>8 DEF Whole
      <4>2. n <= Len(b)
        BY <3>6, <3>7, <4>1
      <4>3. SubSeq(b, 1, n) = Body(k, n)
        BY <2>0, <3>3, <3>5, <4>2, BodyAt
      <4>4. k = m
        BY <1>2, <3>3, <3>6, <3>8
      <4> QED
        BY <3>1, <3>2, <3>4, <4>3, <4>4 DEF InHand
    <3>9. CASE d # 1
      <4>1. d \in 1..Len(u) /\ d \in Nat /\ d > 1
        BY <3>3, <3>9
      <4>2. ~(d <= Total(n))
        <5>1. d <= Total(n) => u[d] = Unit(k, n, d)
          BY <2>0, <3>3, <3>6, <4>1, FirstBlock
        <5>2. u[d] = Unit(k, n, d) => u[d].at = d
          BY UnitEq
        <5> QED
          BY <1>2, <3>3, <4>1, <5>1, <5>2
      <4>3. MSG_HDR < d
        BY <3>7, <4>1, <4>2
      <4>4. \A j \in 1..Len(b) : u[MSG_HDR + j] = b[j]
        <5>1. k \in 0..MaxMsgs
          BY Sizes
        <5>2. Header(k, n) \in Seq(Units) /\ Len(Header(k, n)) = MSG_HDR
          BY <5>1, HeaderTyped, HeaderIs
        <5>3. PICK h \in Seq(Units) : h = Header(k, n) /\ Len(h) = MSG_HDR
          BY <5>2
        <5>4. \A j \in 1..Len(b) : (h \o b)[Len(h) + j] = b[j]
          BY Appended
        <5> QED
          BY <3>5, <5>3, <5>4 DEF Behind
      <4>5. \E e \in 1..Len(b) : b[e].msg = u[d].msg /\ FullAt(b, e)
        <5>1. Parsed(u) /\ u[d].at = 1 /\ Whole(u, d)
          BY <1>2, <2>0, <3>3
        <5>2. Len(u) = MSG_HDR + Len(b) /\ MSG_HDR \in Nat
          BY <3>6, <3>7
        <5> QED
          BY <4>1, <4>3, <4>4, <5>1, <5>2, WholeIsFull
      <4> QED
        BY <1>2, <3>3, <3>4, <4>5 DEF InHand
    <3> QED
      BY <3>8, <3>9
  <2> QED
    BY <2>1, <2>2
<1> QED
  BY <1>1, <1>2 DEF Held

\* A message that sendMsg confirmed in a session is in the hands of the
\* receiving app: waitForAck never reports an ACK for a frame that was not
\* delivered (confirmed means received).
THEOREM SyncDelivers == Spec => []ConfirmedIsReceived
<1>1. SyncInv => ConfirmedIsReceived
  <2> SUFFICES ASSUME SyncInv, rState = "OK", taint = {}, NEW m \in confirmed PROVE InHand(m)
    BY DEF ConfirmedIsReceived
  <2>1. TypeInv /\ CleanInv(call)
    BY DEF SyncInv, SessionInv, Gone
  <2>2. Held(m, got, Unread)
    BY <2>1 DEF CleanInv, StreamInv, Stream
  <2> QED
    BY <2>1, <2>2, HeldInHand
<1> QED
  BY <1>1, SyncInvariant, PTL

\* recvMsg returns every message of such a session at most once, in order:
\* a retransmission whose ACK was lost is never delivered twice.
THEOREM SyncInOrder == Spec => []ReceivedInOrder
<1>1. SyncInv => ReceivedInOrder
  BY DEF SyncInv, SessionInv, ReceivedInOrder, Increasing
<1> QED
  BY <1>1, SyncInvariant, PTL

\* The parser of recvMsg meets no bad header and no bad CRC in such a session,
\* and holds no partial message whose sendMsg has ended, so err() is never due.
THEOREM SyncParses == Spec => NoParserError
<1>1. SyncInv /\ [Next]_vars => [taint' = {} /\ ~errDue => ~errDue']_vars
  <2> SUFFICES ASSUME SyncInv, [Next]_vars, taint' = {}, ~errDue PROVE ~errDue'
    OBVIOUS
  <2>0. TypeInv /\ SenderInv
    BY DEF SyncInv
  <2>1. CASE AppNext /\ ~Err
    <3>1. rState = "OK" /\ ~SenderLock /\ ~ReceiverLock
      BY <2>0, <2>1 DEF AppNext, RecvStale, RecvBadHeader, RecvHeader, RecvBody, AppCalls,
         AppStep, sender, SenderLock, ReceiverLock
    <3>2. taint = {}
      BY <3>1, TaintStays
    <3>3. CleanInv(call)
      BY <3>1, <3>2 DEF SyncInv, SessionInv, Gone
    <3> QED
      BY <2>0, <2>1, <3>3, AppClean
  <2>2. CASE Err
    BY <2>2 DEF Err
  <2>3. CASE UNCHANGED errDue
    BY <2>3
  <2>4. CASE UartNext
    BY <2>3, <2>4 DEF UartNext, OnAck, OnNak, ReceiveSweeping, ReceiveStale, ReceiveGap,
       ReceiveHeld, ReceiveForward, Receive, receiver
  <2>5. CASE CallNext
    BY <2>3, <2>5 DEF CallNext, FrameAcked, WaitReset, WaitNak, WaitTimeout, Drain,
       SenderStep, receiver
  <2>6. ASSUME NEW n \in BodyLens, NEW merged \in BOOLEAN, SendMsg(n, merged) PROVE ~errDue'
    BY <2>3, <2>6 DEF SendMsg, receiver
  <2>7. CASE SenderReset \/ ReceiverReset \/ SenderLock \/ ReceiverLock \/ LoseData
             \/ LoseCtrl \/ UNCHANGED vars
    BY <2>3, <2>7 DEF SenderReset, ReceiverReset, SenderLock, ReceiverLock, LoseData,
       LoseCtrl, vars, receiver
  <2> QED
    BY <2>1, <2>2, <2>4, <2>5, <2>6, <2>7 DEF Next
<1> QED
  BY <1>1, SyncInvariant, PTL DEF Spec, NoParserError
=============================================================================
