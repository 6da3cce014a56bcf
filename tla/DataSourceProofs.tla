--------------------------- MODULE DataSourceProofs ---------------------------
(***************************************************************************)
(* Proofs about DataSource for any set of topics and any number of         *)
(* messages: what the host is told of a source's state, the completion it  *)
(* keeps of an import, and the messages that a receive thread hands to     *)
(* poll().                                                                 *)
(***************************************************************************)
EXTENDS DataSource, SequenceTheorems, TLAPS

TopicLists == UNION {[1..n -> Topics] : n \in 0..2}

\* Where the main thread is decides the state, and a source that was never bound is
\* idle; only a bound one leaves that state.
StateFollowsCalls ==
  /\ inside = "import" => kind = "file" /\ state = "starting"
  /\ inside = "starting" => kind = "stream" /\ state = "starting"
  /\ returned = "none" => state = "idle" /\ views = {}
  /\ state # "idle" => Required \subseteq views
  /\ told = state \/ (kind = "file" /\ state = "stopped")
  /\ kind = "stream" => ~progress

\* A completion exists only after it was sealed, and an import that was sealed has begun.
SealedOnce ==
  /\ ~sealed => evidence = {}
  /\ sealed => state # "idle"
  /\ declared \in TopicLists

\* The identifiers of s rise, and all of s comes before all of t.
Rising(s) == \A i, j \in 1..Len(s) : i < j => s[i].id < s[j].id
Before(s, t) == \A i \in 1..Len(s), j \in 1..Len(t) : s[i].id < t[j].id

\* The three places of the hand-over, in the order of arrival.
FlowInOrder ==
  /\ Rising(pushed) /\ Rising(batch) /\ Rising(queue)
  /\ Before(pushed, batch) /\ Before(pushed, queue) /\ Before(batch, queue)

\* The messages that are not given up.
Kept == Range(pushed) \cup Range(batch) \cup Range(queue)

\* Every identifier is that of one message, kept or given up.
NoneMissing ==
  /\ {m.id : m \in Kept \cup lost} = 1..sent
  /\ Kept \cap lost = {}

\* The inductive invariant of a data source.
SourceIInv ==
  SourceTypeOK /\ StateFollowsCalls /\ StateIsAnswer /\ SealedOnce /\ EvidenceIsEarned /\ FlowInOrder /\ NoneMissing

-----------------------------------------------------------------------------
(* Rising sequences.                                                       *)

\* Sequences that rise, one after the other, make one that rises.
LEMMA RisingConcat ==
  ASSUME NEW s \in Seq(Messages), NEW t \in Seq(Messages), Rising(s), Rising(t), Before(s, t)
  PROVE  Rising(s \o t)
<1>1. /\ s \o t \in Seq(Messages) /\ Len(s \o t) = Len(s) + Len(t) /\ Len(s) \in Nat /\ Len(t) \in Nat
      /\ \A i \in 1..Len(s) + Len(t) : (s \o t)[i] = IF i =< Len(s) THEN s[i] ELSE t[i - Len(s)]
  BY ConcatProperties, LenProperties
<1> SUFFICES ASSUME NEW i \in 1..Len(s) + Len(t), NEW j \in 1..Len(s) + Len(t), i < j
             PROVE  (s \o t)[i].id < (s \o t)[j].id
  BY <1>1 DEF Rising
<1>2. CASE j =< Len(s)
  <2>1. i \in 1..Len(s) /\ j \in 1..Len(s)
    BY <1>1, <1>2
  <2> QED
    BY <1>1, <1>2, <2>1 DEF Rising
<1>3. CASE i =< Len(s) /\ j > Len(s)
  <2>1. i \in 1..Len(s) /\ j - Len(s) \in 1..Len(t)
    BY <1>1, <1>3
  <2> QED
    BY <1>1, <1>3, <2>1 DEF Before
<1>4. CASE i > Len(s)
  <2>1. i - Len(s) \in 1..Len(t) /\ j - Len(s) \in 1..Len(t) /\ i - Len(s) < j - Len(s)
    BY <1>1, <1>4
  <2> QED
    BY <1>1, <1>4, <2>1 DEF Rising
<1> QED
  BY <1>1, <1>2, <1>3, <1>4

\* Before, on the ranges.
LEMMA BeforeRange ==
  ASSUME NEW s \in Seq(Messages), NEW t \in Seq(Messages)
  PROVE  Before(s, t) <=> \A x \in Range(s), y \in Range(t) : x.id < y.id
<1>1. Range(s) = {s[i] : i \in 1..Len(s)} /\ Range(t) = {t[i] : i \in 1..Len(t)}
  BY RangeEquality
<1> QED
  BY <1>1 DEF Before

\* A message behind all others.
LEMMA RisingAppend ==
  ASSUME NEW s \in Seq(Messages), NEW m \in Messages, Rising(s), \A x \in Range(s) : x.id < m.id
  PROVE  Append(s, m) \in Seq(Messages) /\ Rising(Append(s, m)) /\ Range(Append(s, m)) = Range(s) \cup {m}
<1>1. /\ Append(s, m) \in Seq(Messages) /\ Len(Append(s, m)) = Len(s) + 1 /\ Len(s) \in Nat
      /\ \A i \in 1..Len(s) : Append(s, m)[i] = s[i]
      /\ Append(s, m)[Len(s) + 1] = m
  BY AppendProperties, LenProperties
<1>2. Range(s) = {s[i] : i \in 1..Len(s)}
  BY RangeEquality
<1>3. Range(Append(s, m)) = {Append(s, m)[i] : i \in 1..Len(s) + 1}
  BY <1>1, RangeEquality
<1>4. 1..Len(s) + 1 = 1..Len(s) \cup {Len(s) + 1}
  BY <1>1
<1>5. Range(Append(s, m)) = Range(s) \cup {m}
  BY <1>1, <1>2, <1>3, <1>4
<1>6. ASSUME NEW i \in 1..Len(s) + 1, NEW j \in 1..Len(s) + 1, i < j
      PROVE  Append(s, m)[i].id < Append(s, m)[j].id
  <2>1. i \in 1..Len(s)
    BY <1>1, <1>6
  <2>2. CASE j \in 1..Len(s)
    BY <1>1, <1>6, <2>1, <2>2 DEF Rising
  <2>3. CASE j = Len(s) + 1
    BY <1>1, <1>2, <2>1, <2>3
  <2> QED
    BY <1>4, <2>2, <2>3
<1> QED
  BY <1>1, <1>5, <1>6 DEF Rising

\* The first message of a sequence that rises, and the rest.
LEMMA RisingHeadTail ==
  ASSUME NEW s \in Seq(Messages), s # <<>>, Rising(s)
  PROVE  /\ Head(s) \in Messages /\ Tail(s) \in Seq(Messages) /\ Rising(Tail(s))
         /\ Range(s) = {Head(s)} \cup Range(Tail(s))
         /\ \A y \in Range(Tail(s)) : Head(s).id < y.id
<1>1. /\ Head(s) \in Messages /\ Tail(s) \in Seq(Messages) /\ Len(Tail(s)) = Len(s) - 1
      /\ \A i \in 1..Len(Tail(s)) : Tail(s)[i] = s[i + 1]
  BY HeadTailProperties
<1>2. Head(s) = s[1] /\ Len(s) \in Nat \ {0}
  BY EmptySeq, LenProperties
<1>3. Range(s) = {s[i] : i \in 1..Len(s)} /\ Range(Tail(s)) = {Tail(s)[i] : i \in 1..Len(Tail(s))}
  BY <1>1, RangeEquality
<1>4. Range(s) = {Head(s)} \cup Range(Tail(s))
  <2>1. \A i \in 1..Len(s) : i = 1 \/ (i - 1 \in 1..Len(Tail(s)) /\ s[i] = Tail(s)[i - 1])
    <3> TAKE i \in 1..Len(s)
    <3>1. CASE i # 1
      <4>1. i - 1 \in 1..Len(Tail(s)) /\ (i - 1) + 1 = i
        BY <1>1, <1>2, <3>1
      <4> QED
        BY <1>1, <4>1
    <3> QED
      BY <3>1
  <2>2. \A i \in 1..Len(Tail(s)) : i + 1 \in 1..Len(s)
    BY <1>1, <1>2
  <2>3. ASSUME NEW x \in Range(s) PROVE x \in {Head(s)} \cup Range(Tail(s))
    <3>1. PICK i \in 1..Len(s) : x = s[i]
      BY <1>3
    <3>2. CASE i = 1
      BY <1>2, <3>1, <3>2
    <3>3. CASE i # 1
      BY <1>3, <2>1, <3>1, <3>3
    <3> QED
      BY <3>2, <3>3
  <2>4. Head(s) \in Range(s)
    <3>1. 1 \in 1..Len(s)
      BY <1>2
    <3> QED
      BY <1>2, <1>3, <3>1
  <2>5. ASSUME NEW x \in Range(Tail(s)) PROVE x \in Range(s)
    BY <1>1, <1>3, <2>2
  <2> QED
    BY <2>3, <2>4, <2>5
<1>5. \A i \in 1..Len(Tail(s)) : i + 1 \in 1..Len(s) /\ 1 < i + 1 /\ 1 \in 1..Len(s)
  BY <1>1, <1>2
<1>6. \A i \in 1..Len(Tail(s)) : Head(s).id < Tail(s)[i].id
  BY <1>1, <1>2, <1>5 DEF Rising
<1>7. Rising(Tail(s))
  BY <1>1, <1>2, <1>5 DEF Rising
<1> QED
  BY <1>1, <1>3, <1>4, <1>6, <1>7

\* No message.
LEMMA RisingEmpty ==
  /\ <<>> \in Seq(Messages) /\ Rising(<<>>) /\ Range(<<>>) = {}
  /\ \A t \in Seq(Messages) : Before(<<>>, t) /\ Before(t, <<>>)
<1>1. <<>> \in Seq(Messages) /\ Len(<<>>) = 0
  BY EmptySeq
<1>2. Range(<<>>) = {}
  <2>1. Range(<<>>) = {<<>>[i] : i \in 1..Len(<<>>)}
    BY <1>1, RangeEquality
  <2>2. 1..Len(<<>>) = {}
    BY <1>1
  <2> QED
    BY <2>1, <2>2
<1> QED
  BY <1>1, <1>2 DEF Rising, Before

-----------------------------------------------------------------------------
(* The invariant holds at first and says what is wanted.                   *)

LEMMA FlowTypes ==
  SourceTypeOK => /\ queue \in Seq(Messages) /\ batch \in Seq(Messages) /\ pushed \in Seq(Messages)
            /\ lost \subseteq Messages /\ sent \in 0..MaxMessages
BY DEF SourceTypeOK

LEMMA SourceIInvSuffices == SourceIInv => SourceReportsTruly
<1> SUFFICES ASSUME SourceIInv PROVE SourceReportsTruly
  OBVIOUS
<1> USE DEF SourceIInv
<1>1. ToldIsState
  BY DEF ToldIsState, StateFollowsCalls
<1>2. MessagesAccounted
  <2>0. queue \in Seq(Messages) /\ batch \in Seq(Messages) /\ pushed \in Seq(Messages)
    BY FlowTypes
  <2> DEFINE pb == pushed \o batch
             flow == pb \o queue
  <2>1. pb \in Seq(Messages) /\ Rising(pb) /\ Range(pb) = Range(pushed) \cup Range(batch)
    BY <2>0, ConcatProperties, RangeConcatenation, RisingConcat DEF FlowInOrder
  <2>2. Before(pb, queue)
    <3>1. /\ \A x \in Range(pushed), y \in Range(queue) : x.id < y.id
          /\ \A x \in Range(batch), y \in Range(queue) : x.id < y.id
      BY <2>0, BeforeRange DEF FlowInOrder
    <3> HIDE DEF pb
    <3> QED
      BY <2>0, <2>1, <3>1, BeforeRange
  <2>3. flow \in Seq(Messages) /\ Rising(flow) /\ Range(flow) = Kept
    <3> HIDE DEF pb
    <3>1. flow \in Seq(Messages) /\ Range(flow) = Range(pb) \cup Range(queue)
      BY <2>0, <2>1, ConcatProperties, RangeConcatenation
    <3>2. Rising(flow)
      BY <2>0, <2>1, <2>2, RisingConcat DEF FlowInOrder
    <3> QED
      BY <2>1, <3>1, <3>2 DEF Kept
  <2>4. \A i, j \in DOMAIN flow : i < j => flow[i].id < flow[j].id
    <3> HIDE DEF flow
    <3>1. DOMAIN flow = 1..Len(flow)
      BY <2>3, LenProperties
    <3> QED
      BY <2>3, <3>1 DEF Rising
  <2> QED
    BY <2>3, <2>4 DEF MessagesAccounted, NoneMissing
<1> QED
  BY <1>1, <1>2 DEF SourceReportsTruly

LEMMA SourceBegins == ASSUME SourceInit PROVE SourceIInv
<1> USE DEF SourceInit, Fresh
<1>0. MaxMessages \in Nat
  BY SourceAssumption
<1>1. declared \in TopicLists /\ declared \in Seq(Topics) /\ Range(declared) = {}
  <2>1. <<>> \in [1..0 -> Topics] /\ <<>> \in Seq(Topics)
    BY EmptySeq
  <2>2. Range(<<>>) = {}
    BY RisingEmpty
  <2> QED
    BY <2>1, <2>2 DEF TopicLists
<1>2. outcomes \in [Range(declared) -> TopicOutcomes]
  <2>1. <<>> \in [{} -> TopicOutcomes]
    OBVIOUS
  <2> QED
    BY <1>1, <2>1
<1>3. SourceTypeOK
  <2>1. /\ kind \in {"file", "stream"} /\ views \subseteq Required \cup Optional
        /\ {state, told} \subseteq {"idle", "starting", "running", "stopped", "failed"}
        /\ inside \in {"host", "import", "starting", "gone"}
        /\ returned \in {"none", "ok", "error", "threw"}
    OBVIOUS
  <2>2. {progress, stop, sealed, polling} \subseteq BOOLEAN
    OBVIOUS
  <2>3. evidence \subseteq Completions /\ lost \subseteq Messages /\ bindings \subseteq Topics
    OBVIOUS
  <2>4. {queue, batch, pushed} \subseteq Seq(Messages)
    BY RisingEmpty
  <2>5. sent \in 0..MaxMessages
    BY <1>0
  <2> QED
    BY <1>1, <1>2, <2>1, <2>2, <2>3, <2>4, <2>5 DEF SourceTypeOK
<1>4. StateFollowsCalls /\ StateIsAnswer /\ SealedOnce /\ EvidenceIsEarned
  BY <1>1 DEF StateFollowsCalls, StateIsAnswer, SealedOnce, EvidenceIsEarned
<1>5. FlowInOrder
  BY RisingEmpty DEF FlowInOrder
<1>6. NoneMissing
  <2>1. Kept = {}
    BY RisingEmpty DEF Kept
  <2>2. 1..sent = {}
    OBVIOUS
  <2> QED
    BY <2>1, <2>2 DEF NoneMissing
<1> QED
  BY <1>3, <1>4, <1>5, <1>6 DEF SourceIInv

-----------------------------------------------------------------------------
(* The main thread.                                                        *)

\* What leaves the hand-over alone leaves its order and its accounts alone.
LEMMA StreamKept ==
  ASSUME FlowInOrder, NoneMissing, UNCHANGED <<queue, batch, sent, pushed, lost>>
  PROVE  FlowInOrder' /\ NoneMissing'
BY DEF FlowInOrder, NoneMissing, Rising, Before, Kept

\* What leaves the ledger and its completion alone leaves what the host kept as it was.
LEMMA LedgerKept ==
  ASSUME EvidenceIsEarned, UNCHANGED <<declared, outcomes, evidence>>
  PROVE  EvidenceIsEarned'
BY DEF EvidenceIsEarned

LEMMA BindStep ==
  ASSUME SourceIInv, NEW offered \in SUBSET (Required \cup Optional), Bind(offered)
  PROVE  SourceIInv'
<1> USE DEF SourceIInv, Bind, Returns, import, stream
<1>1. SourceTypeOK'
  BY DEF SourceTypeOK, Required, Optional
<1>2. StateFollowsCalls' /\ StateIsAnswer' /\ SealedOnce'
  BY DEF StateFollowsCalls, StateIsAnswer, SealedOnce
<1> QED
  BY <1>1, <1>2, StreamKept, LedgerKept

\* start() declares the topics of an import that has nothing sealed yet.
LEMMA StartStep ==
  ASSUME SourceIInv, NEW topics \in TopicLists, Start(topics), kind = "stream" => topics = <<>>
  PROVE  SourceIInv'
<1> USE DEF SourceIInv, Start, Usable, Enter, stream
<1>1. SourceTypeOK'
  <2>1. declared' \in Seq(Topics)
    <3>1. PICK n \in 0..2 : topics \in [1..n -> Topics]
      BY DEF TopicLists
    <3>2. n \in Nat /\ topics \in Seq(Topics)
      BY <3>1, IsASeq
    <3> QED
      BY <3>2
  <2>2. outcomes' \in [Range(declared') -> TopicOutcomes]
    BY DEF TopicOutcomes
  <2>3. {state', told'} \subseteq {"idle", "starting", "running", "stopped", "failed"}
    BY DEF SourceTypeOK
  <2>4. inside' \in {"host", "import", "starting", "gone"}
    OBVIOUS
  <2> QED
    BY <2>1, <2>2, <2>3, <2>4 DEF SourceTypeOK
<1>2. StateFollowsCalls' /\ StateIsAnswer'
  BY DEF StateFollowsCalls, StateIsAnswer, Required, SourceTypeOK
<1>3. SealedOnce' /\ EvidenceIsEarned'
  BY DEF SealedOnce, EvidenceIsEarned
<1> QED
  BY <1>1, <1>2, <1>3, StreamKept

LEMMA EndImportStep ==
  ASSUME SourceIInv, NEW how \in {"ok", "error", "threw"}, EndImport(how)
  PROVE  SourceIInv'
<1> USE DEF SourceIInv, EndImport, Returns, Enter, stream
<1>1. SourceTypeOK'
  <2>1. {state', told'} \subseteq {"idle", "starting", "running", "stopped", "failed"}
    BY DEF SourceTypeOK
  <2>2. {progress', stop'} \subseteq BOOLEAN
    BY DEF SourceTypeOK
  <2>3. inside' \in {"host", "import", "starting", "gone"} /\ returned' \in {"none", "ok", "error", "threw"}
    OBVIOUS
  <2> QED
    BY <2>1, <2>2, <2>3 DEF SourceTypeOK
<1>2. StateFollowsCalls'
  BY DEF StateFollowsCalls, Required
<1>3. StateIsAnswer'
  BY DEF StateFollowsCalls, StateIsAnswer
<1>4. SealedOnce'
  BY DEF SealedOnce, StateFollowsCalls
<1> QED
  BY <1>1, <1>2, <1>3, <1>4, StreamKept, LedgerKept

LEMMA EndStartStep ==
  ASSUME SourceIInv, NEW how \in {"ok", "error", "threw"}, EndStart(how)
  PROVE  SourceIInv'
<1> USE DEF SourceIInv, EndStart, Returns, Enter, import, stream
<1>1. SourceTypeOK'
  <2>1. {state', told'} \subseteq {"idle", "starting", "running", "stopped", "failed"}
    BY DEF SourceTypeOK
  <2>2. inside' \in {"host", "import", "starting", "gone"} /\ returned' \in {"none", "ok", "error", "threw"}
    OBVIOUS
  <2> QED
    BY <2>1, <2>2 DEF SourceTypeOK
<1>2. StateFollowsCalls'
  BY DEF StateFollowsCalls, Required
<1>3. StateIsAnswer'
  BY DEF StateFollowsCalls, StateIsAnswer
<1>4. SealedOnce'
  BY DEF SealedOnce, StateFollowsCalls
<1> QED
  BY <1>1, <1>2, <1>3, <1>4, StreamKept, LedgerKept

LEMMA StopFileStep == ASSUME SourceIInv, StopFile PROVE SourceIInv'
<1> USE DEF SourceIInv, StopFile, Usable, import, stream
<1>1. SourceTypeOK'
  BY DEF SourceTypeOK
<1>2. StateFollowsCalls' /\ StateIsAnswer' /\ SealedOnce'
  <2>1. returned # "none"
    BY DEF StateFollowsCalls, Required
  <2> QED
    BY <2>1 DEF StateFollowsCalls, StateIsAnswer, SealedOnce
<1> QED
  BY <1>1, <1>2, StreamKept, LedgerKept

\* stop() of a stream: what is still queued is given up.
LEMMA StopStreamStep ==
  ASSUME SourceIInv, NEW throws \in BOOLEAN, StopStream(throws)
  PROVE  SourceIInv'
<1> USE DEF SourceIInv, StopStream, Usable, Enter, import
<1>0. /\ queue \in Seq(Messages) /\ batch \in Seq(Messages) /\ pushed \in Seq(Messages)
      /\ lost \subseteq Messages
  BY FlowTypes
<1>1. SourceTypeOK'
  <2>1. {state', told'} \subseteq {"idle", "starting", "running", "stopped", "failed"}
    BY DEF SourceTypeOK
  <2>2. queue' \in Seq(Messages) /\ lost' \subseteq Messages
    <3>1. Range(queue) \subseteq Messages
      BY <1>0, RangeOfSeq
    <3> QED
      BY <1>0, <3>1, RisingEmpty
  <2> QED
    BY <2>1, <2>2 DEF SourceTypeOK
<1>2. StateFollowsCalls' /\ StateIsAnswer' /\ SealedOnce'
  <2>1. returned # "none" /\ Required \subseteq views
    BY DEF StateFollowsCalls, Required
  <2> QED
    BY <2>1 DEF StateFollowsCalls, StateIsAnswer, SealedOnce, Required
<1>3. FlowInOrder' /\ NoneMissing'
  <2>1. CASE throws
    BY <2>1, StreamKept
  <2>2. CASE ~throws
    <3>0. queue' = <<>> /\ lost' = lost \cup Range(queue) /\ UNCHANGED <<batch, pushed, sent>>
      BY <2>2
    <3>1. FlowInOrder'
      BY <1>0, <3>0, RisingEmpty DEF FlowInOrder
    <3>2. (\A x \in Range(batch), y \in Range(queue) : x.id < y.id)
          /\ (\A x \in Range(pushed), y \in Range(queue) : x.id < y.id)
      BY <1>0, BeforeRange DEF FlowInOrder
    <3>3. \A x \in Range(queue) : x.id \in Nat
      <4>1. Range(queue) \subseteq Messages
        BY <1>0, RangeOfSeq
      <4> QED
        BY <4>1 DEF Messages
    <3>4. Range(queue) \cap (Range(pushed) \cup Range(batch)) = {}
      BY <3>2, <3>3
    <3>5. Kept' = Range(pushed) \cup Range(batch)
      BY <3>0, RisingEmpty DEF Kept
    <3> QED
      BY <3>0, <3>1, <3>4, <3>5 DEF NoneMissing, Kept
  <2> QED
    BY <2>1, <2>2
<1> QED
  BY <1>1, <1>2, <1>3, LedgerKept

LEMMA DestroyStep == ASSUME SourceIInv, Destroy PROVE SourceIInv'
<1> USE DEF SourceIInv, Destroy, import, stream
<1>1. SourceTypeOK'
  BY DEF SourceTypeOK
<1>2. StateFollowsCalls' /\ StateIsAnswer' /\ SealedOnce'
  BY DEF StateFollowsCalls, StateIsAnswer, SealedOnce
<1> QED
  BY <1>1, <1>2, StreamKept, LedgerKept

LEMMA PressStopStep == ASSUME SourceIInv, PressStop PROVE SourceIInv'
<1> USE DEF SourceIInv, PressStop, import, stream
<1>1. SourceTypeOK'
  BY DEF SourceTypeOK
<1>2. StateFollowsCalls' /\ StateIsAnswer' /\ SealedOnce'
  BY DEF StateFollowsCalls, StateIsAnswer, SealedOnce
<1> QED
  BY <1>1, <1>2, StreamKept, LedgerKept

-----------------------------------------------------------------------------
(* The import: progress, the ledger and the completion.                    *)

LEMMA ProgressStep == ASSUME SourceIInv, ProgressStart PROVE SourceIInv'
<1> USE DEF SourceIInv, ProgressStart, lifecycle, stream
<1>1. SourceTypeOK'
  BY DEF SourceTypeOK
<1>2. StateFollowsCalls' /\ StateIsAnswer' /\ SealedOnce'
  BY DEF StateFollowsCalls, StateIsAnswer, SealedOnce
<1> QED
  BY <1>1, <1>2, StreamKept, LedgerKept

\* A report changes the ledger only while nothing was sealed.
LEMMA RecordStep ==
  ASSUME SourceIInv, NEW t \in Topics, NEW o \in TopicOutcomes \ {"pending"}, Record(t, o)
  PROVE  SourceIInv'
<1> USE DEF SourceIInv, Record, lifecycle, stream
<1>1. SourceTypeOK'
  <2>1. outcomes' \in [Range(declared) -> TopicOutcomes]
    BY DEF SourceTypeOK
  <2> QED
    BY <2>1 DEF SourceTypeOK
<1>2. StateFollowsCalls' /\ StateIsAnswer' /\ SealedOnce'
  BY DEF StateFollowsCalls, StateIsAnswer, SealedOnce
<1>3. EvidenceIsEarned'
  BY DEF EvidenceIsEarned, SealedOnce
<1> QED
  BY <1>1, <1>2, <1>3, StreamKept

\* What copyIngestCompletion() keeps is well-formed.
LEMMA CopyKeeps ==
  ASSUME NEW c, NEW e \in CopyIngestCompletion(c)
  PROVE  /\ e = c /\ IsInjective(c.topics) /\ "" \notin Range(c.topics)
         /\ "attestsEmpty" \in c.flags => c.outcome = "completed"
BY DEF CopyIngestCompletion

\* The ledger's verdict is a completion, and a complete one is earned.
LEMMA LedgerVerdict ==
  ASSUME SourceTypeOK, SealedOnce
  PROVE  LET c == ComputeCompletion(stop) IN
         /\ c \in Completions /\ c.topics = declared
         /\ c.outcome = "completed" =>
              /\ \A t \in Range(declared) : outcomes[t] \in {"ok", "emptyOk"}
              /\ "attestsEmpty" \in c.flags <=> \E t \in Range(declared) : outcomes[t] = "emptyOk"
<1> DEFINE kinds == {outcomes[t] : t \in DOMAIN outcomes}
           c == ComputeCompletion(stop)
<1>1. DOMAIN outcomes = Range(declared) /\ stop \in BOOLEAN
  BY DEF SourceTypeOK
<1>2. \/ c = [outcome |-> "cancelled", flags |-> {}, topics |-> declared]
      \/ c = [outcome |-> "failed", flags |-> {}, topics |-> declared]
      \/ /\ kinds \subseteq {"ok", "emptyOk"}
         /\ c = [outcome |-> "completed", flags |-> IF "emptyOk" \in kinds THEN {"attestsEmpty"} ELSE {},
                 topics |-> declared]
  BY <1>1 DEF ComputeCompletion
<1>3. declared \in UNION {[1..n -> Topics \cup {""}] : n \in 0..2}
  <2>1. PICK n \in 0..2 : declared \in [1..n -> Topics]
    BY DEF SealedOnce, TopicLists
  <2>2. declared \in [1..n -> Topics \cup {""}]
    BY <2>1
  <2> QED
    BY <2>2
<1>4. c \in Completions
  <2> DEFINE T == UNION {[1..n -> Topics \cup {""}] : n \in 0..2}
  <2>1. declared \in T
    BY <1>3
  <2>2. Completions = [outcome : {"failed", "cancelled", "completed", "unknown"},
                       flags : SUBSET {"attestsEmpty", "unknown"}, topics : T]
    BY DEF Completions
  <2> HIDE DEF T, c
  <2> QED
    BY <1>2, <2>1, <2>2
<1>5. c.outcome = "completed" =>
        /\ kinds \subseteq {"ok", "emptyOk"}
        /\ c.flags = IF "emptyOk" \in kinds THEN {"attestsEmpty"} ELSE {}
  BY <1>2
<1>6. c.topics = declared
  BY <1>2
<1> HIDE DEF c
<1>7. c.outcome = "completed" =>
        /\ \A t \in Range(declared) : outcomes[t] \in {"ok", "emptyOk"}
        /\ "attestsEmpty" \in c.flags <=> \E t \in Range(declared) : outcomes[t] = "emptyOk"
  BY <1>1, <1>5
<1> QED
  BY <1>4, <1>6, <1>7 DEF c

LEMMA CompleteStep == ASSUME SourceIInv, CompleteIngest PROVE SourceIInv'
<1> USE DEF SourceIInv, CompleteIngest, lifecycle, stream
<1> DEFINE c == ComputeCompletion(stop)
<1>0. /\ c \in Completions /\ c.topics = declared
      /\ c.outcome = "completed" =>
              /\ \A t \in Range(declared) : outcomes[t] \in {"ok", "emptyOk"}
              /\ "attestsEmpty" \in c.flags <=> \E t \in Range(declared) : outcomes[t] = "emptyOk"
      /\ evidence' = CopyIngestCompletion(c)
  BY LedgerVerdict
<1> HIDE DEF c
<1>1. \A e \in evidence' : /\ e = c /\ IsInjective(c.topics) /\ "" \notin Range(c.topics)
                           /\ "attestsEmpty" \in c.flags => c.outcome = "completed"
  BY <1>0, CopyKeeps
<1>2. SourceTypeOK'
  BY <1>0, <1>1 DEF SourceTypeOK
<1>3. StateFollowsCalls' /\ StateIsAnswer' /\ SealedOnce'
  BY DEF StateFollowsCalls, StateIsAnswer, SealedOnce
<1>4. EvidenceIsEarned'
  BY <1>0, <1>1 DEF EvidenceIsEarned
<1> QED
  BY <1>2, <1>3, <1>4, StreamKept

LEMMA CompleteByHandStep ==
  ASSUME SourceIInv, NEW c \in Completions, CompleteByHand(c)
  PROVE  SourceIInv'
<1> USE DEF SourceIInv, CompleteByHand, lifecycle, stream
<1>1. \A e \in evidence' : /\ e = c /\ IsInjective(c.topics) /\ "" \notin Range(c.topics)
                           /\ "attestsEmpty" \in c.flags => c.outcome = "completed"
  BY CopyKeeps
<1>2. SourceTypeOK'
  BY <1>1 DEF SourceTypeOK
<1>3. StateFollowsCalls' /\ StateIsAnswer' /\ SealedOnce'
  BY DEF StateFollowsCalls, StateIsAnswer, SealedOnce
<1>4. EvidenceIsEarned'
  BY <1>1 DEF EvidenceIsEarned
<1> QED
  BY <1>2, <1>3, <1>4, StreamKept

-----------------------------------------------------------------------------
(* The hand-over from the receive thread to poll().                        *)

\* What leaves the lifecycle and the import alone leaves what is told of them alone.
LEMMA CallsKept ==
  ASSUME StateFollowsCalls, StateIsAnswer, SealedOnce, UNCHANGED <<lifecycle, import>>
  PROVE  StateFollowsCalls' /\ StateIsAnswer' /\ SealedOnce'
BY DEF StateFollowsCalls, StateIsAnswer, SealedOnce, lifecycle, import

\* A message that arrives is the youngest.
LEMMA ReceiveStep ==
  ASSUME SourceIInv, NEW t \in Topics, Receive(t)
  PROVE  SourceIInv'
<1> USE DEF SourceIInv, Receive
<1> DEFINE m == [id |-> sent + 1, topic |-> t]
<1>0. /\ queue \in Seq(Messages) /\ batch \in Seq(Messages) /\ pushed \in Seq(Messages)
      /\ lost \subseteq Messages /\ sent \in 0..MaxMessages /\ MaxMessages \in Nat
  BY FlowTypes, SourceAssumption
<1>1. m \in Messages /\ m.id = sent + 1 /\ queue' = Append(queue, m) /\ sent' = sent + 1
      /\ UNCHANGED <<batch, pushed, lost>>
  BY <1>0 DEF Messages
<1> HIDE DEF m
<1>2. \A x \in Kept \cup lost : x.id \in 1..sent
  BY DEF NoneMissing
<1>3. /\ queue' \in Seq(Messages) /\ Rising(queue') /\ Range(queue') = Range(queue) \cup {m}
  <2>1. \A x \in Range(queue) : x.id < m.id
    BY <1>0, <1>1, <1>2 DEF Kept
  <2> QED
    BY <1>0, <1>1, <2>1, RisingAppend DEF FlowInOrder
<1>4. SourceTypeOK'
  <2>1. sent' \in 0..MaxMessages
    BY <1>0
  <2>2. UNCHANGED <<lifecycle, import>>
    OBVIOUS
  <2> QED
    BY <1>3, <2>1, <2>2 DEF SourceTypeOK, lifecycle, import
<1>5. FlowInOrder'
  <2>1. /\ \A x \in Range(pushed), y \in Range(queue') : x.id < y.id
        /\ \A x \in Range(batch), y \in Range(queue') : x.id < y.id
    <3>1. /\ \A x \in Range(pushed), y \in Range(queue) : x.id < y.id
          /\ \A x \in Range(batch), y \in Range(queue) : x.id < y.id
      BY <1>0, BeforeRange DEF FlowInOrder
    <3>2. \A x \in Range(pushed) \cup Range(batch) : x.id < m.id
      BY <1>0, <1>1, <1>2 DEF Kept
    <3> QED
      BY <1>3, <3>1, <3>2
  <2>2. Before(pushed, queue') /\ Before(batch, queue')
    BY <1>0, <1>3, <2>1, BeforeRange
  <2> QED
    BY <1>1, <1>3, <2>2 DEF FlowInOrder
<1>6. NoneMissing'
  <2>1. Kept' = Kept \cup {m}
    BY <1>1, <1>3 DEF Kept
  <2>2. m \notin lost
    BY <1>0, <1>1, <1>2
  <2>3. 1..sent' = 1..sent \cup {sent + 1}
    BY <1>0, <1>1
  <2>4. {x.id : x \in Kept' \cup lost'} = {x.id : x \in Kept \cup lost} \cup {sent + 1}
    BY <1>1, <2>1
  <2> QED
    BY <1>1, <2>1, <2>2, <2>3, <2>4 DEF NoneMissing
<1> QED
  BY <1>4, <1>5, <1>6, CallsKept, LedgerKept DEF import

\* drain() moves the queue as it is.
LEMMA DrainStep == ASSUME SourceIInv, Drain PROVE SourceIInv'
<1> USE DEF SourceIInv, Drain
<1>0. queue \in Seq(Messages) /\ batch \in Seq(Messages) /\ pushed \in Seq(Messages)
  BY FlowTypes
<1>1. batch' = queue /\ queue' = <<>> /\ batch = <<>> /\ UNCHANGED <<pushed, lost, sent, lifecycle, import>>
  OBVIOUS
<1>2. SourceTypeOK'
  BY <1>0, <1>1, RisingEmpty DEF SourceTypeOK, lifecycle, import
<1>3. FlowInOrder'
  BY <1>0, <1>1, RisingEmpty DEF FlowInOrder
<1>4. NoneMissing'
  <2>1. Kept' = Kept
    BY <1>1, RisingEmpty DEF Kept
  <2> QED
    BY <1>1, <2>1 DEF NoneMissing
<1> QED
  BY <1>1, <1>2, <1>3, <1>4, CallsKept, LedgerKept DEF import

LEMMA PollStep == ASSUME SourceIInv, Poll PROVE SourceIInv'
<1> USE DEF SourceIInv, Poll
<1>1. SourceTypeOK'
  BY DEF SourceTypeOK, lifecycle, import
<1> QED
  BY <1>1, CallsKept, LedgerKept, StreamKept DEF import

\* push() takes the oldest message of the batch: the host has it or it is given up.
LEMMA PushStep ==
  ASSUME SourceIInv, NEW found \in BOOLEAN, NEW taken \in BOOLEAN, Push(found, taken)
  PROVE  SourceIInv'
<1> USE DEF SourceIInv, Push
<1> DEFINE m == Head(batch)
<1>0. queue \in Seq(Messages) /\ batch \in Seq(Messages) /\ pushed \in Seq(Messages) /\ lost \subseteq Messages
  BY FlowTypes
<1>1. /\ m \in Messages /\ Tail(batch) \in Seq(Messages) /\ Rising(Tail(batch))
      /\ Range(batch) = {m} \cup Range(Tail(batch))
      /\ \A y \in Range(Tail(batch)) : m.id < y.id
  BY <1>0, RisingHeadTail DEF FlowInOrder
<1>2. /\ batch' = Tail(batch) /\ UNCHANGED <<queue, polling, sent, lifecycle, import>>
      /\ \/ pushed' = Append(pushed, m) /\ lost' = lost
         \/ pushed' = pushed /\ lost' = lost \cup {m}
      /\ bindings' \in {bindings, bindings \cup {m.topic}}
  OBVIOUS
<1> HIDE DEF m
<1>3. /\ \A x \in Range(pushed), y \in Range(batch) \cup Range(queue) : x.id < y.id
      /\ \A x \in Range(batch), y \in Range(queue) : x.id < y.id
  BY <1>0, BeforeRange DEF FlowInOrder
<1>4. \A x \in Messages : x.id \in Nat /\ x.topic \in Topics
  BY DEF Messages
<1>5. Range(pushed) \subseteq Messages /\ Range(batch) \subseteq Messages /\ Range(queue) \subseteq Messages
  BY <1>0, RangeOfSeq
<1>6. /\ pushed' \in Seq(Messages) /\ Rising(pushed')
      /\ \/ Range(pushed') = Range(pushed) \cup {m} /\ lost' = lost
         \/ Range(pushed') = Range(pushed) /\ lost' = lost \cup {m}
  <2>1. \A x \in Range(pushed) : x.id < m.id
    BY <1>1, <1>3
  <2>2. CASE pushed' = Append(pushed, m) /\ lost' = lost
    BY <1>0, <1>1, <2>1, <2>2, RisingAppend DEF FlowInOrder
  <2>3. CASE pushed' = pushed /\ lost' = lost \cup {m}
    BY <1>0, <2>3 DEF FlowInOrder
  <2> QED
    BY <1>2, <2>2, <2>3
<1>7. SourceTypeOK'
  <2>1. lost' \subseteq Messages /\ bindings' \subseteq Topics
    BY <1>0, <1>1, <1>2, <1>4 DEF SourceTypeOK
  <2> QED
    BY <1>1, <1>2, <1>6, <2>1 DEF SourceTypeOK, lifecycle, import
<1>8. FlowInOrder'
  <2>1. /\ \A x \in Range(pushed'), y \in Range(batch') : x.id < y.id
        /\ \A x \in Range(pushed'), y \in Range(queue') : x.id < y.id
        /\ \A x \in Range(batch'), y \in Range(queue') : x.id < y.id
    BY <1>1, <1>2, <1>3, <1>6
  <2>2. Before(pushed', batch') /\ Before(pushed', queue') /\ Before(batch', queue')
    <3>1. batch' \in Seq(Messages) /\ queue' \in Seq(Messages)
      BY <1>0, <1>1, <1>2
    <3> QED
      BY <1>6, <2>1, <3>1, BeforeRange
  <2> QED
    BY <1>1, <1>2, <1>6, <2>2 DEF FlowInOrder
<1>9. NoneMissing'
  <2>1. m \notin Range(pushed) /\ m \notin Range(Tail(batch)) /\ m \notin Range(queue)
    BY <1>1, <1>3, <1>4, <1>5
  <2>2. Kept' \cup lost' = Kept \cup lost
    BY <1>1, <1>2, <1>6 DEF Kept
  <2>3. Kept' \cap lost' = {}
    BY <1>1, <1>2, <1>6, <2>1 DEF NoneMissing, Kept
  <2> QED
    BY <1>2, <2>2, <2>3 DEF NoneMissing
<1> QED
  BY <1>2, <1>7, <1>8, <1>9, CallsKept, LedgerKept DEF import

\* What poll() leaves of its batch is given up.
LEMMA EndPollStep == ASSUME SourceIInv, EndPoll PROVE SourceIInv'
<1> USE DEF SourceIInv, EndPoll
<1>0. queue \in Seq(Messages) /\ batch \in Seq(Messages) /\ pushed \in Seq(Messages) /\ lost \subseteq Messages
  BY FlowTypes
<1>1. batch' = <<>> /\ lost' = lost \cup Range(batch) /\ UNCHANGED <<queue, sent, pushed, lifecycle, import>>
  OBVIOUS
<1>2. Range(pushed) \subseteq Messages /\ Range(batch) \subseteq Messages /\ Range(queue) \subseteq Messages
  BY <1>0, RangeOfSeq
<1>3. SourceTypeOK'
  BY <1>0, <1>1, <1>2, RisingEmpty DEF SourceTypeOK, lifecycle, import
<1>4. FlowInOrder'
  BY <1>0, <1>1, RisingEmpty DEF FlowInOrder
<1>5. NoneMissing'
  <2>1. /\ \A x \in Range(pushed), y \in Range(batch) : x.id < y.id
        /\ \A x \in Range(batch), y \in Range(queue) : x.id < y.id
    BY <1>0, BeforeRange DEF FlowInOrder
  <2>2. \A x \in Messages : x.id \in Nat
    BY DEF Messages
  <2>3. Range(batch) \cap (Range(pushed) \cup Range(queue)) = {}
    BY <1>2, <2>1, <2>2
  <2>4. Kept' = Range(pushed) \cup Range(queue)
    BY <1>1, RisingEmpty DEF Kept
  <2> QED
    BY <1>1, <2>3, <2>4 DEF NoneMissing, Kept
<1> QED
  BY <1>1, <1>3, <1>4, <1>5, CallsKept, LedgerKept DEF import

-----------------------------------------------------------------------------
LEMMA SourceStep == SourceIInv /\ [SourceNext]_sourceVars => SourceIInv'
<1> SUFFICES ASSUME SourceIInv, [SourceNext]_sourceVars PROVE SourceIInv'
  OBVIOUS
<1>1. CASE UNCHANGED sourceVars
  <2>1. UNCHANGED <<lifecycle, import, stream>>
    BY <1>1 DEF sourceVars, lifecycle, import, stream
  <2>2. SourceTypeOK'
    BY <2>1 DEF SourceIInv, SourceTypeOK, lifecycle, import, stream
  <2> QED
    BY <2>1, <2>2, CallsKept, LedgerKept, StreamKept DEF SourceIInv, import, stream
<1>2. CASE SourceFinished
  BY <1>1, <1>2 DEF SourceFinished
<1>3. CASE StartFile
  <2>1. PICK n \in 0..2 : \E topics \in [1..n -> Topics] : kind = "file" /\ Start(topics)
    BY <1>3 DEF StartFile
  <2>2. PICK topics \in [1..n -> Topics] : kind = "file" /\ Start(topics)
    BY <2>1
  <2>3. topics \in TopicLists
    BY <2>1 DEF TopicLists
  <2> QED
    BY <2>2, <2>3, StartStep
<1>4. CASE StartStream
  <2>1. <<>> \in [1..0 -> Topics]
    OBVIOUS
  <2>2. <<>> \in TopicLists
    BY <2>1 DEF TopicLists
  <2> QED
    BY <1>4, <2>2, StartStep DEF StartStream
<1> QED
  BY <1>1, <1>2, <1>3, <1>4, BindStep, EndImportStep, EndStartStep, StopFileStep, StopStreamStep, DestroyStep,
     PressStopStep, ProgressStep, RecordStep, CompleteStep, CompleteByHandStep, ReceiveStep, DrainStep,
     PollStep, PushStep, EndPollStep DEF SourceNext

\* What a host learns from a data source is so, for any topics and any number of
\* messages: the state it was told is the one current_state() returns, a completion it
\* keeps was earned topic by topic, and every message of the receive thread is queued,
\* in the poll's batch, with the host in the order of arrival, or given up.
THEOREM SourceSafety == SourceSpec => []SourceReportsTruly
<1>1. SourceInit => SourceIInv
  BY SourceBegins
<1>2. SourceIInv /\ [SourceNext]_sourceVars => SourceIInv'
  BY SourceStep
<1> QED
  BY <1>1, <1>2, SourceIInvSuffices, PTL DEF SourceSpec
=============================================================================
