-------------------------- MODULE QueryCacheProofs --------------------------
(***************************************************************************)
(* What the query cache does to a query, for data of any type: the lemmas  *)
(* that the proofs about the pages rest on.                                *)
(***************************************************************************)
EXTENDS QueryCache, SequenceTheorems, TLAPS

\* A value that may be missing, when it is there.
LEMMA Present1 ==
  ASSUME NEW D, NEW s \in Seq(D), s # <<>>
  PROVE  s[1] \in D /\ Len(s) \in Nat \ {0} /\ 1 \in 1 .. Len(s)
<1>1. Len(s) \in Nat \ {0}
  BY EmptySeq
<1>2. 1 \in 1 .. Len(s)
  BY <1>1
<1>3. QED
  BY <1>1, <1>2, ElementOfSeq

\* A query by its fields.
Queries(D) == [data : Seq(D), phase : Phases, answer : Seq(D), failed : BOOLEAN]

LEMMA QueryFields ==
  ASSUME NEW D, NEW q, IsQueryOf(q, D)
  PROVE  /\ q \in Queries(D) /\ Len(q.data) <= 1 /\ Len(q.answer) <= 1
         /\ q.data \in Seq(D) /\ q.answer \in Seq(D) /\ q.phase \in {"idle", "sent", "read"}
         /\ q.failed \in BOOLEAN
BY DEF IsQueryOf, Queries, Phases

LEMMA QueryMade ==
  ASSUME NEW D, NEW d \in Seq(D), Len(d) <= 1, NEW p \in Phases, NEW a \in Seq(D), Len(a) <= 1,
         NEW f \in BOOLEAN
  PROVE  IsQueryOf([data |-> d, phase |-> p, answer |-> a, failed |-> f], D)
BY DEF IsQueryOf

LEMMA QueryBegins ==
  ASSUME NEW D
  PROVE  /\ IsQueryOf(Fresh, D) /\ IsQueryOf(Unasked, D)
         /\ Fresh.data = <<>> /\ Fresh.phase = "sent" /\ Fresh.answer = <<>> /\ ~Fresh.failed
         /\ Unasked.data = <<>> /\ Unasked.phase = "idle" /\ Unasked.answer = <<>>
         /\ ~Unasked.failed
<1>1. <<>> \in Seq(D) /\ Len(<<>>) <= 1
  BY EmptySeq
<1>2. Fresh = [data |-> <<>>, phase |-> "sent", answer |-> <<>>, failed |-> FALSE]
  BY DEF Fresh
<1>3. Unasked = [data |-> <<>>, phase |-> "idle", answer |-> <<>>, failed |-> FALSE]
  <2>1. Unasked = [Fresh EXCEPT !.phase = "idle"]
    BY DEF Unasked
  <2>2. QED
    BY <1>2, <2>1
<1>4. IsQueryOf(Fresh, D) /\ IsQueryOf(Unasked, D)
  BY <1>1, <1>2, <1>3, QueryMade DEF Phases
<1>5. QED
  BY <1>2, <1>3, <1>4

LEMMA QueryFetched ==
  ASSUME NEW D, NEW q, IsQueryOf(q, D)
  PROVE  /\ IsQueryOf(Fetch(q), D) /\ Fetch(q).data = q.data /\ Fetch(q).failed = q.failed
         /\ Fetch(q).phase # "idle" /\ Fetch(q).answer = q.answer
         /\ Fetch(q).phase = "read" <=> q.phase = "read"
BY DEF IsQueryOf, Fetch, Fetching, Phases

LEMMA QueryInvalidated ==
  ASSUME NEW D, NEW q, IsQueryOf(q, D)
  PROVE  /\ IsQueryOf(Invalidated(q), D) /\ Invalidated(q).data = q.data
         /\ Invalidated(q).failed = q.failed /\ Invalidated(q).phase # "idle"
         /\ Invalidated(q).phase = "read" =>
              q.phase = "read" /\ q.data = <<>> /\ Invalidated(q).answer = q.answer
<1>1. <<>> \in Seq(D) /\ Len(<<>>) <= 1
  BY EmptySeq
<1>2. CASE Loading(q)
  BY <1>2 DEF Invalidated, Loading, Fetching
<1>3. CASE ~Loading(q)
  <2>1. Invalidated(q) = [data |-> q.data, phase |-> "sent", answer |-> <<>>,
                          failed |-> q.failed]
    BY <1>3, QueryFields DEF Invalidated, Queries
  <2>2. IsQueryOf(Invalidated(q), D)
    <3>1. q.data \in Seq(D) /\ Len(q.data) <= 1 /\ q.failed \in BOOLEAN /\ "sent" \in Phases
      BY QueryFields DEF Phases
    <3> QED
      BY <1>1, <2>1, <3>1, QueryMade
  <2>3. QED
    BY <2>1, <2>2
<1>4. QED
  BY <1>2, <1>3

LEMMA QueryReads ==
  ASSUME NEW D, NEW q, IsQueryOf(q, D), NEW d \in D
  PROVE  /\ IsQueryOf(Read(q, d), D) /\ Read(q, d).data = q.data
         /\ Read(q, d).failed = q.failed /\ Read(q, d).phase = "read"
         /\ Read(q, d).answer = <<d>> /\ Read(q, d).answer # <<>>
<1> DEFINE S == Seq(D)
           a == <<d>>
<1>1. a \in S /\ Len(a) <= 1 /\ a # <<>>
  OBVIOUS
<1>2. q \in [data : S, phase : Phases, answer : S, failed : BOOLEAN] /\ "read" \in Phases
  BY DEF IsQueryOf, Phases
<1>3. Read(q, d) = [q EXCEPT !.phase = "read", !.answer = a]
  BY DEF Read
<1>4. Len(q.data) <= 1
  BY DEF IsQueryOf
<1> HIDE DEF S, a
<1>5. /\ Read(q, d) \in [data : S, phase : Phases, answer : S, failed : BOOLEAN]
      /\ Read(q, d).data = q.data /\ Read(q, d).failed = q.failed
      /\ Read(q, d).phase = "read" /\ Read(q, d).answer = a
  BY <1>1, <1>2, <1>3
<1>6. IsQueryOf(Read(q, d), D)
  BY <1>1, <1>4, <1>5 DEF IsQueryOf, S
<1>7. QED
  BY <1>1, <1>5, <1>6 DEF a

LEMMA QueryAnswered ==
  ASSUME NEW D, NEW q, IsQueryOf(q, D)
  PROVE  /\ IsQueryOf(Answered(q), D) /\ Answered(q).data = q.answer
         /\ ~Answered(q).failed /\ Answered(q).phase = "idle" /\ Answered(q).answer = <<>>
<1>1. <<>> \in Seq(D) /\ Len(<<>>) <= 1
  BY EmptySeq
<1>2. IsQueryOf(Answered(q), D)
  BY <1>1, QueryFields, QueryMade DEF Answered, Phases
<1>3. QED
  BY <1>2 DEF Answered

LEMMA QueryFailed ==
  ASSUME NEW D, NEW q, IsQueryOf(q, D)
  PROVE  /\ IsQueryOf(Failed(q), D) /\ Failed(q).data = q.data
         /\ Failed(q).failed /\ Failed(q).phase = "idle" /\ Failed(q).answer = <<>>
<1> DEFINE S == Seq(D)
           a == <<>>
<1>1. a \in S /\ Len(a) <= 1
  BY EmptySeq
<1>2. q \in [data : S, phase : Phases, answer : S, failed : BOOLEAN] /\ "idle" \in Phases
  BY DEF IsQueryOf, Phases
<1>3. Failed(q) = [q EXCEPT !.phase = "idle", !.answer = a, !.failed = TRUE]
  BY DEF Failed
<1>4. Len(q.data) <= 1
  BY DEF IsQueryOf
<1> HIDE DEF S, a
<1>5. /\ Failed(q) \in [data : S, phase : Phases, answer : S, failed : BOOLEAN]
      /\ Failed(q).data = q.data /\ Failed(q).failed
      /\ Failed(q).phase = "idle" /\ Failed(q).answer = a
  BY <1>1, <1>2, <1>3
<1>6. IsQueryOf(Failed(q), D)
  BY <1>1, <1>4, <1>5 DEF IsQueryOf, S
<1>7. QED
  BY <1>1, <1>5, <1>6 DEF a
=============================================================================
