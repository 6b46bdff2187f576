---------------------------- MODULE EngineProofs ----------------------------
(***************************************************************************)
(* Proofs about Engine: for any requests, queue, window and batch, and     *)
(* however deeply clients nest their calls, every read is in exactly one   *)
(* place on its way to its callback, no completion is left behind in C++,  *)
(* the clock lags by the ticks under way and lost, and drive() counts its  *)
(* own requests; hence the engine is the memory port of MemoryPort.        *)
(*                                                                         *)
(* The argument is about the stack of calls.  A call below the top waits   *)
(* in a callback, so drive(), which calls nobody, is only ever at the top; *)
(* completions are recorded under it and by no other call, and while it    *)
(* runs nobody else sends, ticks or resets its count.                      *)
(***************************************************************************)
EXTENDS Engine, FiniteSetTheorems, SequenceTheorems, TLAPS

Callbacks ==
    [kind : {"tick", "run", "writes"}, rest : Seq(Requests),
     active : BOOLEAN, raised : BOOLEAN]
Drives ==
    [kind : {"drive"}, phase : {"fill", "batch", "drain"}, rest : Seq(Reads),
     own : SUBSET Reads, cycles : Nat, ticks : Nat, limit : CycleLimits,
     left : SUBSET Requests]
Calls == Callbacks \cup Drives

Distinct(s) == \A j, k \in DOMAIN s : s[j] = s[k] => j = k

\* The requests a call has still to call back.
HeldBy(call) == IF call.kind = "drive" THEN {} ELSE ToSet(call.rest)

AllHeld(cs) == UNION {HeldBy(cs[k]) : k \in DOMAIN cs}

TickCalls(cs) == {k \in DOMAIN cs : cs[k].kind = "tick"}

\* A call in the middle of a callback.
Waits(call) == call.kind # "drive" /\ call.active
AllWait(cs) == \A k \in DOMAIN cs : Waits(cs[k])

\* Calls below the top wait in a callback, an exception is on its way to a
\* client, and only a drive() at the top leaves completions in C++.
Stacked ==
    /\ calls \in Seq(Calls)
    /\ calls # <<>> => AllWait(Below)
    /\ raising \in BOOLEAN
    /\ raising /\ calls # <<>> => Waits(Top)
    /\ recorded # <<>> => calls # <<>> /\ Top.kind = "drive"

Accounted ==
    /\ driven \subseteq inFlight /\ inFlight \subseteq sent
    /\ sent \subseteq Requests /\ called \subseteq sent \ Silent
    /\ IsFiniteSet(inFlight) /\ Cardinality(inFlight) <= Queue
    /\ completedCount \in Nat
    /\ lostCalls \subseteq sent

Clocked ==
    /\ drift \in Nat /\ lostTicks \in 0 .. MaxDrift
    /\ drift = lostTicks + Cardinality(TickCalls(calls))

\* A request recorded or held by a call has been sent with a callback that
\* has not run, and a read has then left the engine.
Expected(r) ==
    /\ r \in sent \ Silent /\ r \notin called
    /\ r \in Reads => r \notin inFlight

RecordedOnce ==
    /\ recorded \in Seq(Reads) /\ Distinct(recorded)
    /\ \A r \in ToSet(recorded) : Expected(r)

HeldOK(call) ==
    /\ \A r \in HeldBy(call) : Expected(r) /\ r \notin ToSet(recorded)
    /\ call.kind # "drive" => Distinct(call.rest)
    /\ call.kind = "writes" => HeldBy(call) \subseteq Writes

Apart(cs) ==
    \A j, k \in DOMAIN cs : j # k => HeldBy(cs[j]) \cap HeldBy(cs[k]) = {}

HeldOnce == (\A k \in DOMAIN calls : HeldOK(calls[k])) /\ Apart(calls)

\* No read is called back while it is in flight, and none is forgotten.
Remembered ==
    /\ called \cap inFlight \cap Reads = {}
    /\ (sent \cap Reads) \ Silent
          \subseteq inFlight \cup called \cup ToSet(recorded) \cup AllHeld(calls)

\* drive() issues requests nobody has sent.  Those that drives have in flight
\* are its own and what was left to it, and each that is no longer is counted.
DriveOK(call) ==
    /\ call.cycles <= call.limit
    /\ Distinct(call.rest) /\ ToSet(call.rest) \cap sent = {}
    /\ call.own \subseteq sent /\ IsFiniteSet(call.own)
    /\ call.left \subseteq sent /\ IsFiniteSet(call.left)
    /\ call.own \cap call.left = {}
    /\ (call.own \cup call.left) \cap inFlight = driven
    /\ Cardinality(call.own) + Cardinality(call.left)
          = completedCount + Cardinality(driven)
Driven == \A k \in DOMAIN calls : calls[k].kind = "drive" => DriveOK(calls[k])

EngineInv ==
    /\ Stacked /\ Accounted /\ Clocked
    /\ RecordedOnce /\ HeldOnce /\ Remembered /\ Driven

-----------------------------------------------------------------------------
(* Sequences and the stack of calls.                                       *)

LEMMA Constants ==
    /\ Reads \cap Writes = {} /\ Silent \subseteq Requests
    /\ Queue \in Nat /\ QueueDepth \in Nat /\ Batch \in Nat
    /\ CycleLimits \subseteq Nat /\ MaxDrift \in Nat
    /\ Reads \subseteq Requests /\ Writes \subseteq Requests
  BY EngineAssumption DEF Requests

\* A finite set as a sequence: each element once.
LEMMA SetToSeqFacts ==
    ASSUME NEW S, IsFiniteSet(S)
    PROVE  /\ SetToSeq(S) \in Seq(S)
           /\ Distinct(SetToSeq(S)) /\ ToSet(SetToSeq(S)) = S
<1> DEFINE n == Cardinality(S)
           f == SetToSeq(S)
<1>1. n \in Nat /\ ExistsBijection(1 .. n, S)
  BY FS_CardinalityType
<1>2. \E g \in [1 .. n -> S] : IsInjective(g)
  BY <1>1 DEF ExistsBijection, Bijection, Injection
<1>3. f \in [1 .. n -> S] /\ IsInjective(f)
  BY <1>2 DEF SetToSeq
<1>4. IsFiniteSet(1 .. n) /\ Cardinality(1 .. n) = n
  BY <1>1, FS_Interval
<1>5. f \in Surjection(1 .. n, S)
  <2>1. f \in Injection(1 .. n, S)
    BY <1>3 DEF Injection
  <2> QED
    BY <2>1, <1>4, FS_Injection
<1> HIDE DEF f, n
<1>6. f \in Seq(S) /\ DOMAIN f = 1 .. n
  BY <1>1, <1>3
<1>7. Distinct(f)
  BY <1>3 DEF Distinct, IsInjective
<1>8. ToSet(f) = S
  BY <1>3, <1>5 DEF ToSet, Surjection
<1> QED
  BY <1>6, <1>7, <1>8 DEF f

\* A sequence of distinct elements joined to another with none of them.
LEMMA JoinFacts ==
    ASSUME NEW S, NEW s \in Seq(S), NEW t \in Seq(S),
           Distinct(s), Distinct(t), ToSet(s) \cap ToSet(t) = {}
    PROVE  /\ s \o t \in Seq(S) /\ Distinct(s \o t)
           /\ ToSet(s \o t) = ToSet(s) \cup ToSet(t)
<1> DEFINE u == s \o t
           m == Len(s)
           n == Len(t)
<1>1. /\ u \in Seq(S) /\ Len(u) = m + n
      /\ \A i \in 1 .. m + n : u[i] = IF i <= m THEN s[i] ELSE t[i - m]
  BY ConcatProperties
<1>2. m \in Nat /\ n \in Nat /\ DOMAIN s = 1 .. m /\ DOMAIN t = 1 .. n
      /\ DOMAIN u = 1 .. m + n
  BY <1>1, LenProperties
<1> HIDE DEF u, m, n
<1> ToSet(s) = {s[i] : i \in 1 .. m} /\ ToSet(t) = {t[i] : i \in 1 .. n}
  BY <1>2 DEF ToSet
<1>3. \A i \in 1 .. m : u[i] = s[i] /\ s[i] \in ToSet(s)
  <2>1. \A i \in 1 .. m : i \in 1 .. m + n /\ i <= m
    BY <1>2
  <2> QED
    BY <2>1, <1>1
<1>4. \A i \in m + 1 .. m + n : /\ i - m \in 1 .. n
                                /\ u[i] = t[i - m] /\ t[i - m] \in ToSet(t)
  <2>1. \A i \in m + 1 .. m + n :
           i \in 1 .. m + n /\ ~(i <= m) /\ i - m \in 1 .. n
    BY <1>2
  <2> QED
    BY <2>1, <1>1
<1>5. \A i \in 1 .. m + n : i \in 1 .. m \/ i \in m + 1 .. m + n
  BY <1>2
<1>6. Distinct(u)
  <2> SUFFICES ASSUME NEW j \in 1 .. m + n, NEW k \in 1 .. m + n, u[j] = u[k]
               PROVE  j = k
    BY <1>2 DEF Distinct
  <2>1. CASE j \in 1 .. m /\ k \in 1 .. m
    BY <2>1, <1>2, <1>3 DEF Distinct
  <2>2. CASE j \in m + 1 .. m + n /\ k \in m + 1 .. m + n
    <3>1. j - m = k - m
      BY <2>2, <1>2, <1>4 DEF Distinct
    <3> QED
      BY <3>1, <1>2
  <2>3. ~(j \in 1 .. m /\ k \in m + 1 .. m + n)
    BY <1>3, <1>4
  <2>4. ~(k \in 1 .. m /\ j \in m + 1 .. m + n)
    BY <1>3, <1>4
  <2> QED
    BY <2>1, <2>2, <2>3, <2>4, <1>5
<1>7. ToSet(u) = ToSet(s) \cup ToSet(t)
  <2>1. ToSet(u) = {u[i] : i \in 1 .. m + n}
    BY <1>2 DEF ToSet
  <2>3. \A i \in 1 .. n : i + m \in 1 .. m + n /\ u[i + m] = t[i]
    <3>1. \A i \in 1 .. n : /\ i + m \in 1 .. m + n /\ ~(i + m <= m)
                            /\ (i + m) - m = i
      BY <1>2
    <3> QED
      BY <3>1, <1>1
  <2>4. \A i \in 1 .. m : i \in 1 .. m + n
    BY <1>2
  <2> QED
    BY <2>1, <2>3, <2>4, <1>3, <1>4, <1>5, SMTT(30)
<1> QED
  BY <1>1, <1>6, <1>7 DEF u

\* Taking the head of a sequence of distinct elements.
LEMMA TailFacts ==
    ASSUME NEW S, NEW s \in Seq(S), s # <<>>, Distinct(s)
    PROVE  /\ Head(s) \in S /\ Tail(s) \in Seq(S) /\ Distinct(Tail(s))
           /\ ToSet(s) = {Head(s)} \cup ToSet(Tail(s))
           /\ Head(s) \notin ToSet(Tail(s))
<1> DEFINE n == Len(s)
           t == Tail(s)
<1>1. /\ n \in Nat \ {0} /\ DOMAIN s = 1 .. n
      /\ t \in Seq(S) /\ Len(t) = n - 1
      /\ \A i \in 1 .. n - 1 : t[i] = s[i + 1]
  OBVIOUS
<1>2. DOMAIN t = 1 .. n - 1 /\ Head(s) = s[1]
  BY <1>1
<1> HIDE DEF n, t
<1>3. \A i \in 2 .. n : i - 1 \in 1 .. n - 1 /\ t[i - 1] = s[i]
  BY <1>1
<1>4. Distinct(t)
  <2>1. \A i \in 1 .. n - 1 : i + 1 \in 1 .. n
    BY <1>1
  <2>2. \A j, k \in 1 .. n - 1 : t[j] = t[k] => j + 1 = k + 1
    BY <2>1, <1>1 DEF Distinct
  <2>3. \A j, k \in 1 .. n - 1 : j + 1 = k + 1 => j = k
    OBVIOUS
  <2> QED
    BY <2>2, <2>3, <1>2 DEF Distinct
<1>5. ToSet(t) = {s[i] : i \in 2 .. n}
  <2>1. ToSet(t) = {t[i] : i \in 1 .. n - 1}
    BY <1>2 DEF ToSet
  <2>2. \A i \in 1 .. n - 1 : i + 1 \in 2 .. n
    BY <1>1
  <2> QED
    BY <2>1, <2>2, <1>1, <1>3, SMTT(30)
<1>6. ToSet(s) = {Head(s)} \cup ToSet(t)
  <2>1. 1 .. n = {1} \cup (2 .. n)
    BY <1>1
  <2> QED
    BY <2>1, <1>1, <1>2, <1>5 DEF ToSet
<1>7. Head(s) \notin ToSet(t)
  BY <1>1, <1>2, <1>5, SMTT(30) DEF Distinct
<1> QED
  BY <1>1, <1>2, <1>4, <1>6, <1>7 DEF t

\* A call is made: the stack has one more element, on top.
LEMMA PushFacts ==
    ASSUME NEW b \in Seq(Calls), NEW e \in Calls
    PROVE  /\ Append(b, e) \in Seq(Calls) /\ Append(b, e) # <<>>
           /\ Last(Append(b, e)) = e /\ Front(Append(b, e)) = b
           /\ \E n : /\ n \notin DOMAIN b
                     /\ DOMAIN Append(b, e) = DOMAIN b \cup {n}
                     /\ Append(b, e)[n] = e
                     /\ \A k \in DOMAIN b : Append(b, e)[k] = b[k]
<1> DEFINE t == Append(b, e)
           n == Len(b)
<1>1. /\ t \in Seq(Calls) /\ t # <<>> /\ Len(t) = n + 1
      /\ n \in Nat /\ DOMAIN b = 1 .. n /\ DOMAIN t = 1 .. n + 1
      /\ t[n + 1] = e /\ \A k \in 1 .. n : t[k] = b[k]
  OBVIOUS
<1> HIDE DEF t, n
<1>2. Last(t) = e
  BY <1>1 DEF Last
<1>3. Front(t) = b
  <2>1. Len(t) - 1 = n
    BY <1>1
  <2>2. Front(t) = SubSeq(t, 1, n)
    BY <2>1 DEF Front
  <2>3. \A k \in 1 .. n : t[k] \in Calls
    BY <1>1
  <2>4. /\ SubSeq(t, 1, n) \in Seq(Calls) /\ Len(SubSeq(t, 1, n)) = n
        /\ \A k \in 1 .. n : SubSeq(t, 1, n)[k] = t[k]
    BY <1>1, <2>3
  <2> QED
    BY <2>2, <2>4, <1>1, SeqEqual DEF n
<1>4. n + 1 \notin 1 .. n /\ 1 .. n + 1 = (1 .. n) \cup {n + 1}
  BY <1>1
<1> QED
  BY <1>1, <1>2, <1>3, <1>4 DEF t

\* A stack with calls is its top on what is below.
LEMMA BelowFacts ==
    ASSUME calls \in Seq(Calls), calls # <<>>
    PROVE  /\ Below \in Seq(Calls) /\ Top \in Calls
           /\ calls = Append(Below, Top)
           /\ \E n \in DOMAIN calls : Top = calls[n]
<1>1. Len(calls) \in Nat \ {0} /\ Len(calls) \in DOMAIN calls
  OBVIOUS
<1>2. Top = calls[Len(calls)] /\ Top \in Calls
  BY <1>1 DEF Top, Last
<1>3. /\ Below \in Seq(Calls) /\ Len(Below) = Len(calls) - 1
      /\ \A k \in 1 .. Len(calls) - 1 : Below[k] = calls[k]
  <2> DEFINE n == Len(calls) - 1
  <2>1. n \in Nat /\ \A k \in 1 .. n : calls[k] \in Calls
    BY <1>1
  <2>2. Below = SubSeq(calls, 1, n)
    BY DEF Below, Front
  <2> HIDE DEF n
  <2>3. /\ SubSeq(calls, 1, n) \in Seq(Calls) /\ Len(SubSeq(calls, 1, n)) = n
        /\ \A k \in 1 .. n : SubSeq(calls, 1, n)[k] = calls[k]
    BY <2>1
  <2> QED
    BY <2>2, <2>3 DEF n
<1>4. calls = Append(Below, Top)
  <2> DEFINE u == Append(Below, Top)
  <2>1. /\ u \in Seq(Calls) /\ Len(u) = Len(Below) + 1
        /\ u[Len(Below) + 1] = Top
        /\ \A k \in 1 .. Len(Below) : u[k] = Below[k]
    BY <1>2, <1>3
  <2> HIDE DEF u
  <2>2. \A k \in 1 .. Len(calls) : k \in 1 .. Len(calls) - 1 \/ k = Len(calls)
    BY <1>1
  <2>3. Len(u) = Len(calls) /\ Len(Below) + 1 = Len(calls)
    BY <2>1, <1>1, <1>3
  <2>4. \A k \in 1 .. Len(calls) : u[k] = calls[k]
    BY <2>1, <2>2, <2>3, <1>2, <1>3
  <2> QED
    BY <2>1, <2>3, <2>4, SeqEqual DEF u
<1> QED
  BY <1>1, <1>2, <1>3, <1>4

\* The top of a stack of waiting calls waits.
LEMMA LastWaits ==
    ASSUME NEW b \in Seq(Calls), b # <<>>, AllWait(b)
    PROVE  Waits(Last(b)) /\ AllWait(Front(b))
<1>1. Len(b) \in Nat \ {0} /\ DOMAIN b = 1 .. Len(b)
  OBVIOUS
<1>2. Waits(Last(b))
  BY <1>1 DEF AllWait, Last
<1>3. DOMAIN Front(b) = 1 .. Len(b) - 1
      /\ \A k \in 1 .. Len(b) - 1 : Front(b)[k] = b[k]
  BY <1>1 DEF Front
<1> QED
  BY <1>1, <1>2, <1>3 DEF AllWait

\* Control is with a client: all calls wait, and nothing is recorded.
LEMMA ClientTurnFacts ==
    ASSUME Stacked, ClientTurn
    PROVE  AllWait(calls) /\ recorded = <<>>
<1>1. CASE calls = <<>>
  BY <1>1 DEF AllWait, Stacked
<1>2. CASE calls # <<>>
  <2>1. Waits(Top)
    BY <1>2 DEF ClientTurn, InDispatch, Waits
  <2>2. recorded = <<>>
    BY <2>1 DEF Stacked, Waits
  <2>3. PICK n : /\ DOMAIN calls = DOMAIN Below \cup {n} /\ calls[n] = Top
                 /\ \A k \in DOMAIN Below : calls[k] = Below[k]
    BY <1>2, BelowFacts, PushFacts DEF Stacked
  <2> QED
    BY <1>2, <2>1, <2>2, <2>3 DEF AllWait, Stacked
<1> QED
  BY <1>1, <1>2

-----------------------------------------------------------------------------
(* What the actions push, and what they make of the top.                   *)

LEMMA CallingBackFacts ==
    ASSUME NEW kind \in {"tick", "run", "writes"}, NEW reqs \in Seq(Requests)
    PROVE  LET call == CallingBack(kind, reqs)
           IN /\ call \in Calls /\ call.kind = kind /\ call.kind # "drive"
              /\ call.rest = reqs /\ HeldBy(call) = ToSet(reqs)
  BY DEF CallingBack, Calls, Callbacks, HeldBy

LEMMA DrivingFacts ==
    ASSUME EngineInv, NEW rs \in SUBSET Reads, IsFiniteSet(rs),
           NEW limit \in CycleLimits
    PROVE  LET call == Driving(SetToSeq(rs), limit)
           IN /\ call \in Calls /\ call.kind = "drive"
              /\ call.rest = SetToSeq(rs) /\ call.own = {}
              /\ call.cycles = 0 /\ call.limit = limit
              /\ call.left = driven
<1>1. SetToSeq(rs) \in Seq(Reads)
  BY SetToSeqFacts, SeqMonotonic
<1>2. Batch \in Nat /\ driven \subseteq Requests
  BY Constants DEF EngineInv, Accounted
<1> QED
  BY <1>1, <1>2 DEF Driving, Calls, Drives

\* What _dispatch() does with the call it works on.
LEMMA DispatchFacts ==
    ASSUME NEW top \in Calls, top.kind # "drive"
    PROVE  /\ top \in Callbacks /\ top.rest \in Seq(Requests)
           /\ top.rest # <<>> =>
                LET e == [top EXCEPT !.active = TRUE, !.rest = Tail(@)]
                IN e \in Calls /\ e.kind = top.kind /\ e.rest = Tail(top.rest)
                   /\ e.active
           /\ LET e == [top EXCEPT !.active = FALSE]
              IN e \in Calls /\ e.kind = top.kind /\ e.rest = top.rest
           /\ LET e == [top EXCEPT !.active = FALSE, !.raised = TRUE]
              IN e \in Calls /\ e.kind = top.kind /\ e.rest = top.rest
<1>1. top \in Callbacks /\ top.rest \in Seq(Requests)
  BY DEF Calls, Callbacks, Drives
<1>2. top.rest # <<>> => Tail(top.rest) \in Seq(Requests)
  BY <1>1
<1> QED
  BY <1>1, <1>2 DEF Calls, Callbacks

\* What the loop of drive() does with its own call.
LEMMA DriveFacts ==
    ASSUME NEW top \in Calls, top.kind = "drive"
    PROVE  /\ top.rest \in Seq(Reads) /\ top.own \subseteq Reads
           /\ top.cycles \in Nat /\ top.limit \in Nat /\ top.ticks \in Nat
           /\ top.rest # <<>> =>
                LET e == [top EXCEPT !.rest = Tail(@), !.own = @ \cup {Head(top.rest)}]
                IN e \in Calls /\ e.kind = "drive" /\ e.rest = Tail(top.rest)
                   /\ e.own = top.own \cup {Head(top.rest)}
                   /\ e.cycles = top.cycles /\ e.limit = top.limit
                   /\ e.left = top.left
           /\ \A phase \in {"fill", "batch", "drain"} :
                LET e == [top EXCEPT !.phase = phase, !.ticks = 0]
                IN e \in Calls /\ e.kind = "drive" /\ e.rest = top.rest
                   /\ e.own = top.own /\ e.cycles = top.cycles
                   /\ e.limit = top.limit /\ e.left = top.left
           /\ LET e == [top EXCEPT !.cycles = @ + 1, !.ticks = @ + 1]
              IN e \in Calls /\ e.kind = "drive" /\ e.rest = top.rest
                 /\ e.own = top.own /\ e.cycles = top.cycles + 1
                 /\ e.limit = top.limit /\ e.left = top.left
<1>1. top \in Drives
  BY DEF Calls, Callbacks
<1>2. CycleLimits \subseteq Nat
  BY Constants
<1>3. /\ top.rest \in Seq(Reads) /\ top.own \subseteq Reads
      /\ top.cycles \in Nat /\ top.limit \in Nat /\ top.ticks \in Nat
  BY <1>1, <1>2 DEF Drives
<1>4. ASSUME top.rest # <<>>
      PROVE  Tail(top.rest) \in Seq(Reads) /\ Head(top.rest) \in Reads
  BY <1>3, <1>4
<1>5. top.cycles + 1 \in Nat /\ top.ticks + 1 \in Nat
  BY <1>3
<1>6. top.rest # <<>> =>
        LET e == [top EXCEPT !.rest = Tail(@), !.own = @ \cup {Head(top.rest)}]
        IN e \in Calls /\ e.kind = "drive" /\ e.rest = Tail(top.rest)
           /\ e.own = top.own \cup {Head(top.rest)}
           /\ e.cycles = top.cycles /\ e.limit = top.limit
           /\ e.left = top.left
  BY <1>1, <1>3, <1>4 DEF Calls, Drives
<1>7. \A phase \in {"fill", "batch", "drain"} :
        LET e == [top EXCEPT !.phase = phase, !.ticks = 0]
        IN e \in Calls /\ e.kind = "drive" /\ e.rest = top.rest
           /\ e.own = top.own /\ e.cycles = top.cycles
           /\ e.limit = top.limit /\ e.left = top.left
  BY <1>1 DEF Calls, Drives
<1>8. LET e == [top EXCEPT !.cycles = @ + 1, !.ticks = @ + 1]
      IN e \in Calls /\ e.kind = "drive" /\ e.rest = top.rest
         /\ e.own = top.own /\ e.cycles = top.cycles + 1
         /\ e.limit = top.limit /\ e.left = top.left
  BY <1>1, <1>5 DEF Calls, Drives
<1> QED
  BY <1>3, <1>6, <1>7, <1>8

\* What _dispatch() fetches, or drive() leaves recorded, after some cycles.
LEMMA FetchedFacts ==
    ASSUME EngineInv, NEW done \in SUBSET inFlight
    PROVE  LET fetched == recorded \o Recorded(done)
           IN /\ fetched \in Seq(Reads) /\ Distinct(fetched)
              /\ ToSet(fetched) = ToSet(recorded) \cup ((done \cap Reads) \ Silent)
<1> DEFINE new == (done \cap Reads) \ Silent
<1>1. IsFiniteSet(new)
  BY FS_Subset DEF EngineInv, Accounted
<1>2. /\ Recorded(done) \in Seq(Reads) /\ Distinct(Recorded(done))
      /\ ToSet(Recorded(done)) = new
  <2>1. SetToSeq(new) \in Seq(new) /\ Distinct(SetToSeq(new))
        /\ ToSet(SetToSeq(new)) = new
    BY <1>1, SetToSeqFacts
  <2> QED
    BY <2>1, SeqMonotonic DEF Recorded
<1>3. ToSet(recorded) \cap new = {}
  BY DEF EngineInv, RecordedOnce, Expected
<1> QED
  BY <1>2, <1>3, JoinFacts DEF EngineInv, RecordedOnce

-----------------------------------------------------------------------------
(* The stack.                                                              *)

LEMMA StackedPush ==
    ASSUME NEW b \in Seq(Calls), AllWait(b), NEW e \in Calls,
           calls' = Append(b, e), raising' = FALSE,
           recorded' # <<>> => e.kind = "drive"
    PROVE  Stacked'
<1>1. calls' \in Seq(Calls) /\ Last(calls') = e /\ Front(calls') = b
      /\ calls' # <<>>
  BY PushFacts
<1> QED
  BY <1>1 DEF Stacked, Top, Below, AllWait, Waits

LEMMA StackedPop ==
    ASSUME Stacked, calls # <<>>, calls' = Below, raising' \in BOOLEAN,
           recorded' = <<>>
    PROVE  Stacked'
<1>1. Below \in Seq(Calls) /\ AllWait(Below)
  BY BelowFacts DEF Stacked
<1>2. Below # <<>> => Waits(Last(Below)) /\ AllWait(Front(Below))
  BY <1>1, LastWaits
<1> QED
  BY <1>1, <1>2 DEF Stacked, Top, Below, AllWait, Waits

\* The same calls: a client's turn begins or ends.
LEMMA StackedSame ==
    ASSUME Stacked, calls' = calls, recorded' = recorded,
           raising' \in BOOLEAN, raising' => ClientTurn
    PROVE  Stacked'
<1>1. raising' /\ calls # <<>> => Waits(Top)
  BY DEF ClientTurn, InDispatch, Waits
<1> QED
  BY <1>1 DEF Stacked, Top, Below, AllWait, Waits

LEMMA StackedStep ==
    ASSUME EngineInv, Next
    PROVE  Stacked'
<1> USE DEF EngineInv
<1>0. calls \in Seq(Calls) /\ Reads \subseteq Requests /\ raising \in BOOLEAN
      /\ (calls # <<>> => AllWait(Below) /\ Below \in Seq(Calls) /\ Top \in Calls)
  BY Constants, BelowFacts DEF Stacked
<1>1. ASSUME NEW rs, SendReads(rs)
      PROVE  Stacked'
  <2>1. calls' = calls /\ recorded' = recorded /\ raising' = FALSE
    BY <1>0, <1>1 DEF SendReads, ClientTurn
  <2> QED
    BY <2>1, StackedSame
<1>2. ASSUME NEW rs, SendWrites(rs)
      PROVE  Stacked'
  <2>1. ClientTurn /\ IsFiniteSet(rs \ Silent) /\ rs \subseteq Requests
    BY <1>2, Constants, FS_Difference DEF SendWrites, MayCall, Sendable
  <2>2. SetToSeq(rs \ Silent) \in Seq(Requests)
    BY <2>1, SetToSeqFacts, SeqMonotonic
  <2>3. CallingBack("writes", SetToSeq(rs \ Silent)) \in Calls
    BY <2>2, CallingBackFacts
  <2> QED
    BY <1>0, <1>2, <2>1, <2>3, ClientTurnFacts, StackedPush
    DEF SendWrites, ClientTurn
<1>3. ASSUME NEW rs, SendRaises(rs)
      PROVE  Stacked'
  <2>1. calls' = calls /\ recorded' = recorded /\ raising' \in BOOLEAN
        /\ ClientTurn
    BY <1>3 DEF SendRaises
  <2> QED
    BY <2>1, StackedSame
<1>4. ASSUME NEW done \in SUBSET inFlight, Tick(done) \/ Run(done)
      PROVE  Stacked'
  <2>1. recorded \o Recorded(done) \in Seq(Requests)
    BY <1>0, FetchedFacts, SeqMonotonic
  <2>2. /\ CallingBack("tick", recorded \o Recorded(done)) \in Calls
        /\ CallingBack("run", recorded \o Recorded(done)) \in Calls
    BY <2>1, CallingBackFacts
  <2>3. ClientTurn /\ recorded' = <<>> /\ raising' = FALSE
    BY <1>4 DEF Tick, Run, MayCall, ClientTurn
  <2> QED
    BY <1>0, <1>4, <2>2, <2>3, ClientTurnFacts, StackedPush DEF Tick, Run
<1>5. ASSUME NEW rs \in SUBSET Reads, NEW limit \in CycleLimits,
             DriveStarts(rs, limit)
      PROVE  Stacked'
  <2>1. Driving(SetToSeq(rs), limit) \in Calls
    BY <1>5, DrivingFacts DEF DriveStarts
  <2>2. ClientTurn /\ recorded' = recorded /\ raising' = FALSE
    BY <1>5 DEF DriveStarts, MayCall, ClientTurn
  <2> QED
    BY <1>0, <1>5, <2>1, <2>2, ClientTurnFacts, StackedPush DEF DriveStarts
<1>6. ASSUME CallbackStarts \/ CallbackReturns
      PROVE  Stacked'
  <2>1. /\ calls # <<>> /\ Top.kind # "drive" /\ raising' = FALSE
        /\ recorded' = recorded
    BY <1>6 DEF CallbackStarts, CallbackReturns, InDispatch
  <2>2. recorded' = <<>>
    BY <2>1 DEF Stacked
  <2>3. \E e \in Calls : calls' = Append(Below, e)
    BY <1>0, <1>6, <2>1, DispatchFacts DEF CallbackStarts, CallbackReturns
  <2> QED
    BY <1>0, <2>1, <2>2, <2>3, StackedPush
<1>7. CASE CallbackRaises
  <2>1. /\ calls # <<>> /\ Top.kind # "drive" /\ recorded' = recorded
    BY <1>7 DEF CallbackRaises
  <2>2. recorded' = <<>>
    BY <2>1 DEF Stacked
  <2>3. CASE Top.kind = "writes"
    BY <1>7, <2>1, <2>2, <2>3, StackedPop DEF CallbackRaises
  <2>4. CASE Top.kind # "writes"
    <3>1. raising' = FALSE /\ \E e \in Calls : calls' = Append(Below, e)
      BY <1>0, <1>7, <2>1, <2>4, DispatchFacts DEF CallbackRaises
    <3> QED
      BY <1>0, <2>1, <2>2, <3>1, StackedPush
  <2> QED
    BY <2>3, <2>4
<1>8. CASE DispatchEnds
  <2>1. /\ calls # <<>> /\ Top.kind # "drive" /\ recorded' = recorded
        /\ calls' = Below /\ raising' = Top.raised
    BY <1>8 DEF DispatchEnds, InDispatch
  <2>2. recorded' = <<>> /\ Top.raised \in BOOLEAN
    BY <1>0, <2>1, DispatchFacts DEF Stacked, Callbacks
  <2> QED
    BY <2>1, <2>2, StackedPop
<1>9. CASE Catch
  <2>1. calls' = calls /\ recorded' = recorded /\ raising' = FALSE
    BY <1>9 DEF Catch
  <2> QED
    BY <2>1, StackedSame
<1>10. CASE Drive
  <2>1. /\ calls # <<>> /\ Top.kind = "drive" /\ raising' = FALSE
    BY <1>10 DEF Drive, DriveIssues, DriveFilled, DriveTicks, DriveLoops,
                 DriveEnds, DrivePhase, InDrive
  <2>2. CASE DriveEnds
    <3>1. recorded \in Seq(Requests)
      BY <1>0, SeqMonotonic DEF RecordedOnce
    <3>2. CallingBack("run", recorded) \in Calls
      BY <3>1, CallingBackFacts
    <3> QED
      BY <1>0, <2>1, <2>2, <3>2, StackedPush DEF DriveEnds
  <2>3. CASE ~DriveEnds
    <3>1. \E e \in Calls : calls' = Append(Below, e) /\ e.kind = "drive"
      <4>1. Top \in Calls
        BY <1>0, <2>1, BelowFacts
      <4>2. CASE DriveIssues
        BY <2>1, <4>1, <4>2, DriveFacts DEF DriveIssues, MayIssue
      <4>3. ASSUME NEW phase \in {"fill", "batch", "drain"}, DrivePhase(phase)
            PROVE  \E e \in Calls : calls' = Append(Below, e) /\ e.kind = "drive"
        BY <2>1, <4>1, <4>3, DriveFacts DEF DrivePhase
      <4>4. CASE DriveFilled
        BY <4>3, <4>4 DEF DriveFilled
      <4>5. ASSUME NEW done \in SUBSET inFlight, DriveTicks(done)
            PROVE  \E e \in Calls : calls' = Append(Below, e) /\ e.kind = "drive"
        BY <2>1, <4>1, <4>5, DriveFacts DEF DriveTicks
      <4>6. CASE DriveLoops
        BY <4>3, <4>6 DEF DriveLoops
      <4> QED
        BY <1>10, <2>3, <4>2, <4>4, <4>5, <4>6 DEF Drive
    <3> QED
      BY <1>0, <2>1, <3>1, StackedPush
  <2> QED
    BY <2>2, <2>3
<1> QED
  BY <1>1, <1>2, <1>3, <1>4, <1>5, <1>6, <1>7, <1>8, <1>9, <1>10
  DEF Next, ClientCall, Dispatch

-----------------------------------------------------------------------------
(* The requests and the clock.                                             *)

LEMMA TopHeld ==
    ASSUME EngineInv, calls # <<>>, Top.kind # "drive"
    PROVE  /\ Top \in Callbacks /\ Distinct(Top.rest)
           /\ HeldBy(Top) = ToSet(Top.rest)
           /\ \A r \in HeldBy(Top) : Expected(r) /\ r \notin ToSet(recorded)
           /\ Top.kind = "writes" => HeldBy(Top) \subseteq Writes
           /\ recorded = <<>>
<1>1. \E n \in DOMAIN calls : Top = calls[n]
  BY BelowFacts DEF EngineInv, Stacked
<1>2. Top \in Callbacks /\ recorded = <<>>
  BY BelowFacts, DispatchFacts DEF EngineInv, Stacked
<1> QED
  BY <1>1, <1>2 DEF EngineInv, HeldOnce, HeldOK, HeldBy

LEMMA TopDriven ==
    ASSUME EngineInv, calls # <<>>, Top.kind = "drive"
    PROVE  Top \in Calls /\ DriveOK(Top)
  BY BelowFacts DEF EngineInv, Stacked, Driven

\* The next request drive() issues is one that nobody has sent.
LEMMA TopIssues ==
    ASSUME EngineInv, calls # <<>>, Top.kind = "drive", Top.rest # <<>>
    PROVE  /\ Head(Top.rest) \in Reads /\ Head(Top.rest) \notin sent
           /\ Tail(Top.rest) \in Seq(Reads) /\ Distinct(Tail(Top.rest))
           /\ ToSet(Top.rest) = {Head(Top.rest)} \cup ToSet(Tail(Top.rest))
           /\ Head(Top.rest) \notin ToSet(Tail(Top.rest))
<1>1. /\ Top.rest \in Seq(Reads) /\ Distinct(Top.rest)
      /\ ToSet(Top.rest) \cap sent = {}
  BY TopDriven, DriveFacts DEF DriveOK
<1>2. /\ Head(Top.rest) \in Reads
      /\ Tail(Top.rest) \in Seq(Reads) /\ Distinct(Tail(Top.rest))
      /\ ToSet(Top.rest) = {Head(Top.rest)} \cup ToSet(Tail(Top.rest))
      /\ Head(Top.rest) \notin ToSet(Tail(Top.rest))
  BY <1>1, TailFacts
<1> QED
  BY <1>1, <1>2

\* The requests the engine accepts.
LEMMA AcceptFacts ==
    ASSUME Accounted, NEW rs, NEW type \in SUBSET Requests, Sendable(rs, type)
    PROVE  /\ rs \subseteq Requests /\ rs \cap sent = {} /\ rs \subseteq type
           /\ IsFiniteSet(inFlight \cup rs)
           /\ Cardinality(inFlight \cup rs) <= Queue
<1>1. /\ rs \subseteq type /\ rs \cap sent = {} /\ IsFiniteSet(rs)
      /\ Cardinality(rs) <= Queue - Cardinality(inFlight)
  BY DEF Sendable, Room
<1>2. inFlight \cap rs = {} /\ IsFiniteSet(inFlight)
  BY <1>1 DEF Accounted
<1>3. Cardinality(inFlight \cap rs) = 0
  BY <1>2, FS_EmptySet
<1>4. /\ Cardinality(inFlight) \in Nat /\ Cardinality(rs) \in Nat
      /\ Queue \in Nat
  BY <1>1, <1>2, Constants, FS_CardinalityType
<1>5. /\ IsFiniteSet(inFlight \cup rs)
      /\ Cardinality(inFlight \cup rs)
           = Cardinality(inFlight) + Cardinality(rs) - Cardinality(inFlight \cap rs)
  BY <1>1, <1>2, FS_Union
<1>6. Cardinality(inFlight \cup rs) <= Queue
  BY <1>1, <1>3, <1>4, <1>5
<1> QED
  BY <1>1, <1>5, <1>6

\* The requests the engine services.
LEMMA CyclesFacts ==
    ASSUME Accounted, NEW done \in SUBSET inFlight, Cycles(done)
    PROVE  /\ inFlight' \subseteq inFlight /\ driven' = driven \ done
           /\ inFlight' = inFlight \ done
           /\ driven' \subseteq inFlight'
           /\ IsFiniteSet(inFlight') /\ Cardinality(inFlight') <= Queue
           /\ completedCount' \in Nat
           /\ IsFiniteSet(driven)
           /\ completedCount' + Cardinality(driven')
                = completedCount + Cardinality(driven)
<1>1. /\ inFlight' = inFlight \ done /\ driven' = driven \ done
      /\ completedCount' = completedCount + Cardinality(done \cap driven)
  BY DEF Cycles
<1>2. /\ IsFiniteSet(inFlight) /\ IsFiniteSet(driven) /\ completedCount \in Nat
      /\ Cardinality(inFlight) <= Queue /\ Queue \in Nat
  BY Constants, FS_Subset DEF Accounted
<1>3. /\ IsFiniteSet(driven \cap done) /\ driven \cap done = done \cap driven
      /\ Cardinality(driven \cap done) \in Nat
      /\ Cardinality(driven) \in Nat /\ Cardinality(driven \ done) \in Nat
      /\ Cardinality(driven \ done)
           = Cardinality(driven) - Cardinality(driven \cap done)
  BY <1>2, FS_Intersection, FS_Difference, FS_CardinalityType
<1>4. /\ IsFiniteSet(inFlight \ done)
      /\ Cardinality(inFlight \ done) <= Cardinality(inFlight)
      /\ Cardinality(inFlight \ done) \in Nat /\ Cardinality(inFlight) \in Nat
  BY <1>2, FS_Subset, FS_CardinalityType
<1>5. Cardinality(inFlight \ done) <= Queue
  BY <1>2, <1>4
<1>6. /\ completedCount + Cardinality(done \cap driven) \in Nat
      /\ completedCount + Cardinality(done \cap driven) + Cardinality(driven \ done)
           = completedCount + Cardinality(driven)
  <2> DEFINE a == Cardinality(done \cap driven)
             b == Cardinality(driven \ done)
             c == Cardinality(driven)
  <2>1. a \in Nat /\ b \in Nat /\ c \in Nat /\ b = c - a
    BY <1>3
  <2>2. completedCount \in Nat
    BY <1>2
  <2> HIDE DEF a, b, c
  <2>3. completedCount + a \in Nat /\ completedCount + a + b = completedCount + c
    BY <2>1, <2>2
  <2> QED
    BY <2>3 DEF a, b, c
<1> QED
  BY <1>1, <1>2, <1>4, <1>5, <1>6 DEF Accounted

LEMMA AccountedStep ==
    ASSUME EngineInv, Next
    PROVE  Accounted'
<1> Accounted
  BY DEF EngineInv
<1>0. Reads \subseteq Requests /\ Writes \subseteq Requests
  BY Constants
<1>1. ASSUME NEW rs, SendReads(rs) \/ SendWrites(rs) \/ SendRaises(rs)
      PROVE  Accounted'
  <2>1. /\ rs \subseteq Requests
        /\ IsFiniteSet(inFlight \cup rs)
        /\ Cardinality(inFlight \cup rs) <= Queue
    BY <1>0, <1>1, AcceptFacts DEF SendReads, SendWrites, SendRaises
  <2> QED
    BY <1>1, <2>1 DEF Accounted, SendReads, SendWrites, SendRaises
<1>2. ASSUME NEW done \in SUBSET inFlight,
             Tick(done) \/ Run(done) \/ DriveTicks(done)
      PROVE  Accounted'
  <2>1. Cycles(done)
    BY <1>2 DEF Tick, Run, DriveTicks
  <2> QED
    BY <1>2, <2>1, CyclesFacts DEF Accounted, Tick, Run, DriveTicks
<1>3. ASSUME NEW rs, NEW limit, DriveStarts(rs, limit)
      PROVE  Accounted'
  BY <1>3 DEF Accounted, DriveStarts
<1>4. CASE CallbackStarts
  <2>1. calls # <<>> /\ Top.kind # "drive" /\ Top.rest # <<>>
    BY <1>4 DEF CallbackStarts, InDispatch
  <2>2. Top.rest \in Seq(Requests)
    BY <2>1, TopHeld DEF Callbacks
  <2>3. Head(Top.rest) \in ToSet(Top.rest)
    BY <2>1, <2>2, TopHeld, TailFacts
  <2>4. Head(Top.rest) \in sent \ Silent
    BY <2>1, <2>3, TopHeld DEF Expected
  <2> QED
    BY <1>4, <2>4 DEF Accounted, CallbackStarts
<1>5. CASE CallbackRaises
  <2>1. calls # <<>> /\ Top.kind # "drive"
    BY <1>5 DEF CallbackRaises
  <2>2. ToSet(Top.rest) \subseteq sent
    BY <2>1, TopHeld DEF Expected
  <2> QED
    BY <1>5, <2>2 DEF Accounted, CallbackRaises
<1>6. CASE CallbackReturns \/ DispatchEnds \/ Catch \/ DriveFilled
           \/ DriveLoops \/ DriveEnds
  BY <1>6 DEF Accounted, CallbackReturns, DispatchEnds, Catch, DriveFilled,
              DriveLoops, DriveEnds, DrivePhase
<1>7. CASE DriveIssues
  <2> DEFINE r == Head(Top.rest)
  <2>1. calls # <<>> /\ Top.kind = "drive" /\ Top.rest # <<>> /\ Room > 0
    BY <1>7 DEF DriveIssues, InDrive, MayIssue
  <2>2. r \in Reads
    BY <2>1, TopDriven, DriveFacts
  <2>3. /\ IsFiniteSet(inFlight \cup {r})
        /\ Cardinality(inFlight \cup {r}) <= Queue
    <3>1. /\ IsFiniteSet(inFlight) /\ Cardinality(inFlight) \in Nat
          /\ Queue \in Nat /\ Queue - Cardinality(inFlight) > 0
      BY <2>1, Constants, FS_CardinalityType DEF Accounted, Room
    <3>2. /\ IsFiniteSet(inFlight \cup {r})
          /\ \/ Cardinality(inFlight \cup {r}) = Cardinality(inFlight)
             \/ Cardinality(inFlight \cup {r}) = Cardinality(inFlight) + 1
      BY <3>1, FS_AddElement
    <3> QED
      BY <3>1, <3>2
  <2> QED
    BY <1>0, <1>7, <2>2, <2>3 DEF Accounted, DriveIssues
<1> QED
  BY <1>1, <1>2, <1>3, <1>4, <1>5, <1>6, <1>7
  DEF Next, ClientCall, Dispatch, Drive

\* Counting the ticks of a stack.
LEMMA TicksPush ==
    ASSUME NEW b \in Seq(Calls), NEW e \in Calls
    PROVE  /\ Cardinality(TickCalls(b)) \in Nat
           /\ Cardinality(TickCalls(Append(b, e)))
                = Cardinality(TickCalls(b)) + (IF e.kind = "tick" THEN 1 ELSE 0)
<1>1. PICK n : /\ n \notin DOMAIN b
               /\ DOMAIN Append(b, e) = DOMAIN b \cup {n}
               /\ Append(b, e)[n] = e
               /\ \A k \in DOMAIN b : Append(b, e)[k] = b[k]
  BY PushFacts
<1>2. TickCalls(Append(b, e))
        = IF e.kind = "tick" THEN TickCalls(b) \cup {n} ELSE TickCalls(b)
  BY <1>1 DEF TickCalls
<1>3. n \notin TickCalls(b)
  BY <1>1 DEF TickCalls
<1>4. IsFiniteSet(TickCalls(b))
  <2>1. Len(b) \in Nat /\ DOMAIN b = 1 .. Len(b)
    OBVIOUS
  <2>2. IsFiniteSet(DOMAIN b)
    BY <2>1, FS_Interval
  <2> QED
    BY <2>2, FS_Subset DEF TickCalls
<1>5. /\ Cardinality(TickCalls(b)) \in Nat
      /\ Cardinality(TickCalls(b) \cup {n}) = Cardinality(TickCalls(b)) + 1
  BY <1>3, <1>4, FS_CardinalityType, FS_AddElement
<1>6. CASE e.kind = "tick"
  BY <1>2, <1>5, <1>6
<1>7. CASE e.kind # "tick"
  BY <1>2, <1>5, <1>7
<1> QED
  BY <1>6, <1>7

LEMMA TicksBelow ==
    ASSUME Stacked, calls # <<>>
    PROVE  /\ Cardinality(TickCalls(Below)) \in Nat
           /\ Cardinality(TickCalls(calls))
                = Cardinality(TickCalls(Below)) + (IF Top.kind = "tick" THEN 1 ELSE 0)
           /\ \A e \in Calls :
                (e.kind = "tick") = (Top.kind = "tick") =>
                    Cardinality(TickCalls(Append(Below, e))) = Cardinality(TickCalls(calls))
<1>1. calls = Append(Below, Top) /\ Below \in Seq(Calls) /\ Top \in Calls
  BY BelowFacts DEF Stacked
<1>2. ASSUME NEW e \in Calls
      PROVE  /\ Cardinality(TickCalls(Below)) \in Nat
             /\ Cardinality(TickCalls(Append(Below, e)))
                  = Cardinality(TickCalls(Below)) + (IF e.kind = "tick" THEN 1 ELSE 0)
  BY <1>1, TicksPush
<1>3. Cardinality(TickCalls(Append(Below, Top)))
        = Cardinality(TickCalls(Below)) + (IF Top.kind = "tick" THEN 1 ELSE 0)
  BY <1>1, <1>2
<1>4. Cardinality(TickCalls(calls)) = Cardinality(TickCalls(Append(Below, Top)))
  BY <1>1
<1> QED
  BY <1>1, <1>2, <1>3, <1>4

LEMMA ClockedStep ==
    ASSUME EngineInv, Next
    PROVE  Clocked'
<1> DEFINE ticks == Cardinality(TickCalls(calls))
<1>0. /\ Stacked /\ calls \in Seq(Calls) /\ MaxDrift \in Nat
      /\ drift \in Nat /\ lostTicks \in 0 .. MaxDrift /\ drift = lostTicks + ticks
      /\ Reads \subseteq Requests
  BY Constants DEF EngineInv, Stacked, Clocked
<1>1. ASSUME calls' = calls, drift' = drift, lostTicks' = lostTicks
      PROVE  Clocked'
  BY <1>0, <1>1 DEF Clocked
<1>2. ASSUME NEW e \in Calls, calls' = Append(calls, e), lostTicks' = lostTicks,
             drift' = IF e.kind = "tick" THEN drift + 1 ELSE drift
      PROVE  Clocked'
  <2>1. ticks \in Nat /\ Cardinality(TickCalls(calls'))
                           = ticks + (IF e.kind = "tick" THEN 1 ELSE 0)
    BY <1>0, <1>2, TicksPush
  <2> HIDE DEF ticks
  <2>2. CASE e.kind = "tick"
    BY <1>0, <1>2, <2>1, <2>2 DEF Clocked
  <2>3. CASE e.kind # "tick"
    BY <1>0, <1>2, <2>1, <2>3 DEF Clocked
  <2> QED
    BY <2>2, <2>3
<1>3. ASSUME calls # <<>>, NEW e \in Calls, calls' = Append(Below, e),
             (e.kind = "tick") = (Top.kind = "tick"),
             drift' = drift, lostTicks' = lostTicks
      PROVE  Clocked'
  <2>1. Cardinality(TickCalls(calls')) = ticks
    BY <1>0, <1>3, TicksBelow
  <2> QED
    BY <1>0, <1>3, <2>1 DEF Clocked
<1>4. ASSUME NEW rs, SendReads(rs) \/ SendRaises(rs)
      PROVE  Clocked'
  BY <1>1, <1>4 DEF SendReads, SendRaises
<1>5. CASE Catch
  BY <1>1, <1>5 DEF Catch
<1>6. ASSUME NEW rs, SendWrites(rs)
      PROVE  Clocked'
  <2>1. IsFiniteSet(rs \ Silent) /\ rs \subseteq Requests
    BY <1>6, Constants, FS_Difference DEF SendWrites, Sendable
  <2>2. SetToSeq(rs \ Silent) \in Seq(Requests)
    BY <2>1, SetToSeqFacts, SeqMonotonic
  <2>3. /\ CallingBack("writes", SetToSeq(rs \ Silent)) \in Calls
        /\ CallingBack("writes", SetToSeq(rs \ Silent)).kind = "writes"
    BY <2>2, CallingBackFacts
  <2> QED
    BY <1>2, <1>6, <2>3 DEF SendWrites
<1>7. ASSUME NEW done \in SUBSET inFlight, Tick(done) \/ Run(done)
      PROVE  Clocked'
  <2>1. recorded \o Recorded(done) \in Seq(Requests)
    BY <1>0, FetchedFacts, SeqMonotonic
  <2>2. /\ CallingBack("tick", recorded \o Recorded(done)) \in Calls
        /\ CallingBack("tick", recorded \o Recorded(done)).kind = "tick"
        /\ CallingBack("run", recorded \o Recorded(done)) \in Calls
        /\ CallingBack("run", recorded \o Recorded(done)).kind = "run"
    BY <2>1, CallingBackFacts
  <2> QED
    BY <1>2, <1>7, <2>2 DEF Tick, Run
<1>8. ASSUME NEW rs \in SUBSET Reads, NEW limit \in CycleLimits,
             DriveStarts(rs, limit)
      PROVE  Clocked'
  <2>1. Driving(SetToSeq(rs), limit) \in Calls
        /\ Driving(SetToSeq(rs), limit).kind = "drive"
    BY <1>8, DrivingFacts DEF DriveStarts
  <2> QED
    BY <1>2, <1>8, <2>1 DEF DriveStarts
<1>9. CASE CallbackStarts \/ CallbackReturns
  <2>1. calls # <<>> /\ Top.kind # "drive" /\ Top \in Calls
    BY <1>0, <1>9, BelowFacts DEF CallbackStarts, CallbackReturns, InDispatch
  <2>2. \E e \in Calls : calls' = Append(Below, e) /\ e.kind = Top.kind
    BY <1>9, <2>1, DispatchFacts DEF CallbackStarts, CallbackReturns
  <2>3. drift' = drift /\ lostTicks' = lostTicks
    BY <1>9 DEF CallbackStarts, CallbackReturns
  <2> QED
    BY <1>3, <2>1, <2>2, <2>3
<1>10. CASE CallbackRaises
  <2>1. /\ calls # <<>> /\ Top.kind # "drive" /\ Top \in Calls
        /\ drift' = drift /\ lostTicks' = lostTicks
    BY <1>0, <1>10, BelowFacts DEF CallbackRaises
  <2>2. CASE Top.kind = "writes"
    <3>1. calls' = Below
      BY <1>10, <2>2 DEF CallbackRaises
    <3>2. Cardinality(TickCalls(Below)) \in Nat /\ ticks = Cardinality(TickCalls(Below))
      BY <1>0, <2>1, <2>2, TicksBelow
    <3>3. Cardinality(TickCalls(calls')) = ticks
      BY <3>1, <3>2
    <3> QED
      BY <1>0, <2>1, <3>3 DEF Clocked
  <2>3. CASE Top.kind # "writes"
    <3>1. \E e \in Calls : calls' = Append(Below, e) /\ e.kind = Top.kind
      BY <1>10, <2>1, <2>3, DispatchFacts DEF CallbackRaises
    <3> QED
      BY <1>3, <2>1, <3>1
  <2> QED
    BY <2>2, <2>3
<1>11. CASE DispatchEnds
  <2>1. /\ calls # <<>> /\ calls' = Below
        /\ drift' = (IF Top.kind = "tick" /\ ~Top.raised THEN drift - 1 ELSE drift)
        /\ lostTicks' = (IF Top.kind = "tick" /\ Top.raised
                           THEN lostTicks + 1 ELSE lostTicks)
        /\ lostTicks' <= MaxDrift
    BY <1>11 DEF DispatchEnds, InDispatch
  <2>2. PICK b \in Nat : b = Cardinality(TickCalls(Below))
    BY <1>0, <2>1, TicksBelow
  <2>3. /\ Cardinality(TickCalls(calls')) = b
        /\ ticks = b + (IF Top.kind = "tick" THEN 1 ELSE 0)
    BY <1>0, <2>1, <2>2, TicksBelow
  <2> HIDE DEF ticks
  <2>4. CASE Top.kind = "tick" /\ Top.raised
    BY <1>0, <2>1, <2>2, <2>3, <2>4 DEF Clocked
  <2>5. CASE Top.kind = "tick" /\ ~Top.raised
    <3>1. drift' = drift - 1 /\ lostTicks' = lostTicks
      BY <2>1, <2>5
    <3>2. drift = lostTicks + (b + 1)
      BY <1>0, <2>3, <2>5
    <3>3. drift' \in Nat /\ drift' = lostTicks' + b
      BY <1>0, <2>2, <3>1, <3>2
    <3> QED
      BY <1>0, <2>3, <3>1, <3>3 DEF Clocked
  <2>6. CASE Top.kind # "tick"
    BY <1>0, <2>1, <2>2, <2>3, <2>6 DEF Clocked
  <2> QED
    BY <2>4, <2>5, <2>6
<1>12. CASE Drive
  <2>1. /\ calls # <<>> /\ Top.kind = "drive" /\ Top \in Calls
        /\ drift' = drift /\ lostTicks' = lostTicks
    BY <1>0, <1>12, BelowFacts
    DEF Drive, DriveIssues, DriveFilled, DriveTicks, DriveLoops, DriveEnds,
        DrivePhase, InDrive
  <2>2. CASE DriveEnds
    <3>1. recorded \in Seq(Requests)
      BY <1>0, SeqMonotonic DEF EngineInv, RecordedOnce
    <3>2. CallingBack("run", recorded) \in Calls
          /\ CallingBack("run", recorded).kind = "run"
      BY <3>1, CallingBackFacts
    <3> QED
      BY <1>3, <2>1, <2>2, <3>2 DEF DriveEnds
  <2>3. CASE ~DriveEnds
    <3>1. \E e \in Calls : calls' = Append(Below, e) /\ e.kind = "drive"
      BY <1>12, <2>1, <2>3, DriveFacts, ZenonT(40)
      DEF Drive, DriveIssues, MayIssue, DriveFilled, DriveTicks, DriveLoops,
          DrivePhase
    <3> QED
      BY <1>3, <2>1, <3>1
  <2> QED
    BY <2>2, <2>3
<1> QED
  BY <1>4, <1>5, <1>6, <1>7, <1>8, <1>9, <1>10, <1>11, <1>12
  DEF Next, ClientCall, Dispatch

-----------------------------------------------------------------------------
(* Every read in one place.                                                *)

LEMMA RecordedStep ==
    ASSUME EngineInv, Next
    PROVE  RecordedOnce'
<1>0. Stacked /\ RecordedOnce /\ Accounted /\ called \cap inFlight \cap Reads = {}
  BY DEF EngineInv, Remembered
<1>1. ASSUME recorded' = <<>>
      PROVE  RecordedOnce'
  BY <1>1 DEF RecordedOnce, Distinct, ToSet
<1>2. ASSUME recorded' = recorded, called' = called, sent \subseteq sent',
             (inFlight' \ inFlight) \cap sent = {}
      PROVE  RecordedOnce'
  BY <1>0, <1>2 DEF RecordedOnce, Expected
<1>3. CASE ClientCall
  <2>1. ClientTurn
    BY <1>3 DEF ClientCall, SendReads, SendWrites, SendRaises, Tick, Run,
                DriveStarts, MayCall
  <2>2. recorded = <<>>
    BY <1>0, <2>1, ClientTurnFacts
  <2>3. recorded' = <<>>
    BY <1>3, <2>2 DEF ClientCall, SendReads, SendWrites, SendRaises, Tick, Run,
                      DriveStarts
  <2> QED
    BY <1>1, <2>3
<1>4. CASE Dispatch
  <2>1. /\ calls # <<>> /\ Top.kind # "drive" /\ recorded' = recorded
    BY <1>4 DEF Dispatch, CallbackStarts, CallbackReturns, CallbackRaises,
                DispatchEnds, InDispatch
  <2> QED
    BY <1>1, <2>1, TopHeld
<1>5. CASE Catch \/ DriveFilled \/ DriveLoops
  BY <1>2, <1>5 DEF Catch, DriveFilled, DriveLoops, DrivePhase
<1>6. CASE DriveIssues
  <2>1. calls # <<>> /\ Top.kind = "drive" /\ Top.rest # <<>>
    BY <1>6 DEF DriveIssues, InDrive, MayIssue
  <2>2. Head(Top.rest) \notin sent
    BY <2>1, TopIssues
  <2> QED
    BY <1>2, <1>6, <2>2 DEF DriveIssues
<1>7. ASSUME NEW done \in SUBSET inFlight, DriveTicks(done)
      PROVE  RecordedOnce'
  <2>1. /\ recorded' \in Seq(Reads) /\ Distinct(recorded')
        /\ ToSet(recorded') = ToSet(recorded) \cup ((done \cap Reads) \ Silent)
    BY <1>7, FetchedFacts DEF DriveTicks
  <2>2. inFlight' = inFlight \ done /\ called' = called /\ sent' = sent
    BY <1>7 DEF DriveTicks, Cycles
  <2> QED
    BY <1>0, <2>1, <2>2 DEF RecordedOnce, Expected, Accounted
<1>8. CASE DriveEnds
  BY <1>1, <1>8 DEF DriveEnds
<1> QED
  BY <1>3, <1>4, <1>5, <1>6, <1>7, <1>8 DEF Next, Drive

\* What the calls below the top hold.
LEMMA BelowHeld ==
    ASSUME EngineInv, calls # <<>>
    PROVE  /\ Below \in Seq(Calls) /\ Apart(Below) /\ HeldOK(Top)
           /\ \A k \in DOMAIN Below : /\ HeldOK(Below[k])
                                      /\ HeldBy(Below[k]) \cap HeldBy(Top) = {}
<1>1. Below \in Seq(Calls) /\ Top \in Calls /\ calls = Append(Below, Top)
  BY BelowFacts DEF EngineInv, Stacked
<1>2. PICK n : /\ n \notin DOMAIN Below
               /\ DOMAIN calls = DOMAIN Below \cup {n}
               /\ calls[n] = Top
               /\ \A k \in DOMAIN Below : calls[k] = Below[k]
  BY <1>1, PushFacts
<1>3. (\A k \in DOMAIN calls : HeldOK(calls[k])) /\ Apart(calls)
  BY DEF EngineInv, HeldOnce
<1> HIDE DEF Top, Below
<1>4. HeldOK(Top) /\ \A k \in DOMAIN Below : HeldOK(Below[k])
  BY <1>2, <1>3
<1>5. \A k \in DOMAIN Below : HeldBy(Below[k]) \cap HeldBy(Top) = {}
  BY <1>2, <1>3 DEF Apart
<1>6. Apart(Below)
  BY <1>2, <1>3 DEF Apart
<1> QED
  BY <1>1, <1>4, <1>5, <1>6

\* What a call holds stays expected while none of it is called back, sent
\* again or recorded.
LEMMA HeldKept ==
    ASSUME NEW call, HeldOK(call), sent \subseteq sent',
           (called' \ called) \cap HeldBy(call) = {},
           (inFlight' \ inFlight) \cap sent = {},
           ToSet(recorded') \cap HeldBy(call) = {}
    PROVE  HeldOK(call)'
  BY DEF HeldOK, Expected

LEMMA HeldPush ==
    ASSUME NEW b \in Seq(Calls), NEW e \in Calls, calls' = Append(b, e),
           \A k \in DOMAIN b : HeldOK(b[k])' /\ HeldBy(b[k]) \cap HeldBy(e) = {},
           Apart(b), HeldOK(e)'
    PROVE  HeldOnce'
<1>1. PICK n : /\ n \notin DOMAIN b
               /\ DOMAIN calls' = DOMAIN b \cup {n}
               /\ calls'[n] = e
               /\ \A k \in DOMAIN b : calls'[k] = b[k]
  BY PushFacts
<1>2. (\A k \in DOMAIN calls : HeldOK(calls[k]))'
  BY <1>1 DEF HeldOK, Expected
<1>3. Apart(calls')
  BY <1>1 DEF Apart
<1> QED
  BY <1>2, <1>3 DEF HeldOnce

LEMMA HeldPop ==
    ASSUME EngineInv, calls # <<>>, calls' = Below, called' = called,
           sent' = sent, inFlight' = inFlight, recorded' = recorded
    PROVE  HeldOnce'
  BY BelowHeld DEF HeldOnce, HeldOK, Expected

\* A client's call: what the calls hold stays so, and the new call holds new
\* requests.
LEMMA HeldCall ==
    ASSUME EngineInv, ClientTurn, NEW e \in Calls, calls' = Append(calls, e),
           called' = called, sent \subseteq sent', recorded' = <<>>,
           (inFlight' \ inFlight) \cap sent = {}, HeldOK(e)',
           \A r \in HeldBy(e) : r \notin sent \/ (r \in Reads /\ r \in inFlight)
    PROVE  HeldOnce'
<1>1. calls \in Seq(Calls) /\ (\A k \in DOMAIN calls : HeldOK(calls[k])) /\ Apart(calls)
  BY DEF EngineInv, Stacked, HeldOnce
<1>2. ASSUME NEW b, b = calls
      PROVE  HeldOnce'
  <2>1. b \in Seq(Calls) /\ Apart(b) /\ calls' = Append(b, e)
    BY <1>1, <1>2
  <2>2. ASSUME NEW k \in DOMAIN b
        PROVE  HeldOK(b[k])' /\ HeldBy(b[k]) \cap HeldBy(e) = {}
    <3>1. HeldOK(b[k])
      BY <1>1, <1>2
    <3>2. ToSet(recorded') = {}
      BY DEF ToSet
    <3>3. HeldOK(b[k])'
      BY <3>1, <3>2, HeldKept
    <3>4. HeldBy(b[k]) \cap HeldBy(e) = {}
      BY <3>1 DEF HeldOK, Expected
    <3> QED
      BY <3>3, <3>4
  <2> QED
    BY <2>1, <2>2, HeldPush
<1> QED
  BY <1>2

\* A step of the call at the top, which holds no more than before and what
\* the step fetches.
LEMMA HeldTop ==
    ASSUME EngineInv, calls # <<>>, NEW e \in Calls, calls' = Append(Below, e),
           sent \subseteq sent', called' \subseteq called \cup HeldBy(Top),
           (inFlight' \ inFlight) \cap sent = {},
           \A r \in ToSet(recorded') :
              r \in ToSet(recorded) \/ (r \in Reads /\ r \in inFlight),
           \A r \in HeldBy(e) : r \in HeldBy(Top) \cup ToSet(recorded),
           HeldOK(e)'
    PROVE  HeldOnce'
<1>1. /\ Below \in Seq(Calls) /\ Apart(Below) /\ HeldOK(Top)
      /\ \A k \in DOMAIN Below : /\ HeldOK(Below[k])
                                 /\ HeldBy(Below[k]) \cap HeldBy(Top) = {}
  BY BelowHeld
<1>2. ASSUME NEW b, b = Below
      PROVE  HeldOnce'
  <2>1. b \in Seq(Calls) /\ Apart(b) /\ calls' = Append(b, e)
    BY <1>1, <1>2
  <2>2. ASSUME NEW k \in DOMAIN b
        PROVE  HeldOK(b[k])' /\ HeldBy(b[k]) \cap HeldBy(e) = {}
    <3>1. HeldOK(b[k]) /\ HeldBy(b[k]) \cap HeldBy(Top) = {}
      BY <1>1, <1>2
    <3>2. ToSet(recorded') \cap HeldBy(b[k]) = {}
      BY <3>1 DEF HeldOK, Expected
    <3>3. (called' \ called) \cap HeldBy(b[k]) = {}
      BY <3>1
    <3>4. HeldOK(b[k])'
      BY <3>1, <3>2, <3>3, HeldKept
    <3>5. HeldBy(b[k]) \cap HeldBy(e) = {}
      BY <3>1 DEF HeldOK
    <3> QED
      BY <3>4, <3>5
  <2> QED
    BY <2>1, <2>2, HeldPush
<1> QED
  BY <1>2

LEMMA HeldStep ==
    ASSUME EngineInv, Next
    PROVE  HeldOnce'
<1>0. /\ Stacked /\ HeldOnce /\ Accounted /\ RecordedOnce
      /\ called \cap inFlight \cap Reads = {}
      /\ called \subseteq sent /\ inFlight \subseteq sent
      /\ Reads \cap Writes = {} /\ Reads \subseteq Requests /\ Writes \subseteq Requests
  BY Constants DEF EngineInv, Remembered, Accounted
<1>1. ASSUME NEW rs, SendReads(rs) \/ SendRaises(rs)
      PROVE  HeldOnce'
  <2>1. rs \cap sent = {}
    BY <1>0, <1>1, AcceptFacts DEF SendReads, SendRaises
  <2> QED
    BY <1>0, <1>1, <2>1 DEF HeldOnce, HeldOK, Expected, SendReads, SendRaises
<1>2. ASSUME NEW rs, SendWrites(rs)
      PROVE  HeldOnce'
  <2> DEFINE e == CallingBack("writes", SetToSeq(rs \ Silent))
  <2>1. rs \cap sent = {} /\ rs \subseteq Writes /\ IsFiniteSet(rs \ Silent)
    BY <1>0, <1>2, FS_Difference, AcceptFacts DEF SendWrites, Sendable
  <2>2. /\ SetToSeq(rs \ Silent) \in Seq(Requests) /\ Distinct(SetToSeq(rs \ Silent))
        /\ ToSet(SetToSeq(rs \ Silent)) = rs \ Silent
    <3>1. /\ SetToSeq(rs \ Silent) \in Seq(rs \ Silent)
          /\ Distinct(SetToSeq(rs \ Silent))
          /\ ToSet(SetToSeq(rs \ Silent)) = rs \ Silent
      BY <2>1, SetToSeqFacts
    <3>2. rs \ Silent \subseteq Requests
      BY <1>0, <2>1
    <3> QED
      BY <3>1, <3>2, SeqMonotonic
  <2>3. /\ e \in Calls /\ e.kind = "writes" /\ HeldBy(e) = rs \ Silent
        /\ Distinct(e.rest)
    BY <2>2, CallingBackFacts
  <2>4. /\ ClientTurn /\ calls' = Append(calls, e) /\ called' = called
        /\ sent' = sent \cup rs /\ recorded' = recorded
        /\ inFlight' = inFlight \cup rs
    BY <1>2 DEF SendWrites, MayCall
  <2> HIDE DEF e
  <2>5. recorded' = <<>> /\ ToSet(recorded') = {}
    BY <1>0, <2>4, ClientTurnFacts DEF ToSet
  <2>6. HeldOK(e)'
    BY <1>0, <2>1, <2>3, <2>4, <2>5 DEF HeldOK, Expected
  <2> QED
    BY <2>1, <2>3, <2>4, <2>5, <2>6, HeldCall
<1>3. ASSUME NEW done \in SUBSET inFlight, Tick(done) \/ Run(done)
      PROVE  HeldOnce'
  <2> DEFINE fetched == recorded \o Recorded(done)
  <2>1. ClientTurn /\ Cycles(done)
    BY <1>3 DEF Tick, Run, MayCall
  <2>2. recorded = <<>> /\ ToSet(recorded) = {}
    BY <1>0, <2>1, ClientTurnFacts DEF ToSet
  <2>3. /\ fetched \in Seq(Requests) /\ Distinct(fetched)
        /\ ToSet(fetched) = (done \cap Reads) \ Silent
    BY <1>0, <2>2, FetchedFacts, SeqMonotonic
  <2> HIDE DEF fetched
  <2>4. \E e \in Calls :
           /\ calls' = Append(calls, e) /\ e.kind # "writes" /\ e.kind # "drive"
           /\ HeldBy(e) = ToSet(fetched) /\ e.rest = fetched
    BY <1>3, <2>3, CallingBackFacts, ZenonT(40) DEF Tick, Run, fetched
  <2>5. /\ called' = called /\ sent' = sent /\ recorded' = <<>>
        /\ inFlight' = inFlight \ done
    BY <1>3 DEF Tick, Run, Cycles
  <2>6. ToSet(recorded') = {}
    BY <2>5 DEF ToSet
  <2>7. ASSUME NEW e \in Calls, calls' = Append(calls, e), e.kind # "writes",
               HeldBy(e) = ToSet(fetched), e.rest = fetched
        PROVE  HeldOnce'
    <3>1. HeldOK(e)'
      BY <1>0, <2>3, <2>5, <2>6, <2>7 DEF HeldOK, Expected
    <3> QED
      BY <2>1, <2>3, <2>5, <2>7, <3>1, HeldCall
  <2> QED
    BY <2>4, <2>7
<1>4. ASSUME NEW rs \in SUBSET Reads, NEW limit \in CycleLimits,
             DriveStarts(rs, limit)
      PROVE  HeldOnce'
  <2>1. PICK e \in Calls : calls' = Append(calls, e) /\ e.kind = "drive"
    BY <1>4, DrivingFacts DEF DriveStarts
  <2>2. /\ ClientTurn /\ called' = called
        /\ sent' = sent /\ recorded' = recorded /\ inFlight' = inFlight
    BY <1>4 DEF DriveStarts, MayCall
  <2>3. recorded' = <<>> /\ HeldBy(e) = {}
    BY <1>0, <2>1, <2>2, ClientTurnFacts DEF HeldBy
  <2>4. HeldOK(e)'
    BY <2>1, <2>3 DEF HeldOK
  <2> QED
    BY <2>1, <2>2, <2>3, <2>4, HeldCall
<1>5. CASE CallbackStarts
  <2> DEFINE h == Head(Top.rest)
  <2>1. calls # <<>> /\ Top.kind # "drive" /\ Top.rest # <<>>
    BY <1>5 DEF CallbackStarts, InDispatch
  <2>2. /\ Top \in Calls /\ Top.rest \in Seq(Requests) /\ Distinct(Top.rest)
        /\ HeldBy(Top) = ToSet(Top.rest) /\ HeldOK(Top) /\ recorded = <<>>
    BY <1>0, <2>1, TopHeld, BelowHeld, BelowFacts DEF Callbacks, Stacked
  <2>3. /\ Distinct(Tail(Top.rest)) /\ h \notin ToSet(Tail(Top.rest))
        /\ ToSet(Top.rest) = {h} \cup ToSet(Tail(Top.rest))
    BY <2>1, <2>2, TailFacts
  <2>4. PICK e \in Calls : /\ calls' = Append(Below, e) /\ e.kind = Top.kind
                           /\ e.rest = Tail(Top.rest)
    BY <1>5, <2>1, <2>2, DispatchFacts DEF CallbackStarts
  <2>5. /\ called' = called \cup {h} /\ sent' = sent /\ recorded' = recorded
        /\ inFlight' = inFlight
    BY <1>5 DEF CallbackStarts
  <2> HIDE DEF h
  <2>6. HeldBy(e) = ToSet(Tail(Top.rest))
    BY <2>1, <2>4 DEF HeldBy
  <2>7. HeldOK(e)'
    BY <2>1, <2>2, <2>3, <2>4, <2>5, <2>6 DEF HeldOK, Expected
  <2>8. /\ sent \subseteq sent' /\ called' \subseteq called \cup HeldBy(Top)
        /\ (inFlight' \ inFlight) \cap sent = {}
        /\ ToSet(recorded') = ToSet(recorded)
        /\ \A r \in HeldBy(e) : r \in HeldBy(Top) \cup ToSet(recorded)
    BY <2>2, <2>3, <2>5, <2>6
  <2> QED
    BY <2>1, <2>4, <2>7, <2>8, HeldTop
<1>6. CASE CallbackReturns \/ (CallbackRaises /\ Top.kind # "writes")
  <2>1. calls # <<>> /\ Top.kind # "drive"
    BY <1>6 DEF CallbackReturns, CallbackRaises, InDispatch
  <2>2. Top \in Calls /\ HeldOK(Top)
    BY <1>0, <2>1, BelowHeld, BelowFacts DEF Stacked
  <2>3. PICK e \in Calls : /\ calls' = Append(Below, e) /\ e.kind = Top.kind
                           /\ e.rest = Top.rest
    BY <1>6, <2>1, <2>2, DispatchFacts DEF CallbackReturns, CallbackRaises
  <2>4. /\ called' = called /\ sent' = sent /\ recorded' = recorded
        /\ inFlight' = inFlight
    BY <1>6 DEF CallbackReturns, CallbackRaises
  <2>5. HeldBy(e) = HeldBy(Top)
    BY <2>3 DEF HeldBy
  <2>6. HeldOK(e)'
    BY <2>2, <2>3, <2>4, <2>5 DEF HeldOK, Expected
  <2>7. /\ sent \subseteq sent' /\ called' \subseteq called \cup HeldBy(Top)
        /\ (inFlight' \ inFlight) \cap sent = {}
        /\ ToSet(recorded') = ToSet(recorded)
        /\ \A r \in HeldBy(e) : r \in HeldBy(Top) \cup ToSet(recorded)
    BY <2>4, <2>5
  <2> QED
    BY <2>1, <2>3, <2>6, <2>7, HeldTop
<1>7. CASE DispatchEnds \/ (CallbackRaises /\ Top.kind = "writes")
  BY <1>7, HeldPop DEF DispatchEnds, CallbackRaises, InDispatch
<1>8. CASE Catch
  BY <1>0, <1>8 DEF Catch, HeldOnce, HeldOK, Expected
<1>9. CASE Drive
  <2>1. calls # <<>> /\ Top.kind = "drive" /\ Top \in Calls /\ HeldBy(Top) = {}
    BY <1>0, <1>9, BelowFacts
    DEF Drive, DriveIssues, DriveFilled, DriveTicks, DriveLoops, DriveEnds,
        DrivePhase, InDrive, HeldBy, Stacked
  <2>2. CASE DriveEnds
    <3>1. recorded \in Seq(Requests) /\ Distinct(recorded)
      BY <1>0, SeqMonotonic DEF RecordedOnce
    <3>2. PICK e \in Calls : /\ calls' = Append(Below, e) /\ e.kind = "run"
                             /\ e.rest = recorded /\ HeldBy(e) = ToSet(recorded)
      BY <2>2, <3>1, CallingBackFacts DEF DriveEnds
    <3>3. /\ recorded' = <<>> /\ called' = called
          /\ sent' = sent /\ inFlight' = inFlight
      BY <2>2 DEF DriveEnds
    <3>4. ToSet(recorded') = {}
      BY <3>3 DEF ToSet
    <3>5. HeldOK(e)'
      BY <1>0, <3>1, <3>2, <3>3, <3>4 DEF HeldOK, Expected, RecordedOnce
    <3>6. /\ sent \subseteq sent' /\ called' \subseteq called \cup HeldBy(Top)
          /\ (inFlight' \ inFlight) \cap sent = {}
          /\ \A r \in HeldBy(e) : r \in HeldBy(Top) \cup ToSet(recorded)
      BY <3>2, <3>3
    <3> QED
      BY <2>1, <3>2, <3>3, <3>4, <3>5, <3>6, HeldTop
  <2>3. CASE ~DriveEnds
    <3>1. PICK e \in Calls : calls' = Append(Below, e) /\ e.kind = "drive"
      BY <1>9, <2>1, <2>3, DriveFacts, ZenonT(40)
      DEF Drive, DriveIssues, MayIssue, DriveFilled, DriveTicks, DriveLoops,
          DrivePhase
    <3>2. HeldBy(e) = {} /\ HeldOK(e)'
      BY <3>1 DEF HeldOK, HeldBy
    <3>3. /\ sent \subseteq sent' /\ called' = called
          /\ (inFlight' \ inFlight) \cap sent = {}
      BY <1>9, <2>1, <2>3, TopIssues
      DEF Drive, DriveIssues, MayIssue, DriveFilled, DriveTicks, DriveLoops,
          DrivePhase, Cycles
    <3>4. \A r \in ToSet(recorded') :
             r \in ToSet(recorded) \/ (r \in Reads /\ r \in inFlight)
      <4>1. ASSUME NEW done \in SUBSET inFlight, DriveTicks(done)
            PROVE  ToSet(recorded') = ToSet(recorded) \cup ((done \cap Reads) \ Silent)
        BY <4>1, FetchedFacts DEF DriveTicks
      <4>2. CASE recorded' = recorded
        BY <4>2
      <4> QED
        BY <1>9, <2>3, <4>1, <4>2
        DEF Drive, DriveIssues, DriveFilled, DriveLoops, DrivePhase
    <3> QED
      BY <2>1, <3>1, <3>2, <3>3, <3>4, HeldTop
  <2> QED
    BY <2>2, <2>3
<1> QED
  BY <1>1, <1>2, <1>3, <1>4, <1>5, <1>6, <1>7, <1>8, <1>9
  DEF Next, ClientCall, Dispatch

\* What a stack holds is what its top holds and what the calls below do.
LEMMA AllHeldPush ==
    ASSUME NEW b \in Seq(Calls), NEW e \in Calls
    PROVE  AllHeld(Append(b, e)) = AllHeld(b) \cup HeldBy(e)
<1>1. PICK n : /\ n \notin DOMAIN b
               /\ DOMAIN Append(b, e) = DOMAIN b \cup {n}
               /\ Append(b, e)[n] = e
               /\ \A k \in DOMAIN b : Append(b, e)[k] = b[k]
  BY PushFacts
<1> QED
  BY <1>1 DEF AllHeld

LEMMA AllHeldBelow ==
    ASSUME Stacked, calls # <<>>
    PROVE  /\ AllHeld(calls) = AllHeld(Below) \cup HeldBy(Top)
           /\ \A e \in Calls : AllHeld(Append(Below, e)) = AllHeld(Below) \cup HeldBy(e)
<1>1. calls = Append(Below, Top) /\ Below \in Seq(Calls) /\ Top \in Calls
  BY BelowFacts DEF Stacked
<1>2. \A e \in Calls : AllHeld(Append(Below, e)) = AllHeld(Below) \cup HeldBy(e)
  BY <1>1, AllHeldPush
<1>3. AllHeld(Append(Below, Top)) = AllHeld(Below) \cup HeldBy(Top)
  BY <1>1, <1>2
<1>4. AllHeld(calls) = AllHeld(Append(Below, Top))
  BY <1>1
<1> QED
  BY <1>2, <1>3, <1>4

LEMMA RememberedStep ==
    ASSUME EngineInv, Next
    PROVE  Remembered'
<1>0. /\ Stacked /\ Accounted /\ Remembered /\ calls \in Seq(Calls)
      /\ called \subseteq sent /\ inFlight \subseteq sent
      /\ Reads \cap Writes = {} /\ Reads \subseteq Requests /\ Writes \subseteq Requests
  BY Constants DEF EngineInv, Accounted, Stacked
<1>1. ASSUME NEW rs, SendReads(rs) \/ SendRaises(rs)
      PROVE  Remembered'
  <2>1. rs \cap sent = {}
    BY <1>0, <1>1, AcceptFacts DEF SendReads, SendRaises
  <2> QED
    BY <1>0, <1>1, <2>1 DEF Remembered, SendReads, SendRaises
<1>2. ASSUME NEW rs, SendWrites(rs)
      PROVE  Remembered'
  <2> DEFINE e == CallingBack("writes", SetToSeq(rs \ Silent))
  <2>1. rs \cap sent = {} /\ rs \subseteq Writes /\ IsFiniteSet(rs \ Silent)
    BY <1>0, <1>2, FS_Difference, AcceptFacts DEF SendWrites, Sendable
  <2>2. SetToSeq(rs \ Silent) \in Seq(Requests)
    <3>1. SetToSeq(rs \ Silent) \in Seq(rs \ Silent)
      BY <2>1, SetToSeqFacts
    <3>2. rs \ Silent \subseteq Requests
      BY <1>0, <2>1
    <3> QED
      BY <3>1, <3>2, SeqMonotonic
  <2>3. e \in Calls /\ calls' = Append(calls, e)
    BY <1>2, <2>2, CallingBackFacts DEF SendWrites
  <2> HIDE DEF e
  <2>4. AllHeld(calls') = AllHeld(calls) \cup HeldBy(e)
    BY <1>0, <2>3, AllHeldPush
  <2> QED
    BY <1>0, <1>2, <2>1, <2>4 DEF Remembered, SendWrites
<1>3. ASSUME NEW done \in SUBSET inFlight, Tick(done) \/ Run(done)
      PROVE  Remembered'
  <2> DEFINE fetched == recorded \o Recorded(done)
  <2>1. /\ fetched \in Seq(Requests)
        /\ ToSet(fetched) = ToSet(recorded) \cup ((done \cap Reads) \ Silent)
    BY <1>0, FetchedFacts, SeqMonotonic
  <2> HIDE DEF fetched
  <2>2. PICK e \in Calls : calls' = Append(calls, e) /\ HeldBy(e) = ToSet(fetched)
    BY <1>3, <2>1, CallingBackFacts, ZenonT(40) DEF Tick, Run, fetched
  <2>3. AllHeld(calls') = AllHeld(calls) \cup HeldBy(e)
    BY <1>0, <2>2, AllHeldPush
  <2>4. inFlight' = inFlight \ done /\ called' = called /\ sent' = sent
    BY <1>3 DEF Tick, Run, Cycles
  <2> QED
    BY <1>0, <2>1, <2>2, <2>3, <2>4 DEF Remembered
<1>4. ASSUME NEW rs \in SUBSET Reads, NEW limit \in CycleLimits,
             DriveStarts(rs, limit)
      PROVE  Remembered'
  <2>1. PICK e \in Calls : calls' = Append(calls, e)
    BY <1>4, DrivingFacts DEF DriveStarts
  <2>2. AllHeld(calls') = AllHeld(calls) \cup HeldBy(e)
    BY <1>0, <2>1, AllHeldPush
  <2> QED
    BY <1>0, <1>4, <2>2 DEF Remembered, DriveStarts
<1>5. CASE CallbackStarts
  <2> DEFINE h == Head(Top.rest)
  <2>1. calls # <<>> /\ Top.kind # "drive" /\ Top.rest # <<>>
    BY <1>5 DEF CallbackStarts, InDispatch
  <2>2. /\ Top \in Calls /\ Top.rest \in Seq(Requests) /\ Distinct(Top.rest)
        /\ HeldBy(Top) = ToSet(Top.rest)
        /\ \A r \in HeldBy(Top) : Expected(r)
    BY <1>0, <2>1, TopHeld, BelowFacts DEF Callbacks, Stacked
  <2>3. ToSet(Top.rest) = {h} \cup ToSet(Tail(Top.rest))
    BY <2>1, <2>2, TailFacts
  <2>4. PICK e \in Calls : /\ calls' = Append(Below, e) /\ e.kind = Top.kind
                           /\ e.rest = Tail(Top.rest)
    BY <1>5, <2>1, <2>2, DispatchFacts DEF CallbackStarts
  <2>5. /\ called' = called \cup {h} /\ sent' = sent /\ recorded' = recorded
        /\ inFlight' = inFlight
    BY <1>5 DEF CallbackStarts
  <2> HIDE DEF h
  <2>6. HeldBy(e) = ToSet(Tail(Top.rest))
    BY <2>1, <2>4 DEF HeldBy
  <2>7. /\ AllHeld(calls) = AllHeld(Below) \cup HeldBy(Top)
        /\ AllHeld(calls') = AllHeld(Below) \cup HeldBy(e)
    BY <1>0, <2>1, <2>4, AllHeldBelow
  <2>8. h \in Reads => h \notin inFlight
    BY <2>2, <2>3 DEF Expected
  <2> QED
    BY <1>0, <2>2, <2>3, <2>5, <2>6, <2>7, <2>8 DEF Remembered
<1>6. CASE CallbackReturns \/ (CallbackRaises /\ Top.kind # "writes")
  <2>1. calls # <<>> /\ Top.kind # "drive"
    BY <1>6 DEF CallbackReturns, CallbackRaises, InDispatch
  <2>2. Top \in Calls
    BY <1>0, <2>1, BelowFacts
  <2>3. PICK e \in Calls : /\ calls' = Append(Below, e) /\ e.kind = Top.kind
                           /\ e.rest = Top.rest
    BY <1>6, <2>1, <2>2, DispatchFacts DEF CallbackReturns, CallbackRaises
  <2>4. HeldBy(e) = HeldBy(Top)
    BY <2>3 DEF HeldBy
  <2>5. AllHeld(calls') = AllHeld(calls)
    BY <1>0, <2>1, <2>3, <2>4, AllHeldBelow
  <2> QED
    BY <1>0, <1>6, <2>5 DEF Remembered, CallbackReturns, CallbackRaises
<1>7. CASE DispatchEnds \/ (CallbackRaises /\ Top.kind = "writes")
  <2>1. calls # <<>> /\ Top.kind # "drive" /\ calls' = Below
    BY <1>7 DEF DispatchEnds, CallbackRaises, InDispatch
  <2>2. HeldBy(Top) \cap Reads = {}
    <3>1. CASE DispatchEnds
      BY <2>1, <3>1 DEF DispatchEnds, HeldBy, ToSet
    <3>2. CASE Top.kind = "writes"
      BY <1>0, <2>1, <3>2, TopHeld
    <3> QED
      BY <1>7, <3>1, <3>2
  <2>3. /\ AllHeld(calls) = AllHeld(Below) \cup HeldBy(Top)
        /\ AllHeld(calls') = AllHeld(Below)
    BY <1>0, <2>1, AllHeldBelow
  <2> QED
    BY <1>0, <1>7, <2>2, <2>3 DEF Remembered, DispatchEnds, CallbackRaises
<1>8. CASE Catch
  BY <1>0, <1>8 DEF Catch, Remembered
<1>9. CASE Drive
  <2>1. calls # <<>> /\ Top.kind = "drive" /\ Top \in Calls /\ HeldBy(Top) = {}
    BY <1>0, <1>9, BelowFacts
    DEF Drive, DriveIssues, DriveFilled, DriveTicks, DriveLoops, DriveEnds,
        DrivePhase, InDrive, HeldBy
  <2>2. CASE DriveEnds
    <3>1. recorded \in Seq(Requests)
      BY <1>0, SeqMonotonic DEF EngineInv, RecordedOnce
    <3>2. PICK e \in Calls : calls' = Append(Below, e) /\ HeldBy(e) = ToSet(recorded)
      BY <2>2, <3>1, CallingBackFacts DEF DriveEnds
    <3>3. /\ AllHeld(calls) = AllHeld(Below) \cup HeldBy(Top)
          /\ AllHeld(calls') = AllHeld(Below) \cup HeldBy(e)
      BY <1>0, <2>1, <3>2, AllHeldBelow
    <3> QED
      BY <1>0, <2>1, <2>2, <3>2, <3>3 DEF Remembered, DriveEnds
  <2>3. ASSUME ~DriveEnds
        PROVE  AllHeld(calls') = AllHeld(calls)
    <3>1. PICK e \in Calls : calls' = Append(Below, e) /\ e.kind = "drive"
      BY <1>9, <2>1, <2>3, DriveFacts, ZenonT(40)
      DEF Drive, DriveIssues, MayIssue, DriveFilled, DriveTicks, DriveLoops,
          DrivePhase
    <3>2. HeldBy(e) = {}
      BY <3>1 DEF HeldBy
    <3> QED
      BY <1>0, <2>1, <3>1, <3>2, AllHeldBelow
  <2>4. CASE DriveIssues
    <3>1. Head(Top.rest) \notin sent
      BY <2>1, <2>4, TopIssues DEF DriveIssues, MayIssue
    <3>2. AllHeld(calls') = AllHeld(calls) \/ DriveEnds
      BY <2>3
    <3> QED
      BY <1>0, <2>2, <2>4, <3>1, <3>2 DEF Remembered, DriveIssues
  <2>5. ASSUME NEW done \in SUBSET inFlight, DriveTicks(done), ~DriveEnds
        PROVE  Remembered'
    <3>1. ToSet(recorded') = ToSet(recorded) \cup ((done \cap Reads) \ Silent)
      BY <2>5, FetchedFacts DEF DriveTicks
    <3>2. inFlight' = inFlight \ done /\ called' = called /\ sent' = sent
      BY <2>5 DEF DriveTicks, Cycles
    <3>3. AllHeld(calls') = AllHeld(calls)
      BY <2>3, <2>5
    <3> QED
      BY <1>0, <3>1, <3>2, <3>3 DEF Remembered
  <2>6. CASE (DriveFilled \/ DriveLoops) /\ ~DriveEnds
    <3>1. AllHeld(calls') = AllHeld(calls)
      BY <2>3, <2>6
    <3> QED
      BY <1>0, <2>6, <3>1 DEF Remembered, DriveFilled, DriveLoops, DrivePhase
  <2> QED
    BY <1>9, <2>2, <2>4, <2>5, <2>6 DEF Drive
<1> QED
  BY <1>1, <1>2, <1>3, <1>4, <1>5, <1>6, <1>7, <1>8, <1>9
  DEF Next, ClientCall, Dispatch

-----------------------------------------------------------------------------
(* drive().                                                                *)

\* Only a call at the top is a drive().
LEMMA DrivenPush ==
    ASSUME NEW b \in Seq(Calls), AllWait(b), NEW e \in Calls,
           calls' = Append(b, e), e.kind = "drive" => DriveOK(e)'
    PROVE  Driven'
<1>1. PICK n : /\ n \notin DOMAIN b
               /\ DOMAIN calls' = DOMAIN b \cup {n}
               /\ calls'[n] = e
               /\ \A k \in DOMAIN b : calls'[k] = b[k]
  BY PushFacts
<1>2. \A k \in DOMAIN b : calls'[k].kind # "drive"
  BY <1>1 DEF AllWait, Waits
<1> QED
  BY <1>1, <1>2 DEF Driven, DriveOK

LEMMA DrivenNone ==
    ASSUME AllWait(calls')
    PROVE  Driven'
  BY DEF AllWait, Waits, Driven

LEMMA DrivenStep ==
    ASSUME EngineInv, Next
    PROVE  Driven'
<1>0. /\ Stacked /\ Accounted /\ calls \in Seq(Calls)
      /\ driven \subseteq inFlight /\ inFlight \subseteq sent
      /\ (calls # <<>> => AllWait(Below) /\ Below \in Seq(Calls) /\ Top \in Calls)
  BY BelowFacts DEF EngineInv, Accounted, Stacked
<1>1. ASSUME NEW e \in Calls, calls' = Append(Below, e), calls # <<>>,
             e.kind # "drive"
      PROVE  Driven'
  BY <1>0, <1>1, DrivenPush
<1>2. ASSUME NEW e \in Calls, ClientTurn, calls' = Append(calls, e),
             e.kind # "drive"
      PROVE  Driven'
  BY <1>0, <1>2, ClientTurnFacts, DrivenPush
<1>3. ASSUME NEW rs, SendReads(rs) \/ SendRaises(rs)
      PROVE  Driven'
  <2>1. AllWait(calls) /\ calls' = calls
    BY <1>0, <1>3, ClientTurnFacts DEF SendReads, SendRaises
  <2> QED
    BY <2>1, DrivenNone
<1>4. ASSUME NEW rs, SendWrites(rs)
      PROVE  Driven'
  <2>1. rs \subseteq Writes /\ IsFiniteSet(rs \ Silent) /\ Writes \subseteq Requests
    BY <1>4, Constants, FS_Difference DEF SendWrites, Sendable
  <2>2. SetToSeq(rs \ Silent) \in Seq(Requests)
    <3>1. SetToSeq(rs \ Silent) \in Seq(rs \ Silent)
      BY <2>1, SetToSeqFacts
    <3>2. rs \ Silent \subseteq Requests
      BY <2>1
    <3> QED
      BY <3>1, <3>2, SeqMonotonic
  <2>3. PICK e \in Calls : calls' = Append(calls, e) /\ e.kind # "drive"
    BY <1>4, <2>2, CallingBackFacts DEF SendWrites
  <2> QED
    BY <1>2, <1>4, <2>3 DEF SendWrites, MayCall
<1>5. ASSUME NEW done \in SUBSET inFlight, Tick(done) \/ Run(done)
      PROVE  Driven'
  <2>1. recorded \o Recorded(done) \in Seq(Requests)
    BY Constants, FetchedFacts, SeqMonotonic
  <2>2. PICK e \in Calls : calls' = Append(calls, e) /\ e.kind # "drive"
    BY <1>5, <2>1, CallingBackFacts DEF Tick, Run
  <2> QED
    BY <1>2, <1>5, <2>2 DEF Tick, Run, MayCall
<1>6. ASSUME NEW rs \in SUBSET Reads, NEW limit \in CycleLimits,
             DriveStarts(rs, limit)
      PROVE  Driven'
  <2>1. /\ ClientTurn /\ rs \cap sent = {} /\ IsFiniteSet(rs)
        /\ completedCount' = 0 /\ sent' = sent /\ inFlight' = inFlight
        /\ driven' = driven
    BY <1>6 DEF DriveStarts, MayCall
  <2>2. PICK e \in Calls :
           /\ calls' = Append(calls, e)
           /\ e.rest = SetToSeq(rs) /\ e.own = {} /\ e.cycles = 0
           /\ e.limit = limit /\ e.left = driven
    BY <1>6, <2>1, DrivingFacts DEF DriveStarts
  <2>3. Distinct(e.rest) /\ ToSet(e.rest) = rs
    BY <2>1, <2>2, SetToSeqFacts
  <2>4. limit \in Nat /\ IsFiniteSet({}) /\ Cardinality({}) = 0
    BY Constants, FS_EmptySet
  <2>5. DriveOK(e)'
    <3>1. /\ e.left \subseteq sent' /\ IsFiniteSet(e.left)
          /\ e.own \cap e.left = {}
      BY <1>0, <2>1, <2>2, FS_Subset DEF Accounted
    <3>2. e.cycles <= e.limit /\ ToSet(e.rest) \cap sent' = {}
      BY <2>1, <2>2, <2>3, <2>4
    <3>3. (e.own \cup e.left) \cap inFlight' = driven'
      BY <1>0, <2>1, <2>2
    <3>5. Cardinality(e.own) + Cardinality(e.left)
            = completedCount' + Cardinality(driven')
      BY <2>1, <2>2, <2>4
    <3>4. e.own \subseteq sent' /\ IsFiniteSet(e.own)
      BY <2>2, <2>4
    <3> QED
      BY <2>3, <3>1, <3>2, <3>3, <3>4, <3>5 DEF DriveOK
  <2> QED
    BY <1>0, <2>1, <2>2, <2>5, ClientTurnFacts, DrivenPush
<1>7. CASE CallbackStarts \/ CallbackReturns \/ (CallbackRaises /\ Top.kind # "writes")
  <2>1. calls # <<>> /\ Top.kind # "drive" /\ Top \in Calls
    BY <1>0, <1>7 DEF CallbackStarts, CallbackReturns, CallbackRaises, InDispatch
  <2>2. PICK e \in Calls : calls' = Append(Below, e) /\ e.kind = Top.kind
    BY <1>7, <2>1, DispatchFacts
    DEF CallbackStarts, CallbackReturns, CallbackRaises
  <2> QED
    BY <1>1, <2>1, <2>2
<1>8. CASE DispatchEnds \/ (CallbackRaises /\ Top.kind = "writes")
  <2>1. calls # <<>> /\ calls' = Below
    BY <1>8 DEF DispatchEnds, CallbackRaises, InDispatch
  <2> QED
    BY <1>0, <2>1, DrivenNone
<1>9. CASE Catch
  BY <1>9 DEF EngineInv, Catch, Driven, DriveOK
<1>10. CASE Drive
  <2>1. calls # <<>> /\ Top.kind = "drive" /\ Top \in Calls
    BY <1>0, <1>10
    DEF Drive, DriveIssues, DriveFilled, DriveTicks, DriveLoops, DriveEnds,
        DrivePhase, InDrive
  <2>2. /\ DriveOK(Top) /\ Top.cycles \in Nat /\ Top.limit \in Nat
        /\ Top.own \subseteq sent /\ IsFiniteSet(Top.own)
        /\ Top.left \subseteq sent /\ IsFiniteSet(Top.left)
        /\ Top.own \cap Top.left = {}
        /\ (Top.own \cup Top.left) \cap inFlight = driven
        /\ Cardinality(Top.own) + Cardinality(Top.left)
              = completedCount + Cardinality(driven)
    BY <2>1, TopDriven, DriveFacts DEF DriveOK
  <2>3. CASE DriveEnds
    <3>1. recorded \in Seq(Requests)
      BY Constants, SeqMonotonic DEF EngineInv, RecordedOnce
    <3>2. PICK e \in Calls : calls' = Append(Below, e) /\ e.kind # "drive"
      BY <2>3, <3>1, CallingBackFacts DEF DriveEnds
    <3> QED
      BY <1>1, <2>1, <3>2
  <2>4. CASE DriveIssues
    <3> DEFINE h == Head(Top.rest)
    <3>1. /\ Top.rest # <<>>
          /\ inFlight' = inFlight \cup {h} /\ driven' = driven \cup {h}
          /\ sent' = sent \cup {h} /\ completedCount' = completedCount
      BY <2>4 DEF DriveIssues, MayIssue
    <3>2. /\ h \notin sent /\ Distinct(Tail(Top.rest))
          /\ ToSet(Top.rest) = {h} \cup ToSet(Tail(Top.rest))
          /\ h \notin ToSet(Tail(Top.rest))
      BY <2>1, <3>1, TopIssues
    <3>3. PICK e \in Calls :
             /\ calls' = Append(Below, e)
             /\ e.rest = Tail(Top.rest) /\ e.own = Top.own \cup {h}
             /\ e.cycles = Top.cycles /\ e.limit = Top.limit
             /\ e.left = Top.left
      BY <2>1, <2>4, <3>1, DriveFacts DEF DriveIssues
    <3> HIDE DEF h
    <3>4. h \notin Top.own /\ h \notin driven
      BY <1>0, <2>2, <3>2
    <3>5. /\ IsFiniteSet(Top.own \cup {h})
          /\ Cardinality(Top.own \cup {h}) = Cardinality(Top.own) + 1
      BY <2>2, <3>4, FS_AddElement
    <3>6. /\ IsFiniteSet(driven) /\ Cardinality(driven) \in Nat
          /\ Cardinality(driven \cup {h}) = Cardinality(driven) + 1
          /\ completedCount \in Nat
      BY <3>4, FS_Subset, FS_AddElement, FS_CardinalityType
      DEF EngineInv, Accounted
    <3>7. Cardinality(Top.own \cup {h}) + Cardinality(Top.left)
            = completedCount + Cardinality(driven \cup {h})
      <4>1. PICK c \in Nat : c = Cardinality(driven)
        BY <3>6
      <4>2. PICK o \in Nat : o = Cardinality(Top.own)
        BY <2>2, FS_CardinalityType
      <4>3. PICK l \in Nat : l = Cardinality(Top.left)
        BY <2>2, FS_CardinalityType
      <4>4. o + l = completedCount + c
        BY <2>2, <4>1, <4>2, <4>3
      <4>5. (o + 1) + l = completedCount + (c + 1)
        BY <3>6, <4>4
      <4> QED
        BY <3>5, <3>6, <4>1, <4>2, <4>3, <4>5
    <3>8. /\ (Top.own \cup {h}) \cap Top.left = {}
          /\ ((Top.own \cup {h}) \cup Top.left) \cap (inFlight \cup {h})
                = driven \cup {h}
      BY <1>0, <2>2, <3>2
    <3>9. DriveOK(e)'
      <4>1. /\ e.own \subseteq sent' /\ e.left \subseteq sent'
            /\ ToSet(e.rest) \cap sent' = {}
        BY <2>2, <3>1, <3>2, <3>3 DEF DriveOK
      <4>2. e.cycles <= e.limit /\ Distinct(e.rest)
        BY <2>2, <3>2, <3>3 DEF DriveOK
      <4>3. IsFiniteSet(e.own) /\ IsFiniteSet(e.left)
        BY <2>2, <3>3, <3>5
      <4> QED
        BY <3>1, <3>3, <3>7, <3>8, <4>1, <4>2, <4>3 DEF DriveOK
    <3> QED
      BY <1>0, <2>1, <3>3, <3>9, DrivenPush
  <2>5. ASSUME NEW done \in SUBSET inFlight, DriveTicks(done)
        PROVE  Driven'
    <3>1. /\ Cycles(done) /\ sent' = sent /\ Top.cycles < Top.limit
      BY <2>5 DEF DriveTicks, MayBatch
    <3>2. /\ inFlight' = inFlight \ done /\ driven' = driven \ done
          /\ completedCount' + Cardinality(driven')
               = completedCount + Cardinality(driven)
      BY <1>0, <3>1, CyclesFacts
    <3>3. PICK e \in Calls :
             /\ calls' = Append(Below, e)
             /\ e.rest = Top.rest /\ e.own = Top.own
             /\ e.cycles = Top.cycles + 1 /\ e.limit = Top.limit
             /\ e.left = Top.left
      BY <2>1, <2>5, DriveFacts DEF DriveTicks
    <3>4. Top.cycles + 1 <= Top.limit
      BY <2>2, <3>1
    <3>5. DriveOK(e)'
      BY <2>2, <3>1, <3>2, <3>3, <3>4 DEF DriveOK
    <3> QED
      BY <1>0, <2>1, <3>3, <3>5, DrivenPush
  <2>6. CASE DriveFilled \/ DriveLoops
    <3>1. PICK e \in Calls :
             /\ calls' = Append(Below, e)
             /\ e.rest = Top.rest /\ e.own = Top.own
             /\ e.cycles = Top.cycles /\ e.limit = Top.limit
             /\ e.left = Top.left
      BY <2>1, <2>6, DriveFacts, ZenonT(40) DEF DriveFilled, DriveLoops, DrivePhase
    <3>2. /\ inFlight' = inFlight /\ driven' = driven /\ sent' = sent
          /\ completedCount' = completedCount
      BY <2>6 DEF DriveFilled, DriveLoops, DrivePhase
    <3>3. DriveOK(e)'
      BY <2>2, <3>1, <3>2 DEF DriveOK
    <3> QED
      BY <1>0, <2>1, <3>1, <3>3, DrivenPush
  <2> QED
    BY <1>10, <2>3, <2>4, <2>5, <2>6 DEF Drive
<1> QED
  BY <1>3, <1>4, <1>5, <1>6, <1>7, <1>8, <1>9, <1>10
  DEF Next, ClientCall, Dispatch

-----------------------------------------------------------------------------
(* The theorems.                                                           *)

\* Counting what two disjoint sets have in common with a third, and what one
\* set has and has not.
CountedApart(A, B, S) ==
    Cardinality((A \cup B) \cap S)
      = Cardinality(A \cap S) + Cardinality(B \cap S)

LEMMA SplitCount ==
    ASSUME NEW A, NEW B, NEW S, IsFiniteSet(A), IsFiniteSet(B), A \cap B = {}
    PROVE  CountedApart(A, B, S)
<1> DEFINE D == (A \cup B) \cap S
<1>1. IsFiniteSet(A \cap S) /\ IsFiniteSet(B \cap S)
  BY FS_Intersection
<1>2. D = (A \cap S) \cup (B \cap S) /\ (A \cap S) \cap (B \cap S) = {}
  OBVIOUS
<1>3. Cardinality(D) = Cardinality(A \cap S) + Cardinality(B \cap S)
                         - Cardinality((A \cap S) \cap (B \cap S))
  BY <1>1, <1>2, FS_Union
<1>4. Cardinality((A \cap S) \cap (B \cap S)) = 0
  BY <1>2, FS_EmptySet
<1>5. Cardinality(A \cap S) \in Nat /\ Cardinality(B \cap S) \in Nat
  BY <1>1, FS_CardinalityType
<1> QED
  BY <1>3, <1>4, <1>5 DEF CountedApart

LEMMA PartCount ==
    ASSUME NEW A, NEW S, IsFiniteSet(A)
    PROVE  Cardinality(A) = Cardinality(A \cap S) + Cardinality(A \ S)
<1>1. /\ Cardinality(A \ S) = Cardinality(A) - Cardinality(A \cap S)
      /\ IsFiniteSet(A \cap S)
  BY FS_Difference, FS_Intersection
<1>2. Cardinality(A) \in Nat /\ Cardinality(A \cap S) \in Nat
  BY <1>1, FS_CardinalityType
<1> QED
  BY <1>1, <1>2

LEMMA InitInv == Init => EngineInv
<1> SUFFICES ASSUME Init PROVE EngineInv
  OBVIOUS
<1>1. IsFiniteSet({}) /\ Cardinality({}) = 0
  BY FS_EmptySet
<1>2. Stacked /\ RecordedOnce
  <2>1. calls = <<>> /\ recorded = <<>> /\ raising = FALSE
    BY DEF Init
  <2>2. calls \in Seq(Calls) /\ recorded \in Seq(Reads)
    BY <2>1
  <2>3. Stacked
    BY <2>1, <2>2 DEF Stacked
  <2>4. RecordedOnce
    BY <2>1, <2>2 DEF RecordedOnce, Distinct, ToSet
  <2> QED
    BY <2>3, <2>4
<1>3. Accounted
  BY <1>1, Constants DEF Init, Accounted
<1>4. Clocked
  <2>1. TickCalls(calls) = {}
    BY DEF Init, TickCalls
  <2> QED
    BY <1>1, <2>1, Constants DEF Init, Clocked
<1>5. HeldOnce /\ Driven
  BY DEF Init, HeldOnce, Apart, Driven
<1>6. Remembered
  BY DEF Init, Remembered
<1> QED
  BY <1>2, <1>3, <1>4, <1>5, <1>6 DEF EngineInv

LEMMA StepInv == EngineInv /\ [Next]_vars => EngineInv'
<1> SUFFICES ASSUME EngineInv, [Next]_vars PROVE EngineInv'
  OBVIOUS
<1>1. CASE Next
  BY <1>1, StackedStep, AccountedStep, ClockedStep, RecordedStep, HeldStep,
     RememberedStep, DrivenStep DEF EngineInv
<1>2. CASE UNCHANGED vars
  BY <1>2 DEF vars, EngineInv, Stacked, Top, Below, AllWait, Waits, Accounted,
              Clocked, RecordedOnce, HeldOnce, HeldOK, Expected, Apart,
              Remembered, AllHeld, Driven, DriveOK, TickCalls
<1> QED
  BY <1>1, <1>2

LEMMA EngineInvariant == Spec => []EngineInv
  BY InitInv, StepInv, PTL DEF Spec

\* Every variable keeps its type; the stack is a stack of calls, and drive()
\* never runs more cycles than max_cycles.
THEOREM TypeCorrect == Spec => []TypeOK
<1>1. EngineInv => TypeOK
  <2> SUFFICES ASSUME EngineInv PROVE TypeOK
    OBVIOUS
  <2>1. ASSUME NEW k \in DOMAIN calls
        PROVE  CallOK(calls[k])
    <3>1. calls[k] \in Calls
      BY DEF EngineInv, Stacked
    <3>2. CASE calls[k] \in Callbacks
      BY <3>2 DEF Callbacks, CallOK
    <3>3. CASE calls[k] \in Drives
      <4>1. DriveOK(calls[k])
        BY <3>3 DEF EngineInv, Driven, Drives
      <4>2. calls[k].cycles \in 0 .. calls[k].limit
        BY <3>3, <4>1, Constants DEF DriveOK, Drives
      <4> QED
        BY <3>3, <4>2 DEF Drives, CallOK
    <3> QED
      BY <3>1, <3>2, <3>3 DEF Calls
  <2> QED
    BY <2>1 DEF EngineInv, TypeOK, Stacked, Accounted, Clocked, RecordedOnce
<1> QED
  BY <1>1, EngineInvariant, PTL

\* Control with a client means nothing is recorded in C++: every call that
\* ticks fetches what it completed before its callbacks run.
THEOREM NothingLeft == Spec => []NothingLeftRecorded
<1>1. EngineInv => NothingLeftRecorded
  BY ClientTurnFacts DEF EngineInv, NothingLeftRecorded
<1> QED
  BY <1>1, EngineInvariant, PTL

\* MemorySystem._clk lags the engine by the ticks whose dispatch is under way
\* or has raised, and by no other call.
THEOREM ClockCorrect == Spec => []ClockAccounted
<1>1. EngineInv => ClockAccounted
  BY DEF EngineInv, Clocked, ClockAccounted, TickCalls
<1> QED
  BY <1>1, EngineInvariant, PTL

\* drive() counts each of its own requests that completes, and each request
\* that an earlier, cut off drive() left in flight, once, and no other.
THEOREM DriveCorrect == Spec => []DriveCountsItsOwn
<1>1. EngineInv => DriveCountsItsOwn
  <2> SUFFICES ASSUME EngineInv, NEW k \in DOMAIN calls,
                      calls[k].kind = "drive"
               PROVE  Cardinality(calls[k].own) - completedCount
                        = Cardinality(calls[k].own \cap inFlight)
                          - Cardinality(calls[k].left \ inFlight)
    BY DEF DriveCountsItsOwn
  <2> DEFINE own == calls[k].own
             left == calls[k].left
  <2>1. /\ IsFiniteSet(own) /\ IsFiniteSet(left) /\ own \cap left = {}
        /\ driven = (own \cup left) \cap inFlight
        /\ Cardinality(own) + Cardinality(left)
              = completedCount + Cardinality(driven)
    BY DEF EngineInv, Driven, DriveOK
  <2> HIDE DEF own, left
  <2>2. PICK o \in Nat : o = Cardinality(own)
    BY <2>1, FS_CardinalityType
  <2>3. PICK l \in Nat : l = Cardinality(left)
    BY <2>1, FS_CardinalityType
  <2>4. PICK f \in Nat : f = Cardinality(own \cap inFlight)
    BY <2>1, FS_Intersection, FS_CardinalityType
  <2>5. PICK g \in Nat : g = Cardinality(left \cap inFlight)
    BY <2>1, FS_Intersection, FS_CardinalityType
  <2>6. PICK d \in Nat : d = Cardinality(left \ inFlight)
    BY <2>1, FS_Difference, FS_CardinalityType
  <2>7. Cardinality(driven) = f + g
    <3>1. CountedApart(own, left, inFlight)
      BY <2>1, SplitCount
    <3> QED
      BY <2>1, <2>4, <2>5, <3>1 DEF CountedApart
  <2>8. l = g + d
    BY <2>1, <2>3, <2>5, <2>6, PartCount
  <2>9. completedCount \in Nat /\ o + l = completedCount + (f + g)
    BY <2>1, <2>2, <2>3, <2>7 DEF EngineInv, Accounted
  <2>10. o - completedCount = f - d
    BY <2>8, <2>9
  <2> QED
    BY <2>2, <2>4, <2>6, <2>10 DEF own, left
<1> QED
  BY <1>1, EngineInvariant, PTL

\* A request occurs in a sequence of distinct requests once or not at all.
LEMMA OccursFacts ==
    ASSUME NEW S, NEW s \in Seq(S), Distinct(s), NEW r
    PROVE  Occurs(r, s) = (IF r \in ToSet(s) THEN 1 ELSE 0)
<1>1. CASE r \in ToSet(s)
  <2>1. PICK k \in DOMAIN s : s[k] = r
    BY <1>1 DEF ToSet
  <2>2. {j \in DOMAIN s : s[j] = r} = {k}
    BY <2>1 DEF Distinct
  <2> QED
    BY <1>1, <2>2, FS_Singleton DEF Occurs
<1>2. CASE r \notin ToSet(s)
  <2>1. {j \in DOMAIN s : s[j] = r} = {}
    BY <1>2 DEF ToSet
  <2> QED
    BY <1>2, <2>1, FS_EmptySet DEF Occurs
<1> QED
  BY <1>1, <1>2

\* The callback of a read runs exactly once: until then the read is in flight,
\* recorded or held by one call, whatever other callbacks raise or call.
THEOREM CallbackOnce == Spec => []ReadsCalledOnce
<1>1. EngineInv => ReadsCalledOnce
  <2> SUFFICES ASSUME EngineInv, NEW r \in (sent \cap Reads) \ Silent
               PROVE  Waiting(r) = (IF r \in called THEN 0 ELSE 1)
    BY DEF ReadsCalledOnce
  <2> DEFINE Holding == {k \in DOMAIN calls : calls[k].kind # "drive"
                                            /\ Occurs(r, calls[k].rest) > 0}
  <2>1. \A k \in DOMAIN calls : /\ r \in HeldBy(calls[k]) => k \in Holding
                                /\ k \in Holding => r \in HeldBy(calls[k])
    <3> SUFFICES ASSUME NEW k \in DOMAIN calls, calls[k].kind # "drive"
                 PROVE  Occurs(r, calls[k].rest) > 0 <=> r \in ToSet(calls[k].rest)
      BY DEF HeldBy
    <3>1. calls[k].rest \in Seq(Requests) /\ Distinct(calls[k].rest)
      BY DEF EngineInv, Stacked, HeldOnce, HeldOK, Calls, Callbacks, Drives
    <3>2. Occurs(r, calls[k].rest) = (IF r \in ToSet(calls[k].rest) THEN 1 ELSE 0)
      BY <3>1, OccursFacts
    <3> QED
      BY <3>2
  <2>2. Occurs(r, recorded) = (IF r \in ToSet(recorded) THEN 1 ELSE 0)
    BY OccursFacts DEF EngineInv, RecordedOnce
  <2>3. Cardinality({r} \cap inFlight) = (IF r \in inFlight THEN 1 ELSE 0)
    <3>1. CASE r \in inFlight
      <4>1. {r} \cap inFlight = {r}
        BY <3>1
      <4> QED
        BY <3>1, <4>1, FS_Singleton
    <3>2. CASE r \notin inFlight
      <4>1. {r} \cap inFlight = {}
        BY <3>2
      <4> QED
        BY <3>2, <4>1, FS_EmptySet
    <3> QED
      BY <3>1, <3>2
  <2>4. Cardinality(Holding) = (IF r \in AllHeld(calls) THEN 1 ELSE 0)
    <3>1. CASE r \in AllHeld(calls)
      <4>1. PICK k \in DOMAIN calls : r \in HeldBy(calls[k])
        BY <3>1 DEF AllHeld
      <4>2. \A j \in DOMAIN calls : r \in HeldBy(calls[j]) => j = k
        BY <4>1 DEF EngineInv, HeldOnce, Apart
      <4>3. Holding \subseteq DOMAIN calls
        OBVIOUS
      <4> HIDE DEF Holding
      <4>4. Holding = {k}
        <5>1. k \in Holding
          BY <2>1, <4>1
        <5>2. \A j \in Holding : j = k
          BY <2>1, <4>2, <4>3
        <5> QED
          BY <5>1, <5>2
      <4> QED
        BY <3>1, <4>4, FS_Singleton
    <3>2. CASE r \notin AllHeld(calls)
      <4>1. Holding = {}
        BY <2>1, <3>2 DEF AllHeld
      <4> QED
        BY <3>2, <4>1, FS_EmptySet
    <3> QED
      BY <3>1, <3>2
  <2>5. /\ r \in AllHeld(calls) => /\ r \notin called /\ r \notin inFlight
                                   /\ r \notin ToSet(recorded)
        /\ r \in ToSet(recorded) => r \notin called /\ r \notin inFlight
        /\ r \in inFlight => r \notin called
        /\ r \in inFlight \cup called \cup ToSet(recorded) \cup AllHeld(calls)
    BY DEF EngineInv, HeldOnce, HeldOK, AllHeld, Expected, RecordedOnce, Remembered
  <2>6. Waiting(r) = Cardinality({r} \cap inFlight) + Occurs(r, recorded)
                     + Cardinality(Holding)
    BY DEF Waiting
  <2> HIDE DEF Holding
  <2> QED
    BY <2>2, <2>3, <2>4, <2>5, <2>6
<1> QED
  BY <1>1, EngineInvariant, PTL

LEMMA PortCardinality ==
    ASSUME NEW S
    PROVE  Port!Cardinality(S) = Cardinality(S)
  BY DEF Port!Cardinality, Cardinality

\* To its clients the engine is a memory port: what it accepts, services and
\* calls back are steps of MemoryPort, everything else is invisible.
THEOREM Refinement == Spec => ImplementsMemoryPort
<1> DEFINE owed == (sent \ Silent) \ called
<1>1. Init => Port!Init
  BY DEF Init, Port!Init
<1>2. EngineInv /\ [Next]_vars => [Port!Next]_(Port!portVars)
  <2> SUFFICES ASSUME EngineInv, [Next]_vars
               PROVE  Port!Next \/ UNCHANGED <<inFlight, owed>>
    BY DEF Port!portVars
  <2>0. /\ Stacked /\ Accounted /\ called \subseteq sent /\ inFlight \subseteq sent
        /\ Reads \subseteq Requests /\ Writes \subseteq Requests
    BY Constants DEF EngineInv, Accounted
  <2>1. ASSUME NEW rs, SendReads(rs) \/ SendWrites(rs) \/ SendRaises(rs)
        PROVE  Port!Next
    <3>0. PICK type \in {Reads, Writes} : Sendable(rs, type)
      BY <2>1 DEF SendReads, SendWrites, SendRaises
    <3>1. /\ rs \in (SUBSET Reads) \cup (SUBSET Writes) /\ rs \cap sent = {}
          /\ Cardinality(inFlight \cup rs) <= Queue
      <4>1. type \in SUBSET Requests
        BY <2>0
      <4>2. rs \subseteq type /\ rs \cap sent = {}
            /\ Cardinality(inFlight \cup rs) <= Queue
        BY <2>0, <3>0, <4>1, AcceptFacts
      <4> QED
        BY <3>0, <4>2
    <3>2. inFlight' = inFlight \cup rs /\ sent' = sent \cup rs /\ called' = called
      BY <2>1 DEF SendReads, SendWrites, SendRaises
    <3>3. rs \cap (inFlight \cup owed) = {} /\ owed' = owed \cup (rs \ Silent)
      BY <2>0, <3>1, <3>2
    <3>4. Port!Accept(rs)
      BY <3>1, <3>2, <3>3, PortCardinality DEF Port!Accept
    <3> QED
      BY <3>1, <3>4 DEF Port!Next
  <2>2. ASSUME NEW done \in SUBSET inFlight,
               Tick(done) \/ Run(done) \/ DriveTicks(done)
        PROVE  Port!Next
    <3>1. Port!Service(done)
      BY <2>2 DEF Tick, Run, DriveTicks, Cycles, Port!Service
    <3> QED
      BY <3>1 DEF Port!Next
  <2>3. CASE CallbackStarts
    <3> DEFINE h == Head(Top.rest)
    <3>1. calls # <<>> /\ Top.kind # "drive" /\ Top.rest # <<>>
      BY <2>3 DEF CallbackStarts, InDispatch
    <3>2. /\ Top.rest \in Seq(Requests) /\ Distinct(Top.rest)
          /\ \A r \in ToSet(Top.rest) : Expected(r)
      BY <3>1, TopHeld DEF Callbacks
    <3>3. h \in ToSet(Top.rest)
      BY <3>1, <3>2, TailFacts
    <3>4. h \in owed /\ (h \in Reads => h \notin inFlight)
      BY <3>2, <3>3 DEF Expected
    <3>5. inFlight' = inFlight /\ sent' = sent /\ called' = called \cup {h}
      BY <2>3 DEF CallbackStarts
    <3>6. owed' = owed \ {h}
      BY <3>5
    <3>7. Port!Notify(h)
      BY <3>4, <3>5, <3>6 DEF Port!Notify
    <3> QED
      BY <3>4, <3>7 DEF Port!Next
  <2>4. CASE DriveIssues
    <3> DEFINE h == Head(Top.rest)
    <3>1. /\ calls # <<>> /\ Top.kind = "drive" /\ Top.rest # <<>>
          /\ inFlight' = inFlight \cup {h} /\ sent' = sent \cup {h}
          /\ called' = called
      BY <2>4 DEF DriveIssues, InDrive, MayIssue
    <3>2. h \in Reads /\ h \notin sent
      BY <3>1, TopIssues
    <3>3. Cardinality(inFlight \cup {h}) <= Queue
      BY <2>4, <3>1, AccountedStep DEF Accounted, Next, Drive
    <3>4. {h} \cap (inFlight \cup owed) = {} /\ owed' = owed \cup ({h} \ Silent)
      BY <2>0, <3>1, <3>2
    <3>5. Port!Accept({h})
      BY <3>1, <3>3, <3>4, PortCardinality DEF Port!Accept
    <3> QED
      BY <3>2, <3>5 DEF Port!Next
  <2>5. CASE \/ CallbackReturns \/ CallbackRaises \/ DispatchEnds \/ Catch
             \/ DriveFilled \/ DriveLoops \/ DriveEnds \/ UNCHANGED vars
             \/ \E rs, limit : DriveStarts(rs, limit)
    BY <2>5 DEF CallbackReturns, CallbackRaises, DispatchEnds, Catch,
                DriveFilled, DriveLoops, DriveEnds, DrivePhase, DriveStarts, vars
  <2> QED
    BY <2>1, <2>2, <2>3, <2>4, <2>5 DEF Next, ClientCall, Dispatch, Drive
<1> QED
  BY <1>1, <1>2, EngineInvariant, PTL DEF Spec, ImplementsMemoryPort, Port!Spec
=============================================================================
