---------------------- MODULE AdmissionCoordinatorProofs ----------------------
(***************************************************************************)
(* Proofs about AdmissionCoordinator, for any number of requests, kinds of *)
(* requests, permits and slots.  One inductive invariant says where every  *)
(* request is: sent and not yet read, queued, in the hand of the           *)
(* coordinator, or answered.  The three invariants of the run follow.      *)
(***************************************************************************)
EXTENDS AdmissionCoordinator, FiniteSetTheorems, WellFoundedInduction, TLAPS

Enqueue(r) == [kind |-> "enqueue", r |-> r]

\* The requests whose Enqueue command lies in the channel q.
SentIn(q) == {r \in Requests : \E i \in DOMAIN q : q[i] = Enqueue(r)}

\* No request is sent twice ...
SentOnce(q) == \A i, j \in DOMAIN q : q[i].kind = "enqueue" /\ q[i] = q[j] => i = j

\* ... and none is queued twice.
NoRepeat(q) == \A i, j \in DOMAIN q : q[i] = q[j] => i = j

QueuesApart ==
  /\ SentOnce(chan) /\ NoRepeat(children) /\ NoRepeat(local)
  /\ ToSet(children) \cap ToSet(local) = {}

\* A request that is sent, queued or in hand is in one of these places and has
\* no answer; one that may still be answered is in one of them.
OnePlace ==
  /\ SentIn(chan) \cap Queued = {}
  /\ inHand \notin SentIn(chan) \cup Queued
  /\ \A r \in SentIn(chan) \cup Queued \cup {inHand} : r \in Requests => reply[r] = "empty"
  /\ \A r \in open : reply[r] = "empty" => r \in SentIn(chan) \cup Queued \cup {inHand}

\* What a caller's position says of its request.
CallersConsistent ==
  \A r \in Requests :
    /\ client[r] = "new" =>
         reply[r] = "empty" /\ r \notin SentIn(chan) \cup Queued \cup {inHand}
    /\ r \in open <=> client[r] \in {"pending", "closing"}
    /\ client[r] = "holding" => reply[r] = "taken"
    /\ reply[r] = "lease" => r \in open

\* What is sent, queued or granted was asked for, and a grant fits the pool.
AsksKnown ==
  /\ \A r \in SentIn(chan) \cup Queued \cup Granted : ask[r] \in Asks
  /\ \A r \in Granted : Width(r) <= Limit

\* Where the thread is.
ThreadConsistent ==
  /\ inHand # NoRequest <=> phase = "deliver"
  /\ phase \in {"ack", "stopped"} => children = <<>> /\ local = <<>>
  /\ phase = "stopped" => chan = <<>>

QueueTypes ==
  /\ chan \in Seq(Commands)
  /\ children \in Seq(Requests) /\ local \in Seq(Requests)
  /\ phase \in {"recv", "drain", "grant", "deliver", "ack", "stopped"}
  /\ inHand \in Requests \cup {NoRequest}
  /\ owner \in {"running", "stopping", "joined"}

CallerTypes ==
  /\ client \in [Requests -> {"new", "pending", "closing", "waking", "cancelling",
                              "holding", "returning", "done"}]
  /\ ask \in [Requests -> Asks \cup {NoAsk}]
  /\ reply \in [Requests -> {"empty", "lease", "error", "taken"}]
  /\ open \in SUBSET Requests
  /\ direct \in {"idle", "waiting", "holding"}
  /\ directLeft \in 0..MaxDirect

\* The places of the requests, whatever the pool holds.
PlaceInv ==
  /\ QueueTypes /\ CallerTypes
  /\ QueuesApart /\ OnePlace /\ CallersConsistent /\ AsksKnown /\ ThreadConsistent
-----------------------------------------------------------------------------
(* Queues.                                                                 *)

\* A set of numbers that holds a number holds a smallest one.
LEMMA Smallest ==
  ASSUME NEW T \in SUBSET Nat, T # {}
  PROVE  \E m \in T : \A n \in T : m <= n
<1> DEFINE R == OpToRel(<, Nat)
<1>1. IsWellFoundedOn(R, Nat)
  BY NatLessThanWellFounded
<1>2. \A x, y \in Nat : y < x => <<y, x>> \in R
  BY DEF OpToRel
<1> HIDE DEF R
<1>3. PICK m \in T : \A n \in T : ~ (<<n, m>> \in R)
  BY <1>1, WFMin
<1>4. \A n \in T : m \in Nat /\ n \in Nat /\ ~(n < m)
  BY <1>2, <1>3
<1> QED BY <1>4

\* push_back adds one request.
LEMMA AppendLaw ==
  ASSUME NEW R, NEW q \in Seq(R), NEW x \in R
  PROVE  /\ Append(q, x) \in Seq(R)
         /\ ToSet(Append(q, x)) = ToSet(q) \cup {x}
         /\ NoRepeat(q) /\ x \notin ToSet(q) => NoRepeat(Append(q, x))
<1> DEFINE n == Len(q)
           p == Append(q, x)
<1>1. n \in Nat /\ DOMAIN q = 1..n /\ p \in Seq(R) /\ DOMAIN p = 1..(n + 1)
  OBVIOUS
<1>2. p[n + 1] = x /\ \A i \in 1..n : p[i] = q[i]
  OBVIOUS
<1> HIDE DEF n, p
<1>3. ToSet(p) = ToSet(q) \cup {x}
  <2>1. ASSUME NEW y \in ToSet(p) PROVE y \in ToSet(q) \cup {x}
    BY <1>1, <1>2 DEF ToSet
  <2>2. ASSUME NEW y \in ToSet(q) PROVE y \in ToSet(p)
    BY <1>1, <1>2 DEF ToSet
  <2>3. x \in ToSet(p)
    <3>1. n + 1 \in DOMAIN p
      BY <1>1
    <3> QED BY <1>2, <3>1 DEF ToSet
  <2> QED BY <2>1, <2>2, <2>3
<1>4. NoRepeat(q) /\ x \notin ToSet(q) => NoRepeat(p)
  BY <1>1, <1>2 DEF NoRepeat, ToSet
<1> QED BY <1>1, <1>3, <1>4 DEF p

\* pop_front takes away the first request.
LEMMA TailLaw ==
  ASSUME NEW R, NEW q \in Seq(R), q # <<>>
  PROVE  /\ Head(q) \in ToSet(q) /\ Head(q) \in R
         /\ Tail(q) \in Seq(R)
         /\ NoRepeat(q) => /\ NoRepeat(Tail(q))
                           /\ ToSet(Tail(q)) = ToSet(q) \ {Head(q)}
<1> DEFINE n == Len(q)
           p == Tail(q)
<1>1. /\ n \in Nat /\ n # 0 /\ DOMAIN q = 1..n
      /\ p \in Seq(R) /\ DOMAIN p = 1..(n - 1)
  OBVIOUS
<1>2. Head(q) = q[1] /\ \A i \in 1..(n - 1) : p[i] = q[i + 1]
  OBVIOUS
<1>3. 1 \in DOMAIN q /\ q[1] \in R
  BY <1>1
<1> HIDE DEF n, p
<1>4. NoRepeat(q) => NoRepeat(p)
  <2>1. SUFFICES ASSUME NoRepeat(q), NEW i \in DOMAIN p, NEW j \in DOMAIN p, p[i] = p[j]
                 PROVE  i = j
    BY DEF NoRepeat
  <2>2. i + 1 \in DOMAIN q /\ j + 1 \in DOMAIN q /\ q[i + 1] = q[j + 1]
    BY <1>1, <1>2, <2>1
  <2>3. i + 1 = j + 1
    BY <2>1, <2>2 DEF NoRepeat
  <2> QED BY <1>1, <2>3
<1>5. ASSUME NoRepeat(q) PROVE ToSet(p) = ToSet(q) \ {q[1]}
  <2>1. ASSUME NEW y \in ToSet(p) PROVE y \in ToSet(q) /\ y # q[1]
    <3>1. PICK i \in 1..(n - 1) : y = p[i]
      BY <1>1 DEF ToSet
    <3>2. i + 1 \in 1..n /\ i + 1 # 1 /\ y = q[i + 1]
      BY <1>1, <1>2, <3>1
    <3> QED BY <1>1, <1>3, <1>5, <3>2 DEF NoRepeat, ToSet
  <2>2. ASSUME NEW y \in ToSet(q), y # q[1] PROVE y \in ToSet(p)
    <3>1. PICK i \in 1..n : y = q[i]
      BY <1>1 DEF ToSet
    <3>2. i - 1 \in 1..(n - 1) /\ p[i - 1] = q[(i - 1) + 1] /\ (i - 1) + 1 = i
      BY <1>1, <1>2, <2>2, <3>1
    <3> QED BY <1>1, <3>1, <3>2 DEF ToSet
  <2> QED BY <2>1, <2>2
<1>6. Head(q) \in ToSet(q) /\ Head(q) \in R
  <2>1. q[1] \in ToSet(q)
    BY <1>3 DEF ToSet
  <2> QED BY <1>2, <1>3, <2>1
<1> QED BY <1>1, <1>2, <1>4, <1>5, <1>6 DEF p

\* The first i elements of q, those outside S left out.
Step(q, S, g, i) ==
  IF i = 0 THEN <<>>
  ELSE IF q[i] \in S THEN Append(g[i - 1], q[i]) ELSE g[i - 1]

\* The recursion in Retain has a solution: a smallest length without one would
\* be one step behind a length that has one.
LEMMA RetainExists ==
  ASSUME NEW R, NEW q \in Seq(R), NEW S
  PROVE  \E g : g = [i \in 0..Len(q) |-> Step(q, S, g, i)]
<1> DEFINE Solves(g, n) == g = [i \in 0..n |-> Step(q, S, g, i)]
           T == {n \in 0..Len(q) : \A g : ~ Solves(g, n)}
<1>1. SUFFICES ASSUME T # {} PROVE FALSE
  OBVIOUS
<1>2. PICK m \in T : \A n \in T : m <= n
  <2>1. T \in SUBSET Nat
    OBVIOUS
  <2> HIDE DEF T
  <2> QED BY <1>1, <2>1, Smallest
<1>3. m # 0
  <2>1. Solves([i \in 0..0 |-> <<>>], 0)
    BY DEF Step
  <2> QED BY <2>1
<1>4. m - 1 \in 0..Len(q) /\ m \in 1..Len(q)
  BY <1>3
<1>5. PICK g : Solves(g, m - 1)
  BY <1>2, <1>4
<1> DEFINE h == [i \in 0..m |-> IF i = m THEN Step(q, S, g, m) ELSE g[i]]
<1>6. \A i \in 0..m : Step(q, S, h, i) = Step(q, S, g, i)
  BY <1>4 DEF Step
<1>7. \A i \in 0..(m - 1) : g[i] = Step(q, S, g, i)
  BY <1>5
<1>8. \A i \in 0..m : h[i] = Step(q, S, h, i)
  BY <1>4, <1>6, <1>7
<1>9. Solves(h, m)
  BY <1>8
<1> QED BY <1>9

\* Retain keeps the requests of S, and keeps them apart.
LEMMA RetainLaw ==
  ASSUME NEW R, NEW q \in Seq(R), NEW S
  PROVE  /\ Retain(q, S) \in Seq(R)
         /\ ToSet(Retain(q, S)) = ToSet(q) \cap S
         /\ NoRepeat(q) => NoRepeat(Retain(q, S))
<1> DEFINE f == CHOOSE g : g = [i \in 0..Len(q) |-> Step(q, S, g, i)]
<1>1. Retain(q, S) = f[Len(q)]
  BY DEF Retain, Step
<1>2. f = [i \in 0..Len(q) |-> Step(q, S, f, i)]
  BY RetainExists
<1> HIDE DEF f
<1>3. \A i \in 0..Len(q) : f[i] = Step(q, S, f, i)
  BY <1>2
<1> DEFINE Good(n) == /\ f[n] \in Seq(R)
                      /\ ToSet(f[n]) = {q[i] : i \in 1..n} \cap S
                      /\ NoRepeat(q) => NoRepeat(f[n])
           T == {n \in 0..Len(q) : ~ Good(n)}
<1>4. \A n \in 0..Len(q) : n \in T <=> ~ Good(n)
  OBVIOUS
<1>5. T \in SUBSET (0..Len(q))
  OBVIOUS
<1>6. T = {}
  <2>1. SUFFICES ASSUME T # {} PROVE FALSE
    OBVIOUS
  <2>2. PICK m \in T : \A n \in T : m <= n
    <3>1. T \in SUBSET Nat
      BY <1>5
    <3> HIDE DEF T
    <3> QED BY <2>1, <3>1, Smallest
  <2>3. m \in 0..Len(q) /\ ~ Good(m)
    OBVIOUS
  <2>4. m # 0
    <3>1. SUFFICES ASSUME m = 0 PROVE Good(0)
      BY <2>3
    <3>2. f[0] = <<>>
      BY <1>3 DEF Step
    <3> QED BY <3>2 DEF ToSet, NoRepeat
  <2>5. m - 1 \in 0..Len(q) /\ m \in 1..Len(q) /\ q[m] \in R
    BY <2>3, <2>4
  <2>6. Good(m - 1)
    <3> HIDE DEF Good, T
    <3>1. m - 1 \notin T
      BY <1>5, <2>2, <2>3, <2>5
    <3> QED BY <1>4, <2>5, <3>1
  <2>7. Good(m)
    <3>1. CASE q[m] \in S
      <4>1. f[m] = Append(f[m - 1], q[m])
        <5>1. f[m] = Step(q, S, f, m)
          BY <1>3, <2>3
        <5> QED BY <2>4, <3>1, <5>1 DEF Step
      <4>2. f[m] \in Seq(R)
        BY <2>5, <2>6, <4>1
      <4>3. ToSet(f[m]) = ToSet(f[m - 1]) \cup {q[m]}
        BY <2>5, <2>6, <4>1, AppendLaw
      <4>4. ToSet(f[m]) = {q[i] : i \in 1..m} \cap S
        BY <2>5, <2>6, <3>1, <4>3
      <4>5. NoRepeat(q) => NoRepeat(f[m])
        <5>1. SUFFICES ASSUME NoRepeat(q) PROVE NoRepeat(f[m])
          OBVIOUS
        <5>2. q[m] \notin ToSet(f[m - 1])
          BY <2>5, <2>6, <5>1 DEF NoRepeat
        <5> QED BY <2>5, <2>6, <4>1, <5>1, <5>2 DEF NoRepeat, ToSet
      <4> QED BY <4>2, <4>4, <4>5
    <3>2. CASE q[m] \notin S
      <4>1. f[m] = f[m - 1]
        BY <1>3, <2>5, <3>2 DEF Step
      <4>2. {q[i] : i \in 1..m} \cap S = {q[i] : i \in 1..(m - 1)} \cap S
        BY <2>5, <3>2
      <4> QED BY <2>6, <4>1, <4>2
    <3> QED BY <3>1, <3>2
  <2> QED BY <2>3, <2>7
<1>7. Good(Len(q))
  <2>1. Len(q) \in 0..Len(q)
    OBVIOUS
  <2> HIDE DEF Good, T
  <2> QED BY <1>4, <1>6, <2>1
<1>8. {q[i] : i \in 1..Len(q)} = ToSet(q)
  BY DEF ToSet
<1> QED BY <1>1, <1>7, <1>8

\* A command that names no new request leaves the sent ones alone.
LEMMA PostLaw ==
  ASSUME NEW q \in Seq(Commands), NEW c \in Commands
  PROVE  /\ Append(q, c) \in Seq(Commands)
         /\ c.kind # "enqueue" /\ SentOnce(q) =>
              SentOnce(Append(q, c)) /\ SentIn(Append(q, c)) = SentIn(q)
         /\ \A r \in Requests :
              c = Enqueue(r) /\ r \notin SentIn(q) /\ SentOnce(q) =>
                SentOnce(Append(q, c)) /\ SentIn(Append(q, c)) = SentIn(q) \cup {r}
<1> DEFINE n == Len(q)
           p == Append(q, c)
<1>1. n \in Nat /\ DOMAIN q = 1..n /\ p \in Seq(Commands) /\ DOMAIN p = 1..(n + 1)
  OBVIOUS
<1>2. p[n + 1] = c /\ \A i \in 1..n : p[i] = q[i]
  OBVIOUS
<1> HIDE DEF n, p
<1>3. ASSUME c.kind # "enqueue", SentOnce(q)
      PROVE  SentOnce(p) /\ SentIn(p) = SentIn(q)
  <2>1. SentOnce(p)
    BY <1>1, <1>2, <1>3 DEF SentOnce
  <2>2. \A r : c # Enqueue(r)
    BY <1>3 DEF Enqueue
  <2>3. \A r : (\E i \in DOMAIN p : p[i] = Enqueue(r)) <=> (\E i \in DOMAIN q : q[i] = Enqueue(r))
    BY <1>1, <1>2, <2>2
  <2> QED BY <2>1, <2>3 DEF SentIn
<1>4. ASSUME NEW r \in Requests, c = Enqueue(r), r \notin SentIn(q), SentOnce(q)
      PROVE  SentOnce(p) /\ SentIn(p) = SentIn(q) \cup {r}
  <2>1. \A i \in DOMAIN q : q[i] # c
    BY <1>4 DEF SentIn
  <2>2. SentOnce(p)
    BY <1>1, <1>2, <1>4, <2>1 DEF SentOnce
  <2>3. \A s : c = Enqueue(s) <=> s = r
    BY <1>4 DEF Enqueue
  <2>4. \A s : (\E i \in DOMAIN p : p[i] = Enqueue(s))
               <=> (\E i \in DOMAIN q : q[i] = Enqueue(s)) \/ s = r
    <3>1. n + 1 \in DOMAIN p
      BY <1>1
    <3>2. \A s : (\E i \in DOMAIN q : q[i] = Enqueue(s)) => (\E i \in DOMAIN p : p[i] = Enqueue(s))
      BY <1>1, <1>2
    <3> QED BY <1>1, <1>2, <2>3, <3>1, <3>2
  <2> QED BY <2>2, <2>4 DEF SentIn
<1> QED BY <1>1, <1>3, <1>4 DEF p

\* The first command is read.
LEMMA ReadLaw ==
  ASSUME NEW q \in Seq(Commands), q # <<>>, SentOnce(q)
  PROVE  /\ Head(q) \in Commands /\ Tail(q) \in Seq(Commands)
         /\ SentOnce(Tail(q))
         /\ Head(q).kind # "enqueue" => SentIn(Tail(q)) = SentIn(q)
         /\ \A r \in Requests : Head(q) = Enqueue(r) =>
              r \in SentIn(q) /\ SentIn(Tail(q)) = SentIn(q) \ {r}
<1> DEFINE n == Len(q)
           p == Tail(q)
           c == Head(q)
<1>1. /\ n \in Nat /\ n # 0 /\ DOMAIN q = 1..n /\ c \in Commands
      /\ p \in Seq(Commands) /\ DOMAIN p = 1..(n - 1)
  OBVIOUS
<1>2. c = q[1] /\ \A i \in 1..(n - 1) : p[i] = q[i + 1]
  OBVIOUS
<1>3. 1 \in DOMAIN q /\ \A i \in DOMAIN p : i + 1 \in DOMAIN q /\ i + 1 # 1
  BY <1>1
<1>4. \A i \in DOMAIN q : i # 1 => i - 1 \in 1..(n - 1) /\ q[i] = p[i - 1]
  <2>1. SUFFICES ASSUME NEW i \in 1..n, i # 1
                 PROVE  i - 1 \in 1..(n - 1) /\ q[i] = p[i - 1]
    BY <1>1
  <2>2. i - 1 \in 1..(n - 1) /\ (i - 1) + 1 = i
    BY <1>1, <2>1
  <2> QED BY <1>2, <2>2
<1> HIDE DEF n, p, c
<1>5. SentOnce(p)
  <2>1. SUFFICES ASSUME NEW i \in DOMAIN p, NEW j \in DOMAIN p,
                        p[i].kind = "enqueue", p[i] = p[j]
                 PROVE  i = j
    BY DEF SentOnce
  <2>2. /\ i + 1 \in DOMAIN q /\ j + 1 \in DOMAIN q
        /\ q[i + 1] = q[j + 1] /\ q[i + 1].kind = "enqueue"
    BY <1>1, <1>2, <2>1
  <2>3. i + 1 = j + 1
    BY <2>2 DEF SentOnce
  <2> QED BY <1>1, <2>3
<1>6. \A r : (\E i \in DOMAIN q : q[i] = Enqueue(r))
             <=> c = Enqueue(r) \/ (\E i \in DOMAIN p : p[i] = Enqueue(r))
  <2>1. \A i \in DOMAIN p : i + 1 \in DOMAIN q /\ p[i] = q[i + 1]
    BY <1>1, <1>2, <1>3
  <2>2. \A i \in DOMAIN q : i = 1 \/ (i - 1 \in DOMAIN p /\ q[i] = p[i - 1])
    BY <1>1, <1>4
  <2> QED BY <1>2, <1>3, <2>1, <2>2
<1>7. c.kind # "enqueue" => SentIn(p) = SentIn(q)
  <2>1. c.kind # "enqueue" => \A r : c # Enqueue(r)
    BY DEF Enqueue
  <2> QED BY <1>6, <2>1 DEF SentIn
<1>8. ASSUME NEW r \in Requests, c = Enqueue(r)
      PROVE  r \in SentIn(q) /\ SentIn(p) = SentIn(q) \ {r}
  <2>1. \A s : c = Enqueue(s) <=> s = r
    BY <1>8 DEF Enqueue
  <2>2. \A i \in DOMAIN p : p[i] # Enqueue(r)
    <3>1. q[1].kind = "enqueue"
      BY <1>2, <1>8 DEF Enqueue
    <3>2. \A j \in DOMAIN q : q[1] = q[j] => 1 = j
      BY <1>3, <3>1 DEF SentOnce
    <3> QED BY <1>1, <1>2, <1>3, <1>8, <3>2
  <2> QED BY <1>6, <2>1, <2>2 DEF SentIn
<1> QED BY <1>1, <1>5, <1>7, <1>8 DEF p, c

\* An empty channel holds no request.
LEMMA EmptyLaw == SentIn(<<>>) = {} /\ SentOnce(<<>>) /\ NoRepeat(<<>>) /\ ToSet(<<>>) = {}
BY DEF SentIn, SentOnce, NoRepeat, ToSet

\* The four commands.
LEMMA CommandLaw ==
  /\ \A r \in Requests : Enqueue(r) \in Commands /\ [kind |-> "cancel", r |-> r] \in Commands
  /\ LeaseReturned \in Commands /\ [kind |-> "shutdown"] \in Commands
  /\ \A c \in Commands :
       /\ c.kind \in {"enqueue", "cancel", "leaseReturned", "shutdown"}
       /\ c.kind = "enqueue" => c.r \in Requests /\ c = Enqueue(c.r)
       /\ c.kind = "cancel" => c.r \in Requests
<1>1. \A r \in Requests : Enqueue(r) \in Commands /\ [kind |-> "cancel", r |-> r] \in Commands
  BY DEF Enqueue, Commands
<1>2. LeaseReturned \in Commands /\ [kind |-> "shutdown"] \in Commands
  BY DEF LeaseReturned, Commands
<1>3. ASSUME NEW c \in Commands
      PROVE  /\ c.kind \in {"enqueue", "cancel", "leaseReturned", "shutdown"}
             /\ c.kind = "enqueue" => c.r \in Requests /\ c = Enqueue(c.r)
             /\ c.kind = "cancel" => c.r \in Requests
  BY DEF Enqueue, Commands
<1> QED BY <1>1, <1>2, <1>3
-----------------------------------------------------------------------------
(* Every action keeps the requests in their places.                        *)

\* At first no request is anywhere.
LEMMA InitPlaces == Init => PlaceInv
<1> SUFFICES ASSUME Init PROVE PlaceInv
  OBVIOUS
<1>1. SentIn(chan) = {} /\ Queued = {} /\ QueuesApart
  BY EmptyLaw DEF Init, Queued, QueuesApart
<1>2. QueueTypes
  BY DEF Init, QueueTypes
<1>3. CallerTypes
  BY AdmissionAssumption DEF Init, CallerTypes
<1>4. Granted = {}
  BY AdmissionAssumption DEF Init, Granted
<1>5. OnePlace
  BY <1>1, AdmissionAssumption DEF Init, OnePlace
<1>6. CallersConsistent
  BY <1>1, AdmissionAssumption DEF Init, CallersConsistent
<1>7. AsksKnown /\ ThreadConsistent
  BY <1>1, <1>4 DEF Init, AsksKnown, ThreadConsistent
<1> QED BY <1>1, <1>2, <1>3, <1>5, <1>6, <1>7 DEF PlaceInv

\* A submitted request goes from its caller to the channel, or is failed at once
\* when the thread has ended.
LEMMA SubmitPlaces ==
  ASSUME PlaceInv, NEW r \in Requests, Submit(r)
  PROVE  PlaceInv' /\ Granted' = Granted /\ \A s \in Granted : ask'[s] = ask[s]
<1> USE DEF PlaceInv
<1>1. /\ client[r] = "new" /\ reply[r] = "empty" /\ r \notin open
      /\ r \notin SentIn(chan) \cup Queued \cup {inHand}
      /\ r \notin Granted
  BY DEF Submit, CallersConsistent, Granted, CallerTypes
<1>2. UNCHANGED <<children, local, phase, inHand, owner, reply, direct, directLeft>> /\ Queued' = Queued
  BY DEF Submit, coordVars, directVars, Queued
<1>3. CASE phase = "stopped"
  <2>1. /\ client' = [client EXCEPT ![r] = "done"] /\ ask' = [ask EXCEPT ![r] = NoAsk]
        /\ UNCHANGED <<open, chan>>
    BY <1>3 DEF Submit, Goes, Post
  <2>2. QueueTypes' /\ QueuesApart' /\ ThreadConsistent'
    BY <1>2, <2>1 DEF QueueTypes, QueuesApart, ThreadConsistent
  <2>3. CallerTypes'
    BY <1>2, <2>1 DEF CallerTypes
  <2>4. SentIn(chan') = SentIn(chan)
    BY <2>1
  <2>5. OnePlace'
    BY <1>2, <2>1, <2>4 DEF OnePlace
  <2>6. CallersConsistent'
    BY <1>1, <1>2, <2>1, <2>4 DEF CallersConsistent, CallerTypes
  <2>7. Granted' = Granted
    BY <1>1, <1>2, <2>1 DEF Granted, CallerTypes
  <2>8. AsksKnown'
    BY <1>1, <1>2, <2>1, <2>4, <2>7 DEF AsksKnown, CallerTypes, Width, Granted
  <2>9. \A s \in Granted : ask'[s] = ask[s]
    BY <1>1, <2>1 DEF CallerTypes, Granted
  <2> QED BY <2>2, <2>3, <2>5, <2>6, <2>7, <2>8, <2>9
<1>4. CASE phase # "stopped"
  <2>1. PICK a \in Asks : ask' = [ask EXCEPT ![r] = a]
    BY <1>4 DEF Submit
  <2>2. /\ client' = [client EXCEPT ![r] = "pending"]
        /\ open' = open \cup {r} /\ chan' = Append(chan, Enqueue(r))
    BY <1>4 DEF Submit, Goes, Post, Enqueue
  <2>3. chan' \in Seq(Commands) /\ SentOnce(chan') /\ SentIn(chan') = SentIn(chan) \cup {r}
    <3>1. Enqueue(r) \in Commands /\ chan \in Seq(Commands) /\ SentOnce(chan) /\ r \notin SentIn(chan)
      BY <1>1, CommandLaw DEF QueueTypes, QueuesApart
    <3> QED BY <2>2, <3>1, PostLaw
  <2>4. QueueTypes' /\ QueuesApart' /\ ThreadConsistent'
    BY <1>2, <1>4, <2>3 DEF QueueTypes, QueuesApart, ThreadConsistent
  <2>5. CallerTypes'
    BY <1>2, <2>1, <2>2 DEF CallerTypes
  <2>6. OnePlace'
    BY <1>1, <1>2, <2>2, <2>3 DEF OnePlace
  <2>7. CallersConsistent'
    BY <1>1, <1>2, <2>2, <2>3 DEF CallersConsistent, CallerTypes
  <2>8. Granted' = Granted
    BY <1>1, <1>2, <2>2 DEF Granted, CallerTypes
  <2>9. AsksKnown'
    BY <1>1, <1>2, <2>1, <2>3, <2>8 DEF AsksKnown, CallerTypes, Width, Granted
  <2>10. \A s \in Granted : ask'[s] = ask[s]
    BY <1>1, <2>1 DEF CallerTypes, Granted
  <2> QED BY <2>4, <2>5, <2>6, <2>7, <2>8, <2>9, <2>10
<1> QED BY <1>3, <1>4

\* A command that names no new request: a cancellation, a returned lease or the
\* shutdown.
LEMMA PostKeeps ==
  ASSUME PlaceInv, NEW c \in Commands, c.kind # "enqueue", Post(c)
  PROVE  /\ chan' \in Seq(Commands) /\ SentOnce(chan') /\ SentIn(chan') = SentIn(chan)
         /\ phase = "stopped" => chan' = chan
<1>1. chan \in Seq(Commands) /\ SentOnce(chan)
  BY DEF PlaceInv, QueueTypes, QueuesApart
<1>2. CASE phase = "stopped"
  BY <1>1, <1>2 DEF Post
<1>3. CASE phase # "stopped"
  BY <1>1, <1>3, PostLaw DEF Post
<1> QED BY <1>2, <1>3

\* The coordinator's state apart from the channel is left alone, and the
\* requests that are sent stay the same.
LEMMA QueuesKept ==
  ASSUME PlaceInv, UNCHANGED <<children, local, phase, inHand>>,
         owner' \in {"running", "stopping", "joined"},
         chan' \in Seq(Commands), SentOnce(chan'), SentIn(chan') = SentIn(chan),
         phase = "stopped" => chan' = chan
  PROVE  QueueTypes' /\ QueuesApart' /\ ThreadConsistent' /\ Queued' = Queued
BY DEF PlaceInv, QueueTypes, QueuesApart, ThreadConsistent, Queued

\* A caller takes an answer that was there.
LEMMA ReceivePlaces ==
  ASSUME PlaceInv, NEW r \in Requests, Receive(r)
  PROVE  PlaceInv' /\ Granted' = Granted
<1> USE DEF PlaceInv
<1>1. UNCHANGED <<chan, children, local, phase, inHand, owner, ask, direct, directLeft>>
  BY DEF Receive, coordVars, directVars
<1>2. /\ client[r] = "pending" /\ reply[r] # "empty"
      /\ client' = [client EXCEPT ![r] = IF reply[r] = "lease" THEN "holding" ELSE "done"]
      /\ reply' = [reply EXCEPT ![r] = "taken"] /\ open' = open \ {r}
  BY DEF Receive, Goes
<1>3. QueueTypes' /\ QueuesApart' /\ ThreadConsistent' /\ Queued' = Queued
  BY <1>1, QueuesKept DEF QueueTypes, QueuesApart
<1>4. SentIn(chan') = SentIn(chan)
  BY <1>1
<1>5. r \notin SentIn(chan) \cup Queued \cup {inHand}
  BY <1>2 DEF OnePlace
<1>6. CallerTypes'
  BY <1>1, <1>2 DEF CallerTypes
<1>7. OnePlace'
  BY <1>1, <1>2, <1>3, <1>4, <1>5 DEF OnePlace, CallerTypes
<1>8. CallersConsistent'
  BY <1>1, <1>2, <1>3, <1>4, <1>5 DEF CallersConsistent, CallerTypes
<1>9. Granted' = Granted
  BY <1>1, <1>2, <1>5 DEF Granted, CallerTypes
<1>10. AsksKnown'
  BY <1>1, <1>3, <1>4, <1>9 DEF AsksKnown, Width
<1> QED BY <1>3, <1>6, <1>7, <1>8, <1>9, <1>10

\* A closed receiver drops the lease that lay in it.
LEMMA ClosePlaces ==
  ASSUME PlaceInv, NEW r \in Requests, Close(r)
  PROVE  /\ PlaceInv'
         /\ reply[r] = "lease" => r \in Granted /\ Granted' = Granted \ {r}
         /\ reply[r] # "lease" => Granted' = Granted
<1> USE DEF PlaceInv
<1>1. UNCHANGED <<chan, children, local, phase, inHand, owner, ask, direct, directLeft>>
  BY DEF Close, coordVars, directVars
<1>2. /\ client[r] \in {"pending", "closing"}
      /\ client' = [client EXCEPT ![r] =
           CASE client[r] = "pending" /\ reply[r] = "lease"    -> "waking"
             [] client[r] = "pending" /\ ~(reply[r] = "lease") -> "cancelling"
             [] client[r] = "closing" /\ reply[r] = "lease"    -> "returning"
             [] client[r] = "closing" /\ ~(reply[r] = "lease") -> "done"]
      /\ reply' = [reply EXCEPT ![r] = IF @ = "empty" THEN "empty" ELSE "taken"]
      /\ open' = open \ {r}
  BY DEF Close, Goes
<1>3. PICK x \in {"waking", "cancelling", "returning", "done"} : client' = [client EXCEPT ![r] = x]
  BY <1>2
<1>4. QueueTypes' /\ QueuesApart' /\ ThreadConsistent' /\ Queued' = Queued
  BY <1>1, QueuesKept DEF QueueTypes, QueuesApart
<1>5. SentIn(chan') = SentIn(chan)
  BY <1>1
<1>6. CallerTypes'
  BY <1>1, <1>2, <1>3 DEF CallerTypes
<1>7. OnePlace'
  BY <1>1, <1>2, <1>4, <1>5 DEF OnePlace, CallerTypes
<1>8. CallersConsistent'
  BY <1>1, <1>2, <1>3, <1>4, <1>5 DEF CallersConsistent, CallerTypes
<1>9. reply[r] = "lease" => inHand # r
  BY DEF OnePlace
<1>10. /\ reply[r] = "lease" => r \in Granted /\ Granted' = Granted \ {r}
       /\ reply[r] # "lease" => Granted' = Granted
  BY <1>1, <1>2, <1>3, <1>9 DEF Granted, CallerTypes
<1>11. AsksKnown'
  BY <1>1, <1>4, <1>5, <1>10 DEF AsksKnown, Width
<1> QED BY <1>4, <1>6, <1>7, <1>8, <1>10, <1>11

\* A caller past its answer or its cancellation moves on and may tell the
\* coordinator, without a change to its reply.
LEMMA MovePlaces ==
  ASSUME PlaceInv, NEW r \in Requests,
         NEW x \in {"closing", "cancelling", "returning", "done"},
         client[r] \notin {"new", "closing"}, client[r] = "pending" <=> x = "closing",
         client' = [client EXCEPT ![r] = x],
         UNCHANGED <<children, local, phase, inHand, owner, ask, reply, open, direct, directLeft>>,
         chan' \in Seq(Commands), SentOnce(chan'), SentIn(chan') = SentIn(chan),
         phase = "stopped" => chan' = chan
  PROVE  /\ PlaceInv'
         /\ client[r] = "holding" => r \in Granted /\ Granted' = Granted \ {r}
         /\ client[r] # "holding" => Granted' = Granted
<1> USE DEF PlaceInv
<1>1. QueueTypes' /\ QueuesApart' /\ ThreadConsistent' /\ Queued' = Queued
  BY QueuesKept DEF QueueTypes
<1>2. CallerTypes'
  BY DEF CallerTypes
<1>3. OnePlace'
  BY <1>1 DEF OnePlace
<1>4. CallersConsistent'
  BY <1>1 DEF CallersConsistent, CallerTypes
<1>5. client[r] = "holding" => reply[r] = "taken" /\ inHand # r
  BY DEF CallersConsistent, OnePlace
<1>6. /\ client[r] = "holding" => r \in Granted /\ Granted' = Granted \ {r}
      /\ client[r] # "holding" => Granted' = Granted
  BY <1>5 DEF Granted, CallerTypes
<1>7. AsksKnown'
  BY <1>1, <1>6 DEF AsksKnown, Width
<1> QED BY <1>1, <1>2, <1>3, <1>4, <1>6, <1>7

\* The Cancel behind a dropped handle moves no request.
LEMMA PostCancelPlaces ==
  ASSUME PlaceInv, NEW r \in Requests, PostCancel(r)
  PROVE  PlaceInv' /\ Granted' = Granted
<1> DEFINE c == [kind |-> "cancel", r |-> r]
<1>1. c \in Commands /\ c.kind # "enqueue" /\ Post(c)
  BY CommandLaw DEF PostCancel
<1> HIDE DEF c
<1>2. /\ chan' \in Seq(Commands) /\ SentOnce(chan') /\ SentIn(chan') = SentIn(chan)
      /\ phase = "stopped" => chan' = chan
  BY <1>1, PostKeeps
<1>3. /\ client[r] \in {"pending", "cancelling"}
      /\ client' = [client EXCEPT ![r] = IF client[r] = "pending" THEN "closing" ELSE "done"]
      /\ UNCHANGED <<children, local, phase, inHand, owner, ask, reply, open, direct, directLeft>>
  BY DEF PostCancel, Goes, coordVars, directVars
<1> DEFINE x == IF client[r] = "pending" THEN "closing" ELSE "done"
<1>4. x \in {"closing", "cancelling", "returning", "done"} /\ (client[r] = "pending" <=> x = "closing")
  BY <1>3
<1>5. client' = [client EXCEPT ![r] = x]
  BY <1>3
<1> HIDE DEF x
<1> QED BY <1>2, <1>3, <1>4, <1>5, MovePlaces

\* A caller that returns its lease is not waiting any more.
LEMMA ReturnLeasePlaces ==
  ASSUME PlaceInv, NEW r \in Requests, ReturnLease(r)
  PROVE  PlaceInv' /\ r \in Granted /\ Granted' = Granted \ {r}
<1>1. chan \in Seq(Commands) /\ SentOnce(chan)
  BY DEF PlaceInv, QueueTypes, QueuesApart
<1>2. /\ client[r] = "holding" /\ client' = [client EXCEPT ![r] = "returning"]
      /\ UNCHANGED <<chan, children, local, phase, inHand, owner, ask, reply, open, direct, directLeft>>
  BY DEF ReturnLease, Goes, coordVars, directVars
<1> QED BY <1>1, <1>2, MovePlaces

\* LeaseReturned moves no request.
LEMMA PostReturnedPlaces ==
  ASSUME PlaceInv, NEW r \in Requests, PostReturned(r)
  PROVE  PlaceInv' /\ Granted' = Granted
<1>1. LeaseReturned \in Commands /\ LeaseReturned.kind # "enqueue" /\ Post(LeaseReturned)
  BY CommandLaw DEF PostReturned, LeaseReturned
<1>2. /\ chan' \in Seq(Commands) /\ SentOnce(chan') /\ SentIn(chan') = SentIn(chan)
      /\ phase = "stopped" => chan' = chan
  BY <1>1, PostKeeps
<1>3. /\ client[r] \in {"returning", "waking"}
      /\ client' = [client EXCEPT ![r] = IF client[r] = "waking" THEN "cancelling" ELSE "done"]
      /\ UNCHANGED <<children, local, phase, inHand, owner, ask, reply, open, direct, directLeft>>
  BY DEF PostReturned, Goes, coordVars, directVars
<1> DEFINE x == IF client[r] = "waking" THEN "cancelling" ELSE "done"
<1>4. x \in {"closing", "cancelling", "returning", "done"} /\ x # "closing"
  OBVIOUS
<1>5. client' = [client EXCEPT ![r] = x]
  BY <1>3
<1> HIDE DEF x
<1> QED BY <1>2, <1>3, <1>4, <1>5, MovePlaces

\* Steps that touch neither the callers nor the queues.
LEMMA AsidePlaces ==
  ASSUME PlaceInv, UNCHANGED <<children, local, phase, inHand, client, ask, reply, open>>,
         owner' \in {"running", "stopping", "joined"},
         direct' \in {"idle", "waiting", "holding"}, directLeft' \in 0..MaxDirect,
         chan' \in Seq(Commands), SentOnce(chan'), SentIn(chan') = SentIn(chan),
         phase = "stopped" => chan' = chan
  PROVE  PlaceInv' /\ Granted' = Granted
<1> USE DEF PlaceInv
<1>1. QueueTypes' /\ QueuesApart' /\ ThreadConsistent' /\ Queued' = Queued
  BY QueuesKept
<1>2. CallerTypes'
  BY DEF CallerTypes
<1>3. OnePlace' /\ CallersConsistent'
  BY <1>1 DEF OnePlace, CallersConsistent
<1>4. Granted' = Granted
  BY DEF Granted
<1>5. AsksKnown'
  BY <1>1, <1>4 DEF AsksKnown, Width
<1> QED BY <1>1, <1>2, <1>3, <1>4, <1>5

\* Shutdown moves no request.
LEMMA ShutdownPlaces ==
  ASSUME PlaceInv, Shutdown
  PROVE  PlaceInv' /\ Granted' = Granted
<1> DEFINE c == [kind |-> "shutdown"]
<1>1. c \in Commands /\ c.kind # "enqueue" /\ Post(c)
  BY CommandLaw DEF Shutdown
<1> HIDE DEF c
<1>2. /\ chan' \in Seq(Commands) /\ SentOnce(chan') /\ SentIn(chan') = SentIn(chan)
      /\ phase = "stopped" => chan' = chan
  BY <1>1, PostKeeps
<1>3. /\ UNCHANGED <<children, local, phase, inHand, client, ask, reply, open, direct, directLeft>>
      /\ owner' = "stopping"
  BY DEF Shutdown, coordVars, clientVars, directVars
<1>4. direct \in {"idle", "waiting", "holding"} /\ directLeft \in 0..MaxDirect
  BY DEF PlaceInv, CallerTypes
<1> QED BY <1>2, <1>3, <1>4, AsidePlaces

\* A thread that uses the broker directly moves no request.
LEMMA DirectPlaces ==
  ASSUME PlaceInv, DirectAcquire \/ DirectGrant \/ DirectReturn
  PROVE  PlaceInv' /\ Granted' = Granted
<1>1. UNCHANGED <<chan, children, local, phase, inHand, owner, client, ask, reply, open>>
  BY DEF DirectAcquire, DirectGrant, DirectReturn, coordVars, clientVars
<1>2. direct' \in {"idle", "waiting", "holding"} /\ directLeft' \in 0..MaxDirect
  BY AdmissionAssumption DEF DirectAcquire, DirectGrant, DirectReturn, PlaceInv, CallerTypes
<1>3. chan \in Seq(Commands) /\ SentOnce(chan) /\ owner \in {"running", "stopping", "joined"}
  BY DEF PlaceInv, QueueTypes, QueuesApart
<1> QED BY <1>1, <1>2, <1>3, AsidePlaces

\* The queues change while the coordinator holds no lease: what is left in them
\* is still asked for and unanswered, and what has gone is answered, closed or
\* back in them.
LEMMA QueuePlaces ==
  ASSUME PlaceInv, inHand = NoRequest, inHand' = NoRequest,
         UNCHANGED <<owner, client, ask, open, direct, directLeft>>,
         QueueTypes', QueuesApart', ThreadConsistent', CallerTypes',
         NEW failed \in SUBSET Requests,
         reply' = [r \in Requests |-> IF r \in failed THEN "error" ELSE reply[r]],
         failed \subseteq SentIn(chan) \cup Queued,
         SentIn(chan') \subseteq SentIn(chan),
         SentIn(chan') \cup Queued' \subseteq (SentIn(chan) \cup Queued) \ failed,
         SentIn(chan') \cap Queued' = {},
         (SentIn(chan) \cup Queued) \cap open \subseteq SentIn(chan') \cup Queued' \cup failed
  PROVE  PlaceInv' /\ Granted' = Granted
<1> USE DEF PlaceInv
<1>1. OnePlace'
  BY AdmissionAssumption DEF OnePlace, CallerTypes
<1>2. \A r \in failed : reply[r] = "empty" /\ client[r] # "new" /\ client[r] # "holding"
  BY DEF OnePlace, CallersConsistent
<1>3. CallersConsistent'
  BY <1>2 DEF CallersConsistent, CallerTypes
<1>4. Granted' = Granted
  BY <1>2 DEF Granted
<1>5. AsksKnown'
  BY <1>4 DEF AsksKnown, Width
<1> QED BY <1>1, <1>3, <1>4, <1>5

\* A command that is read enqueues its request, fails one that was queued, only
\* wakes the thread, or fails all that is queued and ends the loop.
LEMMA HandlePlaces ==
  ASSUME PlaceInv, phase \in {"recv", "drain"}, HandleCommand("drain")
  PROVE  PlaceInv' /\ Granted' = Granted
<1> USE DEF PlaceInv
<1> DEFINE c == Head(chan)
<1>1. /\ chan # <<>> /\ chan' = Tail(chan)
      /\ UNCHANGED <<inHand, owner, client, ask, open, direct, directLeft>>
  BY DEF HandleCommand, directVars
<1>2. inHand = NoRequest
  BY DEF ThreadConsistent
<1>3. /\ chan \in Seq(Commands) /\ SentOnce(chan)
      /\ children \in Seq(Requests) /\ local \in Seq(Requests)
      /\ NoRepeat(children) /\ NoRepeat(local) /\ ToSet(children) \cap ToSet(local) = {}
  BY DEF QueueTypes, QueuesApart
<1>4. /\ c \in Commands /\ chan' \in Seq(Commands) /\ SentOnce(chan')
      /\ c.kind # "enqueue" => SentIn(chan') = SentIn(chan)
      /\ \A r \in Requests : c = Enqueue(r) =>
           r \in SentIn(chan) /\ SentIn(chan') = SentIn(chan) \ {r}
  BY <1>1, <1>3, ReadLaw
<1>5. /\ SentIn(chan) \cap Queued = {} /\ Queued \subseteq Requests
      /\ SentIn(chan) \subseteq Requests
      /\ Queued = ToSet(children) \cup ToSet(local)
  <2>1. Queued \subseteq Requests
    BY <1>3 DEF Queued, ToSet
  <2> QED BY <2>1 DEF OnePlace, SentIn, Queued
<1>6. Queued' = ToSet(children') \cup ToSet(local')
  BY DEF Queued
<1>7. CASE c.kind = "enqueue"
  <2> DEFINE r == c.r
  <2>1. r \in Requests /\ c = Enqueue(r)
    BY <1>4, <1>7, CommandLaw
  <2>2. r \in SentIn(chan) /\ SentIn(chan') = SentIn(chan) \ {r} /\ r \notin Queued
    BY <1>4, <1>5, <2>1
  <2>3. /\ children' = IF ask[r].child THEN Append(children, r) ELSE children
        /\ local' = IF ask[r].child THEN local ELSE Append(local, r)
        /\ phase' = "drain" /\ reply' = reply
    BY <1>7 DEF HandleCommand
  <2> HIDE DEF c, r
  <2>4. /\ children' \in Seq(Requests) /\ local' \in Seq(Requests)
        /\ NoRepeat(children') /\ NoRepeat(local') /\ ToSet(children') \cap ToSet(local') = {}
        /\ ToSet(children') \cup ToSet(local') = Queued \cup {r}
    <3>1. /\ Append(children, r) \in Seq(Requests) /\ NoRepeat(Append(children, r))
          /\ ToSet(Append(children, r)) = ToSet(children) \cup {r}
      BY <1>3, <1>5, <2>1, <2>2, AppendLaw
    <3>2. /\ Append(local, r) \in Seq(Requests) /\ NoRepeat(Append(local, r))
          /\ ToSet(Append(local, r)) = ToSet(local) \cup {r}
      BY <1>3, <1>5, <2>1, <2>2, AppendLaw
    <3>3. CASE ask[r].child
      BY <1>3, <1>5, <2>2, <2>3, <3>1, <3>3
    <3>4. CASE ~ ask[r].child
      BY <1>3, <1>5, <2>2, <2>3, <3>2, <3>4
    <3> QED BY <3>3, <3>4
  <2>5. QueueTypes' /\ QueuesApart' /\ ThreadConsistent'
    BY <1>1, <1>2, <1>4, <2>3, <2>4 DEF QueueTypes, QueuesApart, ThreadConsistent
  <2>6. CallerTypes' /\ reply' = [s \in Requests |-> IF s \in {} THEN "error" ELSE reply[s]]
    BY <1>1, <2>3 DEF CallerTypes
  <2> QED BY <1>1, <1>2, <1>5, <1>6, <2>2, <2>4, <2>5, <2>6, QueuePlaces
<1>8. CASE c.kind = "cancel"
  <2> DEFINE r == c.r
             S == Requests \ {r}
             failed == Queued \cap {r}
  <2>1. r \in Requests /\ SentIn(chan') = SentIn(chan)
    BY <1>4, <1>8, CommandLaw
  <2>2. /\ children' = Retain(children, S) /\ local' = Retain(local, S)
        /\ phase' = "drain"
        /\ reply' = [s \in Requests |-> IF s \in failed THEN "error" ELSE reply[s]]
    BY <1>8 DEF HandleCommand, Fail
  <2> HIDE DEF c, r
  <2>3. /\ children' \in Seq(Requests) /\ local' \in Seq(Requests)
        /\ NoRepeat(children') /\ NoRepeat(local')
        /\ ToSet(children') = ToSet(children) \cap S /\ ToSet(local') = ToSet(local) \cap S
    BY <1>3, <2>2, RetainLaw
  <2>4. QueueTypes' /\ QueuesApart' /\ ThreadConsistent'
    BY <1>1, <1>2, <1>3, <1>4, <2>2, <2>3 DEF QueueTypes, QueuesApart, ThreadConsistent
  <2>5. CallerTypes'
    BY <1>1, <2>2 DEF CallerTypes
  <2>6. Queued' = Queued \ {r}
    BY <1>5, <1>6, <2>3
  <2>7. /\ failed \in SUBSET Requests /\ failed \subseteq SentIn(chan) \cup Queued
        /\ SentIn(chan') \cup Queued' \subseteq (SentIn(chan) \cup Queued) \ failed
        /\ SentIn(chan') \cap Queued' = {}
        /\ (SentIn(chan) \cup Queued) \cap open \subseteq SentIn(chan') \cup Queued' \cup failed
    BY <1>5, <2>1, <2>6
  <2> HIDE DEF failed
  <2> QED BY <1>1, <1>2, <2>1, <2>2, <2>4, <2>5, <2>7, QueuePlaces
<1>9. CASE c.kind = "leaseReturned"
  <2>1. SentIn(chan') = SentIn(chan)
    BY <1>4, <1>9
  <2>2. UNCHANGED <<children, local, reply>> /\ phase' = "drain" /\ Queued' = Queued
    BY <1>9 DEF HandleCommand, Queued
  <2>3. QueueTypes' /\ QueuesApart' /\ ThreadConsistent'
    BY <1>1, <1>2, <1>3, <1>4, <2>2 DEF QueueTypes, QueuesApart, ThreadConsistent
  <2>4. CallerTypes' /\ reply' = [s \in Requests |-> IF s \in {} THEN "error" ELSE reply[s]]
    BY <1>1, <2>2 DEF CallerTypes
  <2> QED BY <1>1, <1>2, <1>5, <2>1, <2>2, <2>3, <2>4, QueuePlaces
<1>10. CASE c.kind = "shutdown"
  <2>1. SentIn(chan') = SentIn(chan)
    BY <1>4, <1>10
  <2>2. /\ children' = <<>> /\ local' = <<>> /\ phase' = "ack"
        /\ reply' = [s \in Requests |-> IF s \in Queued THEN "error" ELSE reply[s]]
    BY <1>10 DEF HandleCommand, Fail
  <2>3. Queued' = {}
    BY <1>6, <2>2, EmptyLaw
  <2>4. QueueTypes' /\ QueuesApart' /\ ThreadConsistent'
    BY <1>1, <1>2, <1>3, <1>4, <2>2, EmptyLaw DEF QueueTypes, QueuesApart, ThreadConsistent
  <2>5. CallerTypes'
    BY <1>1, <2>2 DEF CallerTypes
  <2> QED BY <1>1, <1>2, <1>5, <2>1, <2>2, <2>3, <2>4, <2>5, QueuePlaces
<1> QED BY <1>4, <1>7, <1>8, <1>9, <1>10, CommandLaw

\* Only requests are sent and queued.
LEMMA PlacesKnown ==
  ASSUME PlaceInv
  PROVE  SentIn(chan) \subseteq Requests /\ Queued \subseteq Requests
BY DEF PlaceInv, QueueTypes, SentIn, Queued, ToSet

\* The timed recheck moves no request.
LEMMA RecheckPlaces ==
  ASSUME PlaceInv, phase \in {"recv", "drain"}, phase' = "grant",
         UNCHANGED <<chan, children, local, inHand, owner, clientVars, directVars>>
  PROVE  PlaceInv' /\ Granted' = Granted
<1> USE DEF PlaceInv
<1>1. inHand = NoRequest /\ inHand' = NoRequest
  BY DEF ThreadConsistent
<1>2. UNCHANGED <<client, ask, reply, open, direct, directLeft>>
  BY DEF clientVars, directVars
<1>3. Queued' = Queued /\ SentIn(chan') = SentIn(chan)
  BY DEF Queued
<1>4. QueueTypes' /\ QueuesApart' /\ ThreadConsistent'
  BY <1>1 DEF QueueTypes, QueuesApart, ThreadConsistent
<1>5. CallerTypes' /\ reply' = [s \in Requests |-> IF s \in {} THEN "error" ELSE reply[s]]
  BY <1>2 DEF CallerTypes
<1>6. SentIn(chan) \cap Queued = {}
  BY DEF OnePlace
<1> QED BY <1>1, <1>2, <1>3, <1>4, <1>5, <1>6, QueuePlaces

\* discard_closed keeps the open requests, and pop_next takes the first of them.
LEMMA LiveQueues ==
  ASSUME PlaceInv,
         NEW cs, cs = Retain(children, open), NEW ls, ls = Retain(local, open)
  PROVE  /\ cs \in Seq(Requests) /\ ls \in Seq(Requests)
         /\ NoRepeat(cs) /\ NoRepeat(ls) /\ ToSet(cs) \cap ToSet(ls) = {}
         /\ ToSet(cs) \cup ToSet(ls) = Queued \cap open
         /\ Queued \subseteq Requests
<1>1. /\ children \in Seq(Requests) /\ local \in Seq(Requests)
      /\ NoRepeat(children) /\ NoRepeat(local) /\ ToSet(children) \cap ToSet(local) = {}
  BY DEF PlaceInv, QueueTypes, QueuesApart
<1>2. cs \in Seq(Requests) /\ NoRepeat(cs) /\ ToSet(cs) = ToSet(children) \cap open
  BY <1>1, RetainLaw
<1>3. ls \in Seq(Requests) /\ NoRepeat(ls) /\ ToSet(ls) = ToSet(local) \cap open
  BY <1>1, RetainLaw
<1>4. ToSet(children) \subseteq Requests /\ ToSet(local) \subseteq Requests
  BY <1>1 DEF ToSet
<1> QED BY <1>1, <1>2, <1>3, <1>4 DEF Queued

\* The request at the head of its queue leaves that queue only.
LEMMA PopNext ==
  ASSUME NEW cs \in Seq(Requests), NEW ls \in Seq(Requests),
         NoRepeat(cs), NoRepeat(ls), ToSet(cs) \cap ToSet(ls) = {}, cs \o ls # <<>>,
         NEW r, NEW cs1, NEW ls1,
         cs # <<>> => r = Head(cs) /\ cs1 = Tail(cs) /\ ls1 = ls,
         cs = <<>> => r = Head(ls) /\ cs1 = cs /\ ls1 = Tail(ls)
  PROVE  /\ cs1 \in Seq(Requests) /\ ls1 \in Seq(Requests)
         /\ NoRepeat(cs1) /\ NoRepeat(ls1) /\ ToSet(cs1) \cap ToSet(ls1) = {}
         /\ r \in ToSet(cs) \cup ToSet(ls) /\ r \in Requests
         /\ ToSet(cs1) \cup ToSet(ls1) = (ToSet(cs) \cup ToSet(ls)) \ {r}
<1>1. CASE cs # <<>>
  <2>1. /\ r = Head(cs) /\ cs1 = Tail(cs) /\ ls1 = ls
    BY <1>1
  <2>2. /\ r \in ToSet(cs) /\ r \in Requests /\ cs1 \in Seq(Requests)
        /\ NoRepeat(cs1) /\ ToSet(cs1) = ToSet(cs) \ {r}
    BY <1>1, <2>1, TailLaw
  <2> QED BY <2>1, <2>2
<1>2. CASE cs = <<>>
  <2>1. /\ r = Head(ls) /\ cs1 = cs /\ ls1 = Tail(ls) /\ ls # <<>>
    BY <1>2
  <2>2. /\ r \in ToSet(ls) /\ r \in Requests /\ ls1 \in Seq(Requests)
        /\ NoRepeat(ls1) /\ ToSet(ls1) = ToSet(ls) \ {r}
    BY <2>1, TailLaw
  <2> QED BY <2>1, <2>2
<1> QED BY <1>1, <1>2

\* A turn of the grant loop discards closed requests, and fails one or takes one
\* in hand, or none.
LEMMA GrantPlaces ==
  ASSUME PlaceInv, GrantNext
  PROVE  /\ PlaceInv'
         /\ UNCHANGED <<ask, direct>>
         /\ \/ Granted' = Granted /\ UNCHANGED poolVars
            \/ \E r \in Requests :
                 /\ r \notin Granted /\ Granted' = Granted \cup {r}
                 /\ ask[r] \in Asks /\ Width(r) <= Limit /\ CanAcquire(r)
                 /\ available' = available - Width(r) /\ slots' = slots - SlotsOf(r)
<1> USE DEF PlaceInv
<1> DEFINE cs == Retain(children, open)
           ls == Retain(local, open)
           r == IF cs # <<>> THEN Head(cs) ELSE Head(ls)
           keep == children' = cs /\ local' = ls
           pop == /\ children' = IF cs # <<>> THEN Tail(cs) ELSE cs
                  /\ local' = IF cs # <<>> THEN ls ELSE Tail(ls)
<1>1. /\ phase = "grant"
      /\ UNCHANGED <<chan, owner, client, ask, open, direct, directLeft>>
  BY DEF GrantNext, directVars
<1>2. inHand = NoRequest
  BY <1>1 DEF ThreadConsistent
<1>3. /\ cs \in Seq(Requests) /\ ls \in Seq(Requests)
      /\ NoRepeat(cs) /\ NoRepeat(ls) /\ ToSet(cs) \cap ToSet(ls) = {}
      /\ ToSet(cs) \cup ToSet(ls) = Queued \cap open
      /\ Queued \subseteq Requests
  BY LiveQueues
<1>4. \/ keep /\ phase' = "recv" /\ UNCHANGED <<poolVars, inHand, reply>>
      \/ cs \o ls # <<>> /\ pop /\ Fail({r}) /\ UNCHANGED <<poolVars, phase, inHand>>
      \/ /\ cs \o ls # <<>> /\ pop /\ Width(r) <= Limit /\ CanAcquire(r)
         /\ available' = available - Width(r) /\ slots' = slots - SlotsOf(r)
         /\ inHand' = r /\ phase' = "deliver" /\ UNCHANGED reply
  BY DEF GrantNext
<1>5. /\ SentIn(chan') = SentIn(chan) /\ Queued' = ToSet(children') \cup ToSet(local')
      /\ SentIn(chan) \cap Queued = {}
  BY <1>1 DEF Queued, OnePlace
<1>6. chan' \in Seq(Commands) /\ SentOnce(chan')
  BY <1>1 DEF QueueTypes, QueuesApart
<1>7. ASSUME cs \o ls # <<>>, pop
      PROVE  /\ children' \in Seq(Requests) /\ local' \in Seq(Requests)
             /\ NoRepeat(children') /\ NoRepeat(local') /\ ToSet(children') \cap ToSet(local') = {}
             /\ r \in Queued \cap open /\ r \in Requests
             /\ Queued' = (Queued \cap open) \ {r}
  <2>1. /\ children' \in Seq(Requests) /\ local' \in Seq(Requests)
        /\ NoRepeat(children') /\ NoRepeat(local') /\ ToSet(children') \cap ToSet(local') = {}
        /\ r \in ToSet(cs) \cup ToSet(ls) /\ r \in Requests
        /\ ToSet(children') \cup ToSet(local') = (ToSet(cs) \cup ToSet(ls)) \ {r}
    <3>1. /\ cs # <<>> => r = Head(cs) /\ children' = Tail(cs) /\ local' = ls
          /\ cs = <<>> => r = Head(ls) /\ children' = cs /\ local' = Tail(ls)
      BY <1>7
    <3>2. cs \o ls # <<>>
      BY <1>7
    <3>3. /\ cs \in Seq(Requests) /\ ls \in Seq(Requests)
          /\ NoRepeat(cs) /\ NoRepeat(ls) /\ ToSet(cs) \cap ToSet(ls) = {}
      BY <1>3
    <3> HIDE DEF cs, ls, r
    <3> QED BY <3>1, <3>2, <3>3, PopNext
  <2> QED BY <1>3, <1>5, <2>1
<1> HIDE DEF cs, ls, r
<1>8. CASE keep /\ phase' = "recv" /\ UNCHANGED <<poolVars, inHand, reply>>
  <2>1. Queued' = Queued \cap open
    BY <1>3, <1>5, <1>8
  <2>2. QueueTypes' /\ QueuesApart' /\ ThreadConsistent'
    BY <1>1, <1>2, <1>3, <1>6, <1>8 DEF QueueTypes, QueuesApart, ThreadConsistent
  <2>3. CallerTypes' /\ reply' = [s \in Requests |-> IF s \in {} THEN "error" ELSE reply[s]]
    BY <1>1, <1>8 DEF CallerTypes
  <2>4. PlaceInv' /\ Granted' = Granted
    BY <1>1, <1>2, <1>5, <1>8, <2>1, <2>2, <2>3, QueuePlaces
  <2> QED BY <1>1, <1>8, <2>4
<1>9. CASE cs \o ls # <<>> /\ pop /\ Fail({r}) /\ UNCHANGED <<poolVars, phase, inHand>>
  <2>1. /\ r \in Queued \cap open /\ r \in Requests
        /\ Queued' = (Queued \cap open) \ {r}
    BY <1>7, <1>9
  <2>2. QueueTypes' /\ QueuesApart' /\ ThreadConsistent'
    BY <1>1, <1>2, <1>6, <1>7, <1>9 DEF QueueTypes, QueuesApart, ThreadConsistent
  <2>3. CallerTypes' /\ reply' = [s \in Requests |-> IF s \in {r} THEN "error" ELSE reply[s]]
    BY <1>1, <1>9 DEF CallerTypes, Fail
  <2>4. PlaceInv' /\ Granted' = Granted
    BY <1>1, <1>2, <1>5, <1>9, <2>1, <2>2, <2>3, QueuePlaces
  <2> QED BY <1>1, <1>9, <2>4
<1>10. CASE /\ cs \o ls # <<>> /\ pop /\ Width(r) <= Limit /\ CanAcquire(r)
            /\ available' = available - Width(r) /\ slots' = slots - SlotsOf(r)
            /\ inHand' = r /\ phase' = "deliver" /\ UNCHANGED reply
  <2>1. /\ r \in Queued \cap open /\ r \in Requests
        /\ Queued' = (Queued \cap open) \ {r}
    BY <1>7, <1>10
  <2>2. r # NoRequest /\ reply[r] = "empty" /\ ask[r] \in Asks /\ client[r] # "new"
    BY <2>1, AdmissionAssumption DEF OnePlace, AsksKnown, CallersConsistent
  <2>3. QueueTypes' /\ QueuesApart' /\ ThreadConsistent'
    BY <1>1, <1>6, <1>7, <1>10, <2>1, <2>2 DEF QueueTypes, QueuesApart, ThreadConsistent
  <2>4. CallerTypes'
    BY <1>1, <1>10 DEF CallerTypes
  <2>5. OnePlace'
    BY <1>1, <1>2, <1>5, <1>10, <2>1, <2>2, AdmissionAssumption DEF OnePlace, CallerTypes
  <2>6. CallersConsistent'
    BY <1>1, <1>5, <1>10, <2>1, <2>2 DEF CallersConsistent
  <2>7. r \notin Granted /\ Granted' = Granted \cup {r}
    <3>1. client[r] # "holding"
      BY <2>1, <2>2 DEF CallersConsistent
    <3>2. inHand \notin Requests
      BY <1>2, AdmissionAssumption
    <3> QED BY <1>1, <1>10, <2>1, <2>2, <3>1, <3>2 DEF Granted
  <2>8. AsksKnown'
    BY <1>1, <1>5, <1>10, <2>1, <2>2, <2>7 DEF AsksKnown, Width
  <2>9. PlaceInv'
    BY <2>3, <2>4, <2>5, <2>6, <2>8
  <2> QED BY <1>1, <1>10, <2>1, <2>2, <2>7, <2>9
<1> QED BY <1>4, <1>8, <1>9, <1>10

\* The lease in hand goes to its caller, or back when the receiver is gone.
LEMMA DeliverPlaces ==
  ASSUME PlaceInv, Deliver
  PROVE  /\ PlaceInv' /\ inHand \in Granted
         /\ UNCHANGED <<ask, direct>>
         /\ \/ Granted' = Granted /\ UNCHANGED poolVars
            \/ Granted' = Granted \ {inHand} /\ GiveBack(inHand)
<1> USE DEF PlaceInv
<1> DEFINE r == inHand
<1>1. /\ phase = "deliver" /\ phase' = "grant" /\ inHand' = NoRequest
      /\ UNCHANGED <<children, local, owner, client, ask, open, direct, directLeft>>
  BY DEF Deliver, directVars
<1>2. r \in Requests /\ r # NoRequest /\ r \in Granted
  BY <1>1 DEF ThreadConsistent, QueueTypes, Granted
<1>3. /\ r \notin SentIn(chan) \cup Queued /\ reply[r] = "empty" /\ client[r] # "new"
      /\ client[r] # "holding" /\ ask[r] \in Asks /\ Width(r) <= Limit
  BY <1>2 DEF OnePlace, CallersConsistent, AsksKnown
<1>4. Queued' = Queued
  BY <1>1 DEF Queued
<1>5. CASE r \in open /\ reply' = [reply EXCEPT ![r] = "lease"] /\ UNCHANGED <<poolVars, chan>>
  <2>1. SentIn(chan') = SentIn(chan) /\ UNCHANGED <<available, slots>>
    BY <1>5 DEF poolVars
  <2>2. QueueTypes' /\ QueuesApart' /\ ThreadConsistent'
    BY <1>1, <1>2, <1>5 DEF QueueTypes, QueuesApart, ThreadConsistent
  <2>3. CallerTypes'
    BY <1>1, <1>5 DEF CallerTypes
  <2>4. OnePlace'
    <3>1. /\ SentIn(chan') \cap Queued' = {}
          /\ inHand' \notin SentIn(chan') \cup Queued'
      <4>1. inHand' \notin Requests
        BY <1>1, AdmissionAssumption
      <4>2. SentIn(chan') \cup Queued' \subseteq Requests
        BY <1>4, <1>5, <2>1, PlacesKnown
      <4> QED BY <1>4, <1>5, <2>1, <4>1, <4>2 DEF OnePlace
    <3>2. \A s \in SentIn(chan') \cup Queued' : reply'[s] = "empty"
      <4>1. \A s \in SentIn(chan) \cup Queued : s # r /\ s \in Requests /\ reply[s] = "empty"
        BY <1>3, PlacesKnown DEF OnePlace
      <4> QED BY <1>4, <1>5, <2>1, <4>1 DEF CallerTypes
    <3>3. \A s \in open' : reply'[s] = "empty" => s \in SentIn(chan') \cup Queued'
      BY <1>1, <1>2, <1>4, <1>5, <2>1 DEF OnePlace, CallerTypes
    <3> QED BY <1>1, <3>1, <3>2, <3>3, AdmissionAssumption DEF OnePlace
  <2>5. CallersConsistent'
    BY <1>1, <1>2, <1>3, <1>4, <1>5, <2>1, AdmissionAssumption DEF CallersConsistent, CallerTypes
  <2>6. Granted' = Granted
    BY <1>1, <1>2, <1>5, AdmissionAssumption DEF Granted, CallerTypes
  <2>7. AsksKnown'
    BY <1>1, <1>4, <2>1, <2>6 DEF AsksKnown, Width
  <2> QED BY <1>1, <1>2, <1>5, <2>2, <2>3, <2>4, <2>5, <2>6, <2>7
<1>6. CASE r \notin open /\ GiveBack(r) /\ Post(LeaseReturned) /\ UNCHANGED reply
  <2>1. LeaseReturned \in Commands /\ LeaseReturned.kind # "enqueue"
    BY CommandLaw DEF LeaseReturned
  <2>2. chan' \in Seq(Commands) /\ SentOnce(chan') /\ SentIn(chan') = SentIn(chan)
    BY <1>6, <2>1, PostKeeps
  <2>3. QueueTypes' /\ QueuesApart' /\ ThreadConsistent'
    BY <1>1, <1>2, <2>2 DEF QueueTypes, QueuesApart, ThreadConsistent
  <2>4. CallerTypes'
    BY <1>1, <1>6 DEF CallerTypes
  <2>5. OnePlace'
    <3>1. /\ SentIn(chan') \cap Queued' = {}
          /\ inHand' \notin SentIn(chan') \cup Queued'
      <4>1. inHand' \notin Requests
        BY <1>1, AdmissionAssumption
      <4>2. SentIn(chan') \cup Queued' \subseteq Requests
        BY <1>4, <1>6, <2>2, PlacesKnown
      <4> QED BY <1>4, <1>6, <2>2, <4>1, <4>2 DEF OnePlace
    <3>2. \A s \in SentIn(chan') \cup Queued' : reply'[s] = "empty"
      <4>1. \A s \in SentIn(chan) \cup Queued : s # r /\ s \in Requests /\ reply[s] = "empty"
        BY <1>3, PlacesKnown DEF OnePlace
      <4> QED BY <1>4, <1>6, <2>2, <4>1 DEF CallerTypes
    <3>3. \A s \in open' : reply'[s] = "empty" => s \in SentIn(chan') \cup Queued'
      BY <1>1, <1>2, <1>4, <1>6, <2>2 DEF OnePlace, CallerTypes
    <3> QED BY <1>1, <3>1, <3>2, <3>3, AdmissionAssumption DEF OnePlace
  <2>6. CallersConsistent'
    BY <1>1, <1>3, <1>4, <1>6, <2>2, AdmissionAssumption DEF CallersConsistent
  <2>7. Granted' = Granted \ {r}
    BY <1>1, <1>2, <1>3, <1>6, AdmissionAssumption DEF Granted
  <2>8. AsksKnown'
    BY <1>1, <1>4, <2>2, <2>7 DEF AsksKnown, Width
  <2> QED BY <1>1, <1>2, <1>6, <2>3, <2>4, <2>5, <2>6, <2>7, <2>8
<1> QED BY <1>5, <1>6 DEF Deliver

\* At the end of the thread all that was sent behind Shutdown is failed.
LEMMA TerminatePlaces ==
  ASSUME PlaceInv, Terminate
  PROVE  PlaceInv' /\ Granted' = Granted
<1> USE DEF PlaceInv
<1> DEFINE failed == {c.r : c \in {d \in ToSet(chan) : d.kind = "enqueue"}}
<1>1. /\ phase = "ack" /\ phase' = "stopped" /\ owner' = "joined" /\ chan' = <<>>
      /\ UNCHANGED <<children, local, inHand, client, ask, open, direct, directLeft>>
      /\ reply' = [r \in Requests |-> IF r \in failed THEN "error" ELSE reply[r]]
  BY DEF Terminate, directVars, Fail
<1>2. inHand = NoRequest /\ children = <<>> /\ local = <<>>
  BY <1>1 DEF ThreadConsistent
<1>3. Queued = {} /\ Queued' = {} /\ SentIn(chan') = {}
  BY <1>1, <1>2, EmptyLaw DEF Queued
<1>4. failed = SentIn(chan)
  <2>1. chan \in Seq(Commands)
    BY DEF QueueTypes
  <2>2. ASSUME NEW r \in failed PROVE r \in SentIn(chan)
    <3>1. PICK c \in ToSet(chan) : c.kind = "enqueue" /\ r = c.r
      BY <2>2
    <3>2. PICK i \in DOMAIN chan : c = chan[i]
      BY <3>1 DEF ToSet
    <3>3. c \in Commands
      BY <2>1, <3>2
    <3> QED BY <3>1, <3>2, <3>3, CommandLaw DEF SentIn
  <2>3. ASSUME NEW r \in SentIn(chan) PROVE r \in failed
    <3>1. PICK i \in DOMAIN chan : chan[i] = Enqueue(r)
      BY <2>3 DEF SentIn
    <3>2. Enqueue(r) \in ToSet(chan)
      BY <3>1 DEF ToSet
    <3>3. Enqueue(r).kind = "enqueue" /\ Enqueue(r).r = r
      BY DEF Enqueue
    <3> QED BY <3>2, <3>3
  <2> QED BY <2>2, <2>3
<1> HIDE DEF failed
<1>5. \A r \in failed : reply[r] = "empty" /\ client[r] # "new" /\ client[r] # "holding" /\ r \in Requests
  BY <1>4 DEF OnePlace, CallersConsistent, SentIn
<1>6. QueueTypes' /\ QueuesApart' /\ ThreadConsistent'
  BY <1>1, <1>2, EmptyLaw DEF QueueTypes, QueuesApart, ThreadConsistent
<1>7. CallerTypes'
  BY <1>1 DEF CallerTypes
<1>8. OnePlace'
  BY <1>1, <1>2, <1>3, <1>4, <1>5, AdmissionAssumption DEF OnePlace, CallerTypes
<1>9. CallersConsistent'
  BY <1>1, <1>2, <1>3, <1>5, AdmissionAssumption DEF CallersConsistent, CallerTypes
<1>10. Granted' = Granted
  BY <1>1, <1>5 DEF Granted
<1>11. AsksKnown'
  BY <1>1, <1>3, <1>10 DEF AsksKnown, Width
<1> QED BY <1>6, <1>7, <1>8, <1>9, <1>10, <1>11
-----------------------------------------------------------------------------
(* The laws of Total that the proofs need.                                 *)

\* Finitely many bounded values have finitely many units.
LEMMA TotalType ==
  ASSUME NEW S, IsFiniteSet(S), NEW b \in Nat, NEW f \in [S -> 0..b]
  PROVE  IsFiniteSet(Units(f, b)) /\ Total(f, b) \in Nat
<1>1. IsFiniteSet(1..b)
  BY FS_Interval
<1>2. IsFiniteSet(S \X (1..b))
  BY <1>1, FS_Product
<1>3. Units(f, b) \in SUBSET (S \X (1..b))
  BY DEF Units
<1> QED BY <1>2, <1>3, FS_Subset, FS_CardinalityType DEF Total

\* The units of one value, beside those of the others.
LEMMA TotalColumn ==
  ASSUME NEW A, IsFiniteSet(A), NEW x, NEW n \in Nat, A \cap ({x} \X (1..n)) = {}
  PROVE  Cardinality(A \cup ({x} \X (1..n))) = Cardinality(A) + n /\ Cardinality(A) \in Nat
<1> DEFINE C == {x} \X (1..n)
<1>1. IsFiniteSet({x}) /\ Cardinality({x}) = 1
  BY FS_Singleton
<1>2. IsFiniteSet(1..n) /\ Cardinality(1..n) = n
  BY FS_Interval
<1>3. IsFiniteSet(C) /\ Cardinality(C) = Cardinality({x}) * Cardinality(1..n)
  BY <1>1, <1>2, FS_Product
<1>4. IsFiniteSet(C) /\ Cardinality(C) = n /\ A \cap C = {}
  BY <1>1, <1>2, <1>3
<1> HIDE DEF C
<1>5. Cardinality(A \cup C) = Cardinality(A) + Cardinality(C) - Cardinality(A \cap C)
  BY <1>4, FS_Union
<1>6. Cardinality(A) \in Nat /\ Cardinality(A \cap C) = 0
  BY <1>4, FS_CardinalityType, FS_EmptySet
<1>7. Cardinality(A \cup C) = Cardinality(A) + n
  BY <1>4, <1>5, <1>6
<1> QED BY <1>6, <1>7 DEF C

\* A changed value changes the total by the difference.
LEMMA TotalUpdate ==
  ASSUME NEW S, IsFiniteSet(S), NEW b \in Nat, NEW x \in S,
         NEW f \in [S -> 0..b], NEW g \in [S -> 0..b],
         \A s \in S \ {x} : g[s] = f[s]
  PROVE  Total(g, b) = Total(f, b) + g[x] - f[x]
<1> DEFINE A == {p \in Units(f, b) : p[1] # x}
           C(n) == {x} \X (1..n)
<1>1. Units(f, b) = A \cup C(f[x]) /\ Units(g, b) = A \cup C(g[x])
  BY DEF Units
<1>2. IsFiniteSet(A)
  BY TotalType, FS_Subset
<1>3. A \cap C(f[x]) = {} /\ A \cap C(g[x]) = {}
  OBVIOUS
<1>4. f[x] \in Nat /\ g[x] \in Nat
  OBVIOUS
<1> HIDE DEF A
<1>5. Cardinality(A \cup C(f[x])) = Cardinality(A) + f[x] /\ Cardinality(A) \in Nat
  BY <1>2, <1>3, <1>4, TotalColumn
<1>6. Cardinality(A \cup C(g[x])) = Cardinality(A) + g[x]
  BY <1>2, <1>3, <1>4, TotalColumn
<1> QED BY <1>1, <1>4, <1>5, <1>6 DEF Total

\* No units, no total.
LEMMA TotalZero ==
  ASSUME NEW S, NEW b \in Nat, NEW f \in [S -> 0..b], \A s \in S : f[s] = 0
  PROVE  Total(f, b) = 0
<1>1. Units(f, b) = {}
  BY DEF Units
<1> QED BY <1>1, FS_EmptySet DEF Total
-----------------------------------------------------------------------------
(* Permits and slots.                                                      *)

PoolInv ==
  /\ available \in 0..Limit /\ slots \in 0..SlotLimit
  /\ CapacityConserved

DirectHeld == IF direct = "holding" THEN DirectWidth ELSE 0

\* What a granted request holds is bounded by the pool.
LEMMA HeldType ==
  ASSUME PlaceInv
  PROVE  /\ HeldPermits \in [Requests -> 0..Limit] /\ HeldSlots \in [Requests -> 0..SlotLimit]
         /\ Total(HeldPermits, Limit) \in Nat /\ Total(HeldSlots, SlotLimit) \in Nat
         /\ CapacityConserved <=> /\ available + Total(HeldPermits, Limit) + DirectHeld = Limit
                                  /\ slots + Total(HeldSlots, SlotLimit) = SlotLimit
<1>1. \A r \in Granted : Width(r) \in 0..Limit
  BY AdmissionAssumption DEF PlaceInv, AsksKnown, Width
<1>2. \A r \in Requests : SlotsOf(r) \in 0..SlotLimit
  BY AdmissionAssumption DEF SlotsOf
<1>3. HeldPermits \in [Requests -> 0..Limit] /\ HeldSlots \in [Requests -> 0..SlotLimit]
  BY <1>1, <1>2, AdmissionAssumption DEF HeldPermits, HeldSlots
<1>4. IsFiniteSet(Requests) /\ Limit \in Nat /\ SlotLimit \in Nat
  BY AdmissionAssumption
<1>5. Total(HeldPermits, Limit) \in Nat /\ Total(HeldSlots, SlotLimit) \in Nat
  BY <1>3, <1>4, TotalType
<1> QED BY <1>3, <1>5 DEF CapacityConserved, DirectHeld

\* What is held after a step is a number of permits and of slots too.
LEMMA HeldTypeNext ==
  ASSUME PlaceInv'
  PROVE  /\ HeldPermits' \in [Requests -> 0..Limit] /\ HeldSlots' \in [Requests -> 0..SlotLimit]
         /\ Total(HeldPermits', Limit) \in Nat /\ Total(HeldSlots', SlotLimit) \in Nat
         /\ CapacityConserved' <=> /\ available' + Total(HeldPermits', Limit) + DirectHeld' = Limit
                                   /\ slots' + Total(HeldSlots', SlotLimit) = SlotLimit
<1>1. \A r \in Granted' : Width(r)' \in 0..Limit
  BY AdmissionAssumption DEF PlaceInv, AsksKnown, Width
<1>2. \A r \in Requests : SlotsOf(r)' \in 0..SlotLimit
  BY AdmissionAssumption DEF SlotsOf
<1>3. HeldPermits' \in [Requests -> 0..Limit] /\ HeldSlots' \in [Requests -> 0..SlotLimit]
  BY <1>1, <1>2, AdmissionAssumption DEF HeldPermits, HeldSlots
<1>4. IsFiniteSet(Requests) /\ Limit \in Nat /\ SlotLimit \in Nat
  BY AdmissionAssumption
<1>5. Total(HeldPermits', Limit) \in Nat /\ Total(HeldSlots', SlotLimit) \in Nat
  BY <1>3, <1>4, TotalType
<1> QED BY <1>3, <1>5 DEF CapacityConserved, DirectHeld

\* A step that moves permits and slots between the pool, one request and the
\* thread that uses the broker directly.
LEMMA PoolMoves ==
  ASSUME PlaceInv, PlaceInv', PoolInv, NEW r \in Requests,
         \A s \in Requests \ {r} : /\ HeldPermits'[s] = HeldPermits[s]
                                   /\ HeldSlots'[s] = HeldSlots[s],
         available' \in Nat, slots' \in Nat, DirectHeld \in Nat, DirectHeld' \in Nat,
         available' + HeldPermits'[r] + DirectHeld' = available + HeldPermits[r] + DirectHeld,
         slots' + HeldSlots'[r] = slots + HeldSlots[r]
  PROVE  PoolInv'
<1>1. /\ HeldPermits \in [Requests -> 0..Limit] /\ HeldSlots \in [Requests -> 0..SlotLimit]
      /\ Total(HeldPermits, Limit) \in Nat /\ Total(HeldSlots, SlotLimit) \in Nat
      /\ available + Total(HeldPermits, Limit) + DirectHeld = Limit
      /\ slots + Total(HeldSlots, SlotLimit) = SlotLimit
      /\ available \in Nat /\ slots \in Nat
  BY HeldType, AdmissionAssumption DEF PoolInv
<1>2. /\ HeldPermits' \in [Requests -> 0..Limit] /\ HeldSlots' \in [Requests -> 0..SlotLimit]
      /\ Total(HeldPermits', Limit) \in Nat /\ Total(HeldSlots', SlotLimit) \in Nat
      /\ CapacityConserved' <=> /\ available' + Total(HeldPermits', Limit) + DirectHeld' = Limit
                                /\ slots' + Total(HeldSlots', SlotLimit) = SlotLimit
  BY HeldTypeNext
<1>3. IsFiniteSet(Requests) /\ Limit \in Nat /\ SlotLimit \in Nat
  BY AdmissionAssumption
<1>4. Total(HeldPermits', Limit) = Total(HeldPermits, Limit) + HeldPermits'[r] - HeldPermits[r]
  <2> DEFINE f == HeldPermits
             g == HeldPermits'
  <2>1. /\ f \in [Requests -> 0..Limit] /\ g \in [Requests -> 0..Limit]
        /\ \A s \in Requests \ {r} : g[s] = f[s]
    BY <1>1, <1>2
  <2> HIDE DEF f, g
  <2>2. Total(g, Limit) = Total(f, Limit) + g[r] - f[r]
    BY <1>3, <2>1, TotalUpdate
  <2> QED BY <2>2 DEF f, g
<1>5. Total(HeldSlots', SlotLimit) = Total(HeldSlots, SlotLimit) + HeldSlots'[r] - HeldSlots[r]
  <2> DEFINE f == HeldSlots
             g == HeldSlots'
  <2>1. /\ f \in [Requests -> 0..SlotLimit] /\ g \in [Requests -> 0..SlotLimit]
        /\ \A s \in Requests \ {r} : g[s] = f[s]
    BY <1>1, <1>2
  <2> HIDE DEF f, g
  <2>2. Total(g, SlotLimit) = Total(f, SlotLimit) + g[r] - f[r]
    BY <1>3, <2>1, TotalUpdate
  <2> QED BY <2>2 DEF f, g
<1>6. /\ HeldPermits[r] \in Nat /\ HeldPermits'[r] \in Nat
      /\ HeldSlots[r] \in Nat /\ HeldSlots'[r] \in Nat
  BY <1>1, <1>2, <1>3
<1> DEFINE a == Total(HeldPermits, Limit)
           b == Total(HeldPermits', Limit)
           c == Total(HeldSlots, SlotLimit)
           d == Total(HeldSlots', SlotLimit)
           w == HeldPermits[r]
           x == HeldPermits'[r]
           y == HeldSlots[r]
           z == HeldSlots'[r]
           e == DirectHeld
           f == DirectHeld'
<1>7. /\ {a, b, c, d, w, x, y, z, e, f, available, slots, available', slots', Limit, SlotLimit} \subseteq Nat
      /\ available + a + e = Limit /\ slots + c = SlotLimit
      /\ b = a + x - w /\ d = c + z - y
      /\ available' + x + f = available + w + e /\ slots' + z = slots + y
  BY <1>1, <1>2, <1>3, <1>4, <1>5, <1>6
<1> HIDE DEF a, b, c, d, w, x, y, z, e, f
<1>8. available' + b + f = Limit /\ slots' + d = SlotLimit
  BY <1>7
<1>9. available' \in 0..Limit /\ slots' \in 0..SlotLimit
  BY <1>7, <1>8
<1> QED BY <1>2, <1>8, <1>9 DEF PoolInv, b, d, f

\* No grant comes or goes.
LEMMA PoolKept ==
  ASSUME PlaceInv, PlaceInv', PoolInv,
         Granted' = Granted, \A r \in Granted : ask'[r] = ask[r],
         UNCHANGED <<available, slots, direct>>
  PROVE  PoolInv'
<1>1. HeldPermits' = HeldPermits /\ HeldSlots' = HeldSlots /\ DirectHeld' = DirectHeld
  BY DEF HeldPermits, HeldSlots, DirectHeld, Width, SlotsOf
<1>2. available + Total(HeldPermits, Limit) + DirectHeld = Limit
  BY HeldType DEF PoolInv
<1>3. slots + Total(HeldSlots, SlotLimit) = SlotLimit
  BY HeldType DEF PoolInv
<1>4. CapacityConserved'
  BY <1>1, <1>2, <1>3, HeldTypeNext
<1> QED BY <1>4 DEF PoolInv

\* What one granted request holds.
LEMMA HeldOf ==
  ASSUME PlaceInv, NEW r \in Requests, ask[r] \in Asks
  PROVE  Width(r) \in Nat /\ SlotsOf(r) \in Nat
BY AdmissionAssumption DEF Width, SlotsOf

\* A grant moves the capacity of its request from the pool to the request.
LEMMA PoolGrants ==
  ASSUME PlaceInv, PlaceInv', PoolInv, NEW r \in Requests,
         r \notin Granted, Granted' = Granted \cup {r},
         ask[r] \in Asks, CanAcquire(r), UNCHANGED <<ask, direct>>,
         available' = available - Width(r), slots' = slots - SlotsOf(r)
  PROVE  PoolInv'
<1>1. Width(r) \in Nat /\ SlotsOf(r) \in Nat
  BY HeldOf
<1>2. available' \in Nat /\ slots' \in Nat /\ available \in Nat /\ slots \in Nat
  BY <1>1, AdmissionAssumption DEF CanAcquire, PoolInv
<1>3. DirectHeld \in Nat /\ DirectHeld' = DirectHeld
  BY AdmissionAssumption DEF DirectHeld
<1>4. /\ HeldPermits[r] = 0 /\ HeldPermits'[r] = Width(r)
      /\ HeldSlots[r] = 0 /\ HeldSlots'[r] = SlotsOf(r)
  BY DEF HeldPermits, HeldSlots, Width, SlotsOf
<1>5. \A s \in Requests \ {r} : HeldPermits'[s] = HeldPermits[s] /\ HeldSlots'[s] = HeldSlots[s]
  BY DEF HeldPermits, HeldSlots, Width, SlotsOf
<1>6. /\ available' + HeldPermits'[r] + DirectHeld' = available + HeldPermits[r] + DirectHeld
      /\ slots' + HeldSlots'[r] = slots + HeldSlots[r]
  BY <1>1, <1>2, <1>3, <1>4
<1> QED BY <1>2, <1>3, <1>5, <1>6, PoolMoves

\* A returned lease moves its capacity back.
LEMMA PoolReturns ==
  ASSUME PlaceInv, PlaceInv', PoolInv, NEW r \in Requests,
         r \in Granted, Granted' = Granted \ {r}, GiveBack(r), UNCHANGED <<ask, direct>>
  PROVE  PoolInv'
<1>1. Width(r) \in Nat /\ SlotsOf(r) \in Nat
  BY HeldOf DEF PlaceInv, AsksKnown
<1>2. available' \in Nat /\ slots' \in Nat /\ available \in Nat /\ slots \in Nat
  BY <1>1, AdmissionAssumption DEF GiveBack, PoolInv
<1>3. DirectHeld \in Nat /\ DirectHeld' = DirectHeld
  BY AdmissionAssumption DEF DirectHeld
<1>4. /\ HeldPermits[r] = Width(r) /\ HeldPermits'[r] = 0
      /\ HeldSlots[r] = SlotsOf(r) /\ HeldSlots'[r] = 0
  BY DEF HeldPermits, HeldSlots
<1>5. \A s \in Requests \ {r} : HeldPermits'[s] = HeldPermits[s] /\ HeldSlots'[s] = HeldSlots[s]
  BY DEF HeldPermits, HeldSlots, Width, SlotsOf
<1>6. /\ available' + HeldPermits'[r] + DirectHeld' = available + HeldPermits[r] + DirectHeld
      /\ slots' + HeldSlots'[r] = slots + HeldSlots[r]
  BY <1>1, <1>2, <1>3, <1>4 DEF GiveBack
<1> QED BY <1>2, <1>3, <1>5, <1>6, PoolMoves

\* A direct lease takes its permits from the pool and gives them back.
LEMMA PoolDirect ==
  ASSUME PlaceInv, PlaceInv', PoolInv, Granted' = Granted,
         DirectAcquire \/ DirectGrant \/ DirectReturn
  PROVE  PoolInv'
<1>1. UNCHANGED <<ask, slots>>
  BY DEF DirectAcquire, DirectGrant, DirectReturn, clientVars
<1>2. HeldPermits' = HeldPermits /\ HeldSlots' = HeldSlots
  BY <1>1 DEF HeldPermits, HeldSlots, Width, SlotsOf
<1>3. /\ available \in Nat /\ Limit \in Nat /\ Total(HeldPermits, Limit) \in Nat
      /\ available + Total(HeldPermits, Limit) + DirectHeld = Limit
      /\ slots + Total(HeldSlots, SlotLimit) = SlotLimit
  BY HeldType, AdmissionAssumption DEF PoolInv
<1>4. /\ available' \in Nat /\ DirectHeld \in Nat /\ DirectHeld' \in Nat
      /\ available' + DirectHeld' = available + DirectHeld
  BY <1>3, AdmissionAssumption
  DEF DirectAcquire, DirectGrant, DirectReturn, DirectHeld, PlaceInv, CallerTypes
<1> DEFINE t == Total(HeldPermits, Limit)
           e == DirectHeld
           f == DirectHeld'
<1>5. /\ {available, available', t, e, f, Limit} \subseteq Nat
      /\ available + t + e = Limit /\ available' + f = available + e
  BY <1>3, <1>4
<1> HIDE DEF t, e, f
<1>6. available' + t + f = Limit /\ available' \in 0..Limit
  BY <1>5
<1>7. CapacityConserved'
  BY <1>1, <1>2, <1>3, <1>6, HeldTypeNext DEF t, f
<1> QED BY <1>1, <1>6, <1>7 DEF PoolInv
-----------------------------------------------------------------------------
(* The invariant.                                                          *)

AdmissionInv == PlaceInv /\ PoolInv

\* The places and the pool at first.
LEMMA InitAdmission == Init => AdmissionInv
<1> SUFFICES ASSUME Init PROVE AdmissionInv
  OBVIOUS
<1>1. PlaceInv
  BY InitPlaces
<1>2. Granted = {}
  BY AdmissionAssumption DEF Init, Granted
<1>3. (\A r \in Requests : HeldPermits[r] = 0) /\ (\A r \in Requests : HeldSlots[r] = 0)
  BY <1>2 DEF HeldPermits, HeldSlots
<1>4. /\ HeldPermits \in [Requests -> 0..Limit] /\ HeldSlots \in [Requests -> 0..SlotLimit]
      /\ Limit \in Nat /\ SlotLimit \in Nat
  BY <1>1, HeldType, AdmissionAssumption
<1>5. Total(HeldPermits, Limit) = 0 /\ Total(HeldSlots, SlotLimit) = 0
  BY <1>3, <1>4, TotalZero
<1>6. DirectHeld = 0 /\ available = Limit /\ slots = SlotLimit
  BY DEF Init, DirectHeld
<1>7. CapacityConserved
  BY <1>1, <1>4, <1>5, <1>6, HeldType
<1> QED BY <1>1, <1>4, <1>6, <1>7 DEF AdmissionInv, PoolInv

\* Every step of the callers, the coordinator and the direct thread preserves the
\* invariant.
LEMMA StepAdmission == AdmissionInv /\ [Next]_vars => AdmissionInv'
<1> SUFFICES ASSUME AdmissionInv, [Next]_vars PROVE AdmissionInv'
  OBVIOUS
<1> USE DEF AdmissionInv
<1>1. ASSUME NEW r \in Requests, Submit(r) PROVE AdmissionInv'
  <2>1. UNCHANGED <<available, slots, direct>>
    BY <1>1 DEF Submit, poolVars, directVars
  <2> QED BY <1>1, <2>1, SubmitPlaces, PoolKept
<1>2. ASSUME NEW r \in Requests, Receive(r) PROVE AdmissionInv'
  <2>1. UNCHANGED <<available, slots, direct, ask>>
    BY <1>2 DEF Receive, poolVars, directVars
  <2> QED BY <1>2, <2>1, ReceivePlaces, PoolKept
<1>3. ASSUME NEW r \in Requests, Close(r) PROVE AdmissionInv'
  <2>1. UNCHANGED <<direct, ask>>
    BY <1>3 DEF Close, directVars
  <2>2. CASE reply[r] = "lease"
    <3>1. GiveBack(r)
      BY <1>3, <2>2 DEF Close
    <3> QED BY <1>3, <2>1, <2>2, <3>1, ClosePlaces, PoolReturns
  <2>3. CASE reply[r] # "lease"
    <3>1. UNCHANGED <<available, slots>>
      BY <1>3, <2>3 DEF Close, poolVars
    <3> QED BY <1>3, <2>1, <2>3, <3>1, ClosePlaces, PoolKept
  <2> QED BY <2>2, <2>3
<1>4. ASSUME NEW r \in Requests, PostCancel(r) PROVE AdmissionInv'
  <2>1. UNCHANGED <<available, slots, direct, ask>>
    BY <1>4 DEF PostCancel, poolVars, directVars
  <2> QED BY <1>4, <2>1, PostCancelPlaces, PoolKept
<1>5. ASSUME NEW r \in Requests, ReturnLease(r) PROVE AdmissionInv'
  <2>1. GiveBack(r) /\ UNCHANGED <<direct, ask>>
    BY <1>5 DEF ReturnLease, directVars
  <2> QED BY <1>5, <2>1, ReturnLeasePlaces, PoolReturns
<1>6. ASSUME NEW r \in Requests, PostReturned(r) PROVE AdmissionInv'
  <2>1. UNCHANGED <<available, slots, direct, ask>>
    BY <1>6 DEF PostReturned, poolVars, directVars
  <2> QED BY <1>6, <2>1, PostReturnedPlaces, PoolKept
<1>7. ASSUME Shutdown PROVE AdmissionInv'
  <2>1. UNCHANGED <<available, slots, direct, ask>>
    BY <1>7 DEF Shutdown, poolVars, directVars, clientVars
  <2> QED BY <1>7, <2>1, ShutdownPlaces, PoolKept
<1>8. ASSUME phase \in {"recv", "drain"}, HandleCommand("drain") PROVE AdmissionInv'
  <2>1. UNCHANGED <<available, slots, direct, ask>>
    BY <1>8 DEF HandleCommand, poolVars, directVars
  <2> QED BY <1>8, <2>1, HandlePlaces, PoolKept
<1>9. ASSUME phase \in {"recv", "drain"}, phase' = "grant",
             UNCHANGED <<poolVars, chan, children, local, inHand, owner, clientVars, directVars>>
      PROVE  AdmissionInv'
  <2>1. UNCHANGED <<available, slots, direct, ask>>
    BY <1>9 DEF poolVars, directVars, clientVars
  <2> QED BY <1>9, <2>1, RecheckPlaces, PoolKept
<1>10. ASSUME GrantNext PROVE AdmissionInv'
  <2>1. CASE Granted' = Granted /\ UNCHANGED poolVars
    <3>1. UNCHANGED <<available, slots, direct, ask>>
      BY <1>10, <2>1, GrantPlaces DEF poolVars
    <3> QED BY <1>10, <2>1, <3>1, GrantPlaces, PoolKept
  <2>2. CASE \E r \in Requests :
               /\ r \notin Granted /\ Granted' = Granted \cup {r}
               /\ ask[r] \in Asks /\ Width(r) <= Limit /\ CanAcquire(r)
               /\ available' = available - Width(r) /\ slots' = slots - SlotsOf(r)
    <3>1. UNCHANGED <<direct, ask>> /\ PlaceInv'
      BY <1>10, GrantPlaces
    <3> QED BY <2>2, <3>1, PoolGrants
  <2> QED BY <1>10, <2>1, <2>2, GrantPlaces
<1>11. ASSUME Deliver PROVE AdmissionInv'
  <2>1. /\ PlaceInv' /\ inHand \in Granted /\ UNCHANGED <<ask, direct>>
        /\ \/ Granted' = Granted /\ UNCHANGED poolVars
           \/ Granted' = Granted \ {inHand} /\ GiveBack(inHand)
    BY <1>11, DeliverPlaces
  <2>2. CASE Granted' = Granted /\ UNCHANGED poolVars
    <3>1. UNCHANGED <<available, slots, direct, ask>>
      BY <2>1, <2>2 DEF poolVars
    <3> QED BY <2>1, <2>2, <3>1, PoolKept
  <2>3. CASE Granted' = Granted \ {inHand} /\ GiveBack(inHand)
    <3>1. inHand \in Requests
      BY <2>1 DEF Granted
    <3> QED BY <2>1, <2>3, <3>1, PoolReturns
  <2> QED BY <2>1, <2>2, <2>3
<1>12. ASSUME Terminate PROVE AdmissionInv'
  <2>1. UNCHANGED <<available, slots, direct, ask>>
    BY <1>12 DEF Terminate, poolVars, directVars
  <2> QED BY <1>12, <2>1, TerminatePlaces, PoolKept
<1>13. ASSUME DirectAcquire \/ DirectGrant \/ DirectReturn PROVE AdmissionInv'
  BY <1>13, DirectPlaces, PoolDirect
<1>14. CASE UNCHANGED vars
  <2>1. UNCHANGED <<available, slots, chan, children, local, phase, inHand, owner,
                    client, ask, reply, open, direct, directLeft>>
    BY <1>14 DEF vars, poolVars, coordVars, clientVars, directVars
  <2>2. /\ chan \in Seq(Commands) /\ SentOnce(chan) /\ owner \in {"running", "stopping", "joined"}
        /\ direct \in {"idle", "waiting", "holding"} /\ directLeft \in 0..MaxDirect
    BY DEF PlaceInv, QueueTypes, QueuesApart, CallerTypes
  <2>3. PlaceInv' /\ Granted' = Granted
    BY <2>1, <2>2, AsidePlaces
  <2> QED BY <2>1, <2>3, PoolKept
<1>15. ASSUME NEW r \in Requests, ClientStep(r) PROVE AdmissionInv'
  BY <1>1, <1>2, <1>3, <1>4, <1>5, <1>6, <1>15 DEF ClientStep
<1>16. ASSUME CoordinatorStep PROVE AdmissionInv'
  BY <1>8, <1>9, <1>10, <1>11, <1>12, <1>16 DEF CoordinatorStep, Recv, Recheck, Drain
<1> QED BY <1>7, <1>13, <1>14, <1>15, <1>16 DEF Next

\* The invariant holds in every state of every behaviour.
LEMMA Admission == Spec => []AdmissionInv
<1> QED BY InitAdmission, StepAdmission, PTL DEF Spec

\* The type invariant, for any requests, asks, permits and slots.
THEOREM AdmissionTypes == Spec => []TypeOK
<1>1. AdmissionInv => TypeOK
  BY DEF AdmissionInv, PlaceInv, PoolInv, QueueTypes, CallerTypes, TypeOK
<1> QED BY <1>1, Admission, PTL

\* No permit and no slot is lost or doubled, wherever a handle is dropped.
THEOREM CapacityIsConserved == Spec => []CapacityConserved
<1>1. AdmissionInv => CapacityConserved
  BY DEF AdmissionInv, PoolInv
<1> QED BY <1>1, Admission, PTL

\* A caller still waiting when the thread has ended would be sent, queued or in
\* hand, and all three places are empty then.
THEOREM NobodyWaitsForStopped == Spec => []StoppedLeavesNobodyWaiting
<1>1. AdmissionInv => StoppedLeavesNobodyWaiting
  <2> SUFFICES ASSUME AdmissionInv, phase = "stopped", NEW r \in Requests,
                      client[r] = "pending", reply[r] = "empty"
               PROVE  FALSE
    BY DEF StoppedLeavesNobodyWaiting
  <2>1. SentIn(chan) = {} /\ Queued = {} /\ inHand = NoRequest
    BY EmptyLaw DEF AdmissionInv, PlaceInv, ThreadConsistent, Queued
  <2>2. r \in SentIn(chan) \cup Queued \cup {inHand}
    BY DEF AdmissionInv, PlaceInv, CallersConsistent, OnePlace
  <2> QED BY <2>1, <2>2, AdmissionAssumption
<1> QED BY <1>1, Admission, PTL

\* The number of places of x in q, which holds it at most once.
LEMMA Occurrences ==
  ASSUME NEW q, NEW x, \A i, j \in DOMAIN q : q[i] = x /\ q[j] = x => i = j
  PROVE  Cardinality({i \in DOMAIN q : q[i] = x}) = IF \E i \in DOMAIN q : q[i] = x THEN 1 ELSE 0
<1>1. CASE \E i \in DOMAIN q : q[i] = x
  <2>1. PICK i \in DOMAIN q : q[i] = x
    BY <1>1
  <2>2. {j \in DOMAIN q : q[j] = x} = {i}
    BY <2>1
  <2>3. Cardinality({i}) = 1
    BY FS_Singleton
  <2> QED BY <1>1, <2>2, <2>3
<1>2. CASE ~ \E i \in DOMAIN q : q[i] = x
  <2>1. {j \in DOMAIN q : q[j] = x} = {}
    BY <1>2
  <2> QED BY <1>2, <2>1, FS_EmptySet
<1> QED BY <1>1, <1>2

\* Two queues without a common request, one behind the other.
LEMMA ConcatLaw ==
  ASSUME NEW p \in Seq(Requests), NEW q \in Seq(Requests),
         NoRepeat(p), NoRepeat(q), ToSet(p) \cap ToSet(q) = {}
  PROVE  NoRepeat(p \o q) /\ ToSet(p \o q) = ToSet(p) \cup ToSet(q)
<1> DEFINE m == Len(p)
           n == Len(q)
           s == p \o q
<1>1. /\ m \in Nat /\ n \in Nat /\ DOMAIN p = 1..m /\ DOMAIN q = 1..n /\ DOMAIN s = 1..(m + n)
      /\ \A i \in 1..m : s[i] = p[i]
      /\ \A i \in 1..n : s[m + i] = q[i]
  OBVIOUS
<1> HIDE DEF m, n, s
<1>2. \A i \in DOMAIN s : \/ i \in 1..m /\ s[i] = p[i]
                          \/ i - m \in 1..n /\ s[i] = q[i - m]
  <2> SUFFICES ASSUME NEW i \in 1..(m + n), ~(i \in 1..m)
               PROVE  i - m \in 1..n /\ s[i] = q[i - m]
    BY <1>1
  <2>1. i - m \in 1..n /\ m + (i - m) = i
    BY <1>1
  <2>2. s[m + (i - m)] = q[i - m]
    BY <1>1, <2>1
  <2> QED BY <2>1, <2>2
<1>3. (\A i \in 1..m : p[i] \in ToSet(p)) /\ (\A i \in 1..n : q[i] \in ToSet(q))
  BY <1>1 DEF ToSet
<1>4. NoRepeat(s)
  <2> SUFFICES ASSUME NEW i \in DOMAIN s, NEW j \in DOMAIN s, s[i] = s[j] PROVE i = j
    BY DEF NoRepeat
  <2>1. CASE i \in 1..m /\ j \in 1..m /\ s[i] = p[i] /\ s[j] = p[j]
    BY <1>1, <2>1 DEF NoRepeat
  <2>2. CASE i - m \in 1..n /\ j - m \in 1..n /\ s[i] = q[i - m] /\ s[j] = q[j - m]
    <3>1. i - m = j - m
      BY <1>1, <2>2 DEF NoRepeat
    <3> QED BY <1>1, <3>1
  <2>3. CASE i \in 1..m /\ s[i] = p[i] /\ j - m \in 1..n /\ s[j] = q[j - m]
    BY <1>3, <2>3
  <2>4. CASE j \in 1..m /\ s[j] = p[j] /\ i - m \in 1..n /\ s[i] = q[i - m]
    BY <1>3, <2>4
  <2> QED BY <1>2, <2>1, <2>2, <2>3, <2>4
<1>5. ToSet(s) \subseteq ToSet(p) \cup ToSet(q)
  BY <1>2, <1>3 DEF ToSet
<1>6. ToSet(p) \cup ToSet(q) \subseteq ToSet(s)
  <2>1. ASSUME NEW x \in ToSet(p) PROVE x \in ToSet(s)
    <3>1. PICK i \in 1..m : x = p[i]
      BY <1>1 DEF ToSet
    <3>2. i \in DOMAIN s /\ s[i] = x
      BY <1>1, <3>1
    <3> QED BY <3>2 DEF ToSet
  <2>2. ASSUME NEW x \in ToSet(q) PROVE x \in ToSet(s)
    <3>1. PICK i \in 1..n : x = q[i]
      BY <1>1 DEF ToSet
    <3>2. m + i \in DOMAIN s /\ s[m + i] = x
      BY <1>1, <3>1
    <3> QED BY <3>2 DEF ToSet
  <2> QED BY <2>1, <2>2
<1> QED BY <1>4, <1>5, <1>6 DEF s

\* A request that may still be answered is in exactly one place, and a queued
\* one has no answer yet.
THEOREM RequestsQueuedOnce == Spec => []QueuedOnce
<1>1. AdmissionInv => QueuedOnce
  <2> SUFFICES ASSUME AdmissionInv PROVE QueuedOnce
    OBVIOUS
  <2> USE DEF AdmissionInv, PlaceInv
  <2> DEFINE line == children \o local
  <2>1. NoRepeat(line) /\ ToSet(line) = Queued
    BY ConcatLaw DEF QueueTypes, QueuesApart, Queued
  <2>2. ASSUME NEW r \in open, reply[r] = "empty"
        PROVE  Cardinality({i \in DOMAIN chan : chan[i] = [kind |-> "enqueue", r |-> r]})
                 + Cardinality({i \in DOMAIN line : line[i] = r})
                 + (IF inHand = r THEN 1 ELSE 0) = 1
    <3> DEFINE c == Enqueue(r)
               sent == Cardinality({i \in DOMAIN chan : chan[i] = c})
               queued == Cardinality({i \in DOMAIN line : line[i] = r})
    <3>1. r \in Requests
      BY DEF CallerTypes
    <3>2. c.kind = "enqueue"
      BY DEF Enqueue
    <3>3. sent = IF r \in SentIn(chan) THEN 1 ELSE 0
      <4>1. \A i, j \in DOMAIN chan : chan[i] = c /\ chan[j] = c => i = j
        BY <3>2 DEF QueuesApart, SentOnce
      <4>2. r \in SentIn(chan) <=> \E i \in DOMAIN chan : chan[i] = c
        BY <3>1 DEF SentIn
      <4> HIDE DEF c
      <4> QED BY <4>1, <4>2, Occurrences
    <3>4. queued = IF r \in Queued THEN 1 ELSE 0
      <4> HIDE DEF line
      <4>1. \A i, j \in DOMAIN line : line[i] = r /\ line[j] = r => i = j
        BY <2>1 DEF NoRepeat
      <4>2. r \in Queued <=> \E i \in DOMAIN line : line[i] = r
        BY <2>1 DEF ToSet
      <4> QED BY <4>1, <4>2, Occurrences
    <3>5. /\ r \in SentIn(chan) \cup Queued \cup {inHand}
          /\ ~(r \in SentIn(chan) /\ r \in Queued)
          /\ inHand = r => r \notin SentIn(chan) /\ r \notin Queued
      BY <2>2 DEF OnePlace
    <3>6. sent = Cardinality({i \in DOMAIN chan : chan[i] = [kind |-> "enqueue", r |-> r]})
      BY DEF Enqueue
    <3> HIDE DEF sent, queued
    <3>7. sent + queued + (IF inHand = r THEN 1 ELSE 0) = 1
      BY <3>3, <3>4, <3>5
    <3> QED BY <3>6, <3>7 DEF queued
  <2>3. \A r \in Queued : reply[r] = "empty"
    BY PlacesKnown DEF OnePlace
  <2> HIDE DEF AdmissionInv, PlaceInv
  <2> QED BY <2>2, <2>3 DEF QueuedOnce
<1> QED BY <1>1, Admission, PTL
=============================================================================
