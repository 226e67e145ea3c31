----------------------------- MODULE ChatProofs -----------------------------
(***************************************************************************)
(* Conversations with any number of users, threads and calls, and any      *)
(* limits.  No call holds a lock from what it reads to what it writes, so  *)
(* the invariant says of a call in flight only what no other call can take *)
(* from it: its conversation is still of the kind it found, and messages   *)
(* are only added.  With the unique number this gives a history without    *)
(* gaps; the limits and the administrators of a group are safe from a call *)
(* that nobody has overtaken.                                              *)
(***************************************************************************)
EXTENDS Chat, FiniteSetTheorems, SequenceTheorems, TLAPS

Creates == {"direct", "group"}

\* What a call that changes a group has read, seen from its own commit.
GroupKnown(j) ==
    /\ j.on \in Users /\ j.admins \subseteq j.members
    /\ j.op = "add" => j.on \notin j.members /\ Cardinality(j.members) < MaxSize
    /\ j.op = "demote" => j.admins \ {j.on} # {}
    /\ j.op # "leave" => j.heir = {}
    /\ j.op = "leave" =>
          \/ j.heir = {} /\ j.admins \ {j.on} # {}
          \/ j.heir = {} /\ j.members = {j.on}
          \/ \E h \in j.members \ {j.on} : j.heir = {h}

\* What a call in flight may rely on.
Known(j) ==
    /\ j.op # "idle" => j.c \in Conversations /\ j.by \in Users
    /\ j.op \in Creates => conv[j.c].kind = "none" /\ j.by \in j.members
    /\ j.op = "direct" =>
          /\ j.on \in Users \ {j.by} /\ j.members = {j.by, j.on}
          /\ j.twins = {}
    /\ j.op = "group" =>
          Cardinality(j.members) <= MaxSize /\ Cardinality(j.twins) < MaxGroups
    /\ j.op \notin Creates \cup {"idle"} => conv[j.c].kind # "none"
    /\ j.op \in {"edit", "delete"} => j.about \in 1..Len(msgs[j.c])
    /\ j.op = "edit" => j.read # "deleted"
    /\ j.op \in {"accept", "ignore"} => conv[j.c].kind = "direct"
    /\ j.op \in GroupOps => conv[j.c].kind = "group" /\ GroupKnown(j)
    /\ j.op \in GroupOps \cup {"send"} /\ j.written =>
          j.number \in 1..Len(msgs[j.c]) + 1
JobsKnown == \A p \in Threads : Known(job[p])

\* One call at most is creating a conversation.
OneCreator ==
    \A p, q \in Threads :
        /\ job[p].op \in Creates /\ job[q].op \in Creates
        /\ job[p].c = job[q].c
        => p = q

\* Nobody is in a conversation that does not exist, and nobody has written to
\* it; one that exists has a creator.
Founded ==
    \A c \in Conversations :
        /\ conv[c].kind = "none" => msgs[c] = <<>> /\ Members(c) = {}
        /\ conv[c].kind # "none" => conv[c].creator \in Users

\* A call adds two messages at most, and one participant.
InFlight == {p \in Threads : job[p].op # "idle"}
Budget ==
    /\ IsFiniteSet(InFlight)
    /\ \A c \in Conversations :
          /\ Len(msgs[c]) + 2 * Cardinality(InFlight) <= 2 * calls
          /\ \A u \in Users :
                part[c][u].since + Cardinality(InFlight)
                    <= Cardinality(Users) + calls

IInv ==
    /\ TypeOK /\ HistoryInOrder /\ Founded /\ Budget
    /\ OneCreator /\ JobsKnown

-----------------------------------------------------------------------------
(* Messages and their numbers                                              *)

LEMMA HistoryRead ==
  ASSUME TypeOK, HistoryInOrder, NEW c \in Conversations
  PROVE  /\ msgs[c] \in Seq(Messages) /\ Len(msgs[c]) \in Nat
         /\ DOMAIN msgs[c] = 1..Len(msgs[c])
         /\ \A i \in 1..Len(msgs[c]) : msgs[c][i] \in Messages
         /\ NextNumber(c) = Len(msgs[c]) + 1
         /\ \A n : Taken(c, n) <=> n \in 1..Len(msgs[c])
         /\ \A n : Exists(c, n) <=> n \in 1..Len(msgs[c])
         /\ \A n \in 1..Len(msgs[c]) : Row(c, n) = n
<1>1. /\ msgs[c] \in Seq(Messages) /\ Len(msgs[c]) \in Nat
      /\ DOMAIN msgs[c] = 1..Len(msgs[c])
      /\ \A i \in 1..Len(msgs[c]) : msgs[c][i] \in Messages
  BY DEF TypeOK
<1>2. \A i \in 1..Len(msgs[c]) : msgs[c][i].number = i
  BY <1>1 DEF HistoryInOrder
<1>3. \A n : (Taken(c, n) <=> n \in 1..Len(msgs[c]))
             /\ (Exists(c, n) <=> n \in 1..Len(msgs[c]))
  BY <1>1, <1>2 DEF Taken, Exists
<1>4. \A n \in 1..Len(msgs[c]) : Row(c, n) = n
  BY <1>1, <1>2 DEF Row
<1>5. Highest(c) = Len(msgs[c])
  <2> DEFINE numbers == {msgs[c][i].number : i \in DOMAIN msgs[c]}
  <2>1. numbers = 1..Len(msgs[c])
    BY <1>1, <1>2
  <2>2. CASE Len(msgs[c]) = 0
    BY <2>1, <2>2 DEF Highest
  <2>3. CASE Len(msgs[c]) > 0
    <3>1. Highest(c) = IF numbers = {} THEN 0
                       ELSE CHOOSE n \in numbers : \A m \in numbers : m <= n
      BY DEF Highest
    <3> HIDE DEF numbers
    <3>2. /\ Len(msgs[c]) \in numbers /\ numbers # {}
          /\ \A m \in numbers : m <= Len(msgs[c])
          /\ \A n \in numbers : (\A m \in numbers : m <= n) => n = Len(msgs[c])
      BY <1>1, <2>1, <2>3
    <3>3. (CHOOSE n \in numbers : \A m \in numbers : m <= n) = Len(msgs[c])
      BY <3>2
    <3> QED
      BY <3>1, <3>2, <3>3
  <2> QED
    BY <1>1, <2>2, <2>3
<1> QED
  BY <1>1, <1>3, <1>4, <1>5 DEF NextNumber

\* A call in flight has room for what it adds.
LEMMA RoomLeft ==
  ASSUME TypeOK, Budget, NEW p \in Threads, job[p].op # "idle",
         NEW c \in Conversations
  PROVE  /\ Cardinality(InFlight) \in Nat \ {0}
         /\ Len(msgs[c]) + 2 <= 2 * calls /\ Len(msgs[c]) + 2 \in Numbers
         /\ \A u \in Users :
               /\ part[c][u].since \in Nat
               /\ part[c][u].since + 1 <= Cardinality(Users) + calls
         /\ Cardinality(Users) \in Nat /\ calls \in Nat /\ calls <= MaxCalls
<1>1. Cardinality(InFlight) \in Nat /\ Cardinality(InFlight) # 0
  <2>1. p \in InFlight
    BY DEF InFlight
  <2> QED
    BY <2>1, FS_CardinalityType, FS_EmptySet DEF Budget
<1>2. /\ Len(msgs[c]) \in Nat /\ calls \in Nat /\ calls <= MaxCalls
      /\ MaxCalls \in Nat
  BY CallAssumption DEF TypeOK
<1>3. Cardinality(Users) \in Nat
  BY UsersAssumption, FS_CardinalityType
<1>4. \A u \in Users : part[c][u].since \in Nat
  BY <1>3, CallAssumption DEF TypeOK, Parts
<1>5. Len(msgs[c]) + 2 * Cardinality(InFlight) <= 2 * calls
  BY DEF Budget
<1>6. ASSUME NEW u \in Users
      PROVE  part[c][u].since + 1 <= Cardinality(Users) + calls
  <2>1. part[c][u].since + Cardinality(InFlight) <= Cardinality(Users) + calls
    BY DEF Budget
  <2> QED
    BY <2>1, <1>1, <1>2, <1>3, <1>4
<1>7. Len(msgs[c]) + 2 <= 2 * calls /\ Len(msgs[c]) + 2 \in Numbers
  BY <1>1, <1>2, <1>5 DEF Numbers
<1> QED
  BY <1>1, <1>2, <1>3, <1>4, <1>6, <1>7

\* The order of created_at has a greatest element.
LEMMA NewestExists ==
  ASSUME NEW S \in SUBSET Nat, S # {}, NEW bound \in Nat, \A n \in S : n <= bound
  PROVE  \E n \in S : \A m \in S : m <= n
<1> DEFINE all == 0..bound
           after == {(n..bound) : n \in S}
<1>1. IsWellFoundedOn(StrictSubsetOrdering(all), SUBSET all)
  <2>1. IsFiniteSet(all)
    BY FS_Interval
  <2> HIDE DEF all
  <2> QED
    BY <2>1, FS_StrictSubsetOrderingWellFounded, FS_FiniteSubsetsOfFinite
<1>2. after \subseteq SUBSET all /\ after # {}
  <2>1. \A n \in S : n..bound \in SUBSET all
    OBVIOUS
  <2> QED
    BY <2>1
<1>3. \E x \in after : \A y \in after : <<y, x>> \notin StrictSubsetOrdering(all)
  <2> HIDE DEF after, all
  <2> QED
    BY <1>1, <1>2, WFMin
<1>4. PICK n \in S :
         \A m \in S : <<m..bound, n..bound>> \notin StrictSubsetOrdering(all)
  BY <1>3
<1>5. ASSUME NEW m \in S, ~(m <= n)
      PROVE  FALSE
  <2>1. n \in n..bound /\ n \notin m..bound /\ m..bound \subseteq n..bound
    BY <1>5
  <2>2. m..bound \subseteq all /\ n..bound \subseteq all
    OBVIOUS
  <2> QED
    BY <1>4, <2>1, <2>2 DEF StrictSubsetOrdering
<1> QED
  BY <1>5

-----------------------------------------------------------------------------
(* What keeps the invariant, whoever does it                               *)

\* The part of TypeOK that is about the tables.
TablesTyped ==
    /\ conv \in [Conversations -> Convs]
    /\ part \in [Conversations -> [Users -> Parts]]
    /\ msgs \in [Conversations -> Seq(Messages)]
    /\ \A c \in Conversations :
         /\ conv[c].kind # "direct"
              => \A u \in Users : part[c][u].request = "none"
         /\ conv[c].kind = "direct"
              => Cardinality(Members(c)) = 2 /\ Admins(c) = {}
    /\ blocks \subseteq Users \X Users

\* What no step takes from a conversation that exists.
Grown(c) ==
    /\ conv[c].kind # "none" => conv'[c].kind = conv[c].kind
    /\ Len(msgs[c]) <= Len(msgs'[c])

\* A call knows after a step what it knew before.
LEMMA KnownStays ==
  ASSUME TypeOK, HistoryInOrder, TypeOK', HistoryInOrder',
         NEW j \in Jobs, Known(j), j.op # "idle" => Grown(j.c),
         j.op \in Creates => conv'[j.c].kind = "none"
  PROVE  Known(j)'
<1>1. CASE j.op = "idle"
  BY <1>1 DEF Known, Creates, GroupOps
<1>2. CASE j.op # "idle"
  <2>1. /\ j.c \in Conversations /\ j.by \in Users /\ Grown(j.c)
        /\ TablesTyped /\ TablesTyped'
    BY <1>2 DEF Known, TypeOK, TablesTyped
  <2>2. /\ Len(msgs[j.c]) \in Nat /\ Len(msgs'[j.c]) \in Nat
        /\ Len(msgs[j.c]) <= Len(msgs'[j.c])
    BY <2>1 DEF TypeOK, Grown
  <2>3. /\ j.op \in {"edit", "delete"} => j.about \in 1..Len(msgs'[j.c])
        /\ j.op \in GroupOps \cup {"send"} /\ j.written =>
              j.number \in 1..Len(msgs'[j.c]) + 1
    BY <2>2 DEF Known
  <2>5. conv[j.c].kind # "none" => conv'[j.c].kind = conv[j.c].kind
    BY <2>1 DEF Grown
  <2> QED
    BY <1>2, <2>1, <2>3, <2>5 DEF Known, Creates, GroupOps
<1> QED
  BY <1>1, <1>2

\* Every call in flight after a step was known to be before it.
LEMMA JobsStayKnown ==
  ASSUME IInv, TypeOK', HistoryInOrder', \A c \in Conversations : Grown(c),
         \A q \in Threads : \E k \in Jobs :
            /\ job'[q] = k /\ Known(k)
            /\ k.op \in Creates => conv'[k.c].kind = "none"
  PROVE  JobsKnown'
<1>1. ASSUME NEW k \in Jobs, Known(k), k.op \in Creates => conv'[k.c].kind = "none"
      PROVE  Known(k)'
  <2>1. k.op # "idle" => Grown(k.c)
    BY <1>1 DEF Known
  <2> QED
    BY <1>1, <2>1, KnownStays DEF IInv
<1>2. ASSUME NEW q \in Threads, NEW k \in Jobs, job'[q] = k, Known(k)'
      PROVE  Known(job[q])'
  BY <1>2 DEF Known, GroupKnown
<1> QED
  BY <1>1, <1>2 DEF JobsKnown

LEMMA TablesStay ==
  ASSUME IInv, UNCHANGED <<conv, part, msgs>>, blocks' \subseteq Users \X Users,
         calls' \in 0..MaxCalls, job' \in [Threads -> Jobs]
  PROVE  /\ TypeOK' /\ HistoryInOrder' /\ Founded'
         /\ \A c \in Conversations : Grown(c)
<1>1. conv' = conv /\ part' = part /\ msgs' = msgs
  OBVIOUS
<1>2. \A c \in Conversations : Members(c)' = Members(c) /\ Admins(c)' = Admins(c)
  BY <1>1 DEF Members, Admins
<1>3. TypeOK'
  BY <1>1, <1>2 DEF IInv, TypeOK
<1>4. HistoryInOrder' /\ Founded'
  BY <1>1, <1>2 DEF IInv, HistoryInOrder, Founded
<1>5. \A c \in Conversations : Grown(c)
  BY <1>1 DEF Grown, IInv, TypeOK
<1> QED
  BY <1>3, <1>4, <1>5

\* A call begins: the tables are as they were.
LEMMA StartKeeps ==
  ASSUME IInv, NEW p \in Threads, NEW j \in Jobs, Start(p, j),
         j.op # "idle", Known(j), j.op \in Creates => ~Reserved(j.c)
  PROVE  IInv'
<1>1. /\ job[p] = Idle /\ calls < MaxCalls /\ calls' = calls + 1
      /\ job' = [job EXCEPT ![p] = j] /\ UNCHANGED tables
  BY DEF Start, Free
<1>2. /\ job \in [Threads -> Jobs] /\ job' \in [Threads -> Jobs]
      /\ calls \in Nat /\ calls' \in 0..MaxCalls
      /\ job'[p] = j /\ \A q \in Threads \ {p} : job'[q] = job[q]
  BY <1>1, CallAssumption DEF IInv, TypeOK
<1>3. /\ TypeOK' /\ HistoryInOrder' /\ Founded'
      /\ \A c \in Conversations : Grown(c)
  BY <1>1, <1>2, TablesStay DEF tables, IInv, TypeOK
<1>4. JobsKnown'
  <2>1. \A k \in Jobs : Known(k) /\ k.op \in Creates => conv'[k.c].kind = "none"
    BY <1>1 DEF Known, tables
  <2>2. \A q \in Threads : \E k \in Jobs : job'[q] = k /\ Known(k)
    BY <1>2 DEF IInv, JobsKnown
  <2> QED
    BY <1>3, <2>1, <2>2, JobsStayKnown
<1>5. OneCreator'
  BY <1>2 DEF IInv, OneCreator, Reserved, Creates
<1>6. Budget'
  <2>1. InFlight' = InFlight \cup {p} /\ p \notin InFlight
    BY <1>1, <1>2 DEF InFlight, Idle
  <2>2. IsFiniteSet(InFlight) /\ Cardinality(InFlight) \in Nat
    BY FS_CardinalityType DEF IInv, Budget
  <2>3. IsFiniteSet(InFlight') /\ Cardinality(InFlight') = Cardinality(InFlight) + 1
    BY <2>1, <2>2, FS_AddElement
  <2>4. ASSUME NEW c \in Conversations
        PROVE  Len(msgs'[c]) + 2 * Cardinality(InFlight') <= 2 * calls'
    <3>1. Len(msgs[c]) + 2 * Cardinality(InFlight) <= 2 * calls
          /\ Len(msgs[c]) \in Nat /\ msgs'[c] = msgs[c]
      BY <1>1 DEF IInv, Budget, TypeOK, tables
    <3> QED
      BY <1>1, <1>2, <2>2, <2>3, <3>1
  <2>5. ASSUME NEW c \in Conversations, NEW u \in Users
        PROVE  part'[c][u].since + Cardinality(InFlight')
                 <= Cardinality(Users) + calls'
    <3>1. /\ part[c][u].since + Cardinality(InFlight) <= Cardinality(Users) + calls
          /\ part[c][u].since \in Nat /\ part' = part
          /\ Cardinality(Users) \in Nat
      <4>1. Cardinality(Users) \in Nat
        BY UsersAssumption, FS_CardinalityType
      <4> QED
        BY <1>1, <4>1, CallAssumption DEF IInv, Budget, TypeOK, Parts, tables
    <3> QED
      BY <1>1, <1>2, <2>2, <2>3, <3>1
  <2> QED
    BY <2>3, <2>4, <2>5 DEF Budget
<1> QED
  BY <1>3, <1>4, <1>5, <1>6 DEF IInv

\* A call in flight writes down what it has read; the tables are as they were.
LEMMA RecordKeeps ==
  ASSUME IInv, NEW p \in Threads, NEW j \in Jobs,
         job' = [job EXCEPT ![p] = j], UNCHANGED <<tables, calls>>,
         j.op = job[p].op, j.c = job[p].c, Known(j)
  PROVE  IInv'
<1>1. /\ job \in [Threads -> Jobs] /\ job' \in [Threads -> Jobs]
      /\ calls' = calls /\ calls' \in 0..MaxCalls /\ UNCHANGED tables
      /\ job'[p] = j /\ \A q \in Threads \ {p} : job'[q] = job[q]
  BY DEF IInv, TypeOK
<1>2. /\ TypeOK' /\ HistoryInOrder' /\ Founded'
      /\ \A c \in Conversations : Grown(c)
  BY <1>1, TablesStay DEF tables, IInv, TypeOK
<1>3. JobsKnown'
  <2>1. \A k \in Jobs : Known(k) /\ k.op \in Creates => conv'[k.c].kind = "none"
    BY <1>1 DEF Known, tables
  <2>2. \A q \in Threads : \E k \in Jobs : job'[q] = k /\ Known(k)
    BY <1>1 DEF IInv, JobsKnown
  <2> QED
    BY <1>2, <2>1, <2>2, JobsStayKnown
<1>4. \A q \in Threads : job'[q].op = job[q].op /\ job'[q].c = job[q].c
  BY <1>1
<1>5. OneCreator'
  BY <1>4 DEF IInv, OneCreator
<1>6. Budget'
  <2>1. InFlight' = InFlight
    BY <1>4 DEF InFlight
  <2> QED
    BY <1>1, <2>1 DEF IInv, Budget, tables
<1> QED
  BY <1>2, <1>3, <1>5, <1>6 DEF IInv

\* A call ends: what it adds to the tables fits in the room that it leaves.
LEMMA FinishKeeps ==
  ASSUME IInv, NEW p \in Threads, job[p].op # "idle", Finish(p),
         TablesTyped', HistoryInOrder', Founded',
         \A c \in Conversations :
            /\ Grown(c) /\ Len(msgs'[c]) <= Len(msgs[c]) + 2
            /\ \A u \in Users :
                  \/ part'[c][u].since <= Cardinality(Users)
                  \/ \E v \in Users : part'[c][u].since <= part[c][v].since + 1,
         \A q \in Threads \ {p} :
            job[q].op \in Creates => conv'[job[q].c].kind = "none"
  PROVE  IInv'
<1>1. /\ job \in [Threads -> Jobs] /\ job' \in [Threads -> Jobs]
      /\ calls' = calls /\ calls \in Nat
      /\ job'[p] = Idle /\ \A q \in Threads \ {p} : job'[q] = job[q]
  <2>1. Idle \in Jobs
    BY CallAssumption DEF Idle, Jobs, Ops, MessageStatus, Numbers
  <2> QED
    BY <2>1 DEF Finish, IInv, TypeOK
<1>2. TypeOK'
  BY <1>1 DEF IInv, TypeOK, TablesTyped
<1>3. JobsKnown'
  <2>1. Idle \in Jobs /\ Known(Idle) /\ Idle.op \notin Creates
    BY <1>1 DEF Known, Idle, Creates, GroupOps
  <2>2. ASSUME NEW q \in Threads
        PROVE  \E k \in Jobs : /\ job'[q] = k /\ Known(k)
                               /\ k.op \in Creates => conv'[k.c].kind = "none"
    <3>1. CASE q = p
      BY <1>1, <2>1, <3>1
    <3>2. CASE q # p
      BY <1>1, <3>2 DEF IInv, JobsKnown
    <3> QED
      BY <3>1, <3>2
  <2> QED
    BY <1>2, <2>2, JobsStayKnown
<1>4. OneCreator'
  BY <1>1 DEF IInv, OneCreator, Idle, Creates
<1>5. Budget'
  <2>1. InFlight = InFlight' \cup {p} /\ p \notin InFlight' /\ InFlight' \subseteq InFlight
    BY <1>1 DEF InFlight, Idle
  <2>2. IsFiniteSet(InFlight) /\ Cardinality(InFlight) \in Nat
    BY FS_CardinalityType DEF IInv, Budget
  <2>3. IsFiniteSet(InFlight') /\ Cardinality(InFlight') \in Nat
    BY <2>1, <2>2, FS_Subset, FS_CardinalityType
  <2>4. Cardinality(InFlight) = Cardinality(InFlight') + 1
    BY <2>1, <2>3, FS_AddElement
  <2>5. ASSUME NEW c \in Conversations
        PROVE  Len(msgs'[c]) + 2 * Cardinality(InFlight') <= 2 * calls'
    <3>1. /\ Len(msgs[c]) + 2 * Cardinality(InFlight) <= 2 * calls
          /\ Len(msgs'[c]) <= Len(msgs[c]) + 2
          /\ Len(msgs[c]) \in Nat /\ Len(msgs'[c]) \in Nat
      BY DEF IInv, Budget, TypeOK, TablesTyped
    <3> QED
      BY <1>1, <2>3, <2>4, <3>1
  <2>6. ASSUME NEW c \in Conversations, NEW u \in Users
        PROVE  part'[c][u].since + Cardinality(InFlight')
                 <= Cardinality(Users) + calls'
    <3>1. /\ Cardinality(Users) \in Nat /\ part'[c][u].since \in Nat
          /\ \A v \in Users : part[c][v].since \in Nat
      <4>1. Cardinality(Users) \in Nat
        BY UsersAssumption, FS_CardinalityType
      <4> QED
        BY <4>1, CallAssumption DEF IInv, TypeOK, TablesTyped, Parts
    <3>2. CASE part'[c][u].since <= Cardinality(Users)
      <4>1. Len(msgs[c]) + 2 * Cardinality(InFlight) <= 2 * calls
            /\ Len(msgs[c]) \in Nat
        BY DEF IInv, Budget, TypeOK
      <4>2. Cardinality(InFlight') <= calls
        BY <1>1, <2>3, <2>4, <4>1
      <4> QED
        BY <1>1, <2>3, <3>1, <3>2, <4>2
    <3>3. ASSUME NEW v \in Users, part'[c][u].since <= part[c][v].since + 1
          PROVE  part'[c][u].since + Cardinality(InFlight')
                   <= Cardinality(Users) + calls'
      <4>1. part[c][v].since + Cardinality(InFlight) <= Cardinality(Users) + calls
        BY DEF IInv, Budget
      <4>2. PICK now \in Nat, new \in Nat, was \in Nat, size \in Nat :
               /\ now = Cardinality(InFlight') /\ size = Cardinality(Users)
               /\ new = part'[c][u].since /\ was = part[c][v].since
        BY <2>3, <3>1
      <4>3. new <= was + 1 /\ was + (now + 1) <= size + calls
        BY <2>4, <3>3, <4>1, <4>2
      <4>4. new + now <= size + calls
        BY <1>1, <4>3
      <4> QED
        BY <1>1, <4>2, <4>4
    <3> QED
      BY <3>2, <3>3
  <2> QED
    BY <2>3, <2>5, <2>6 DEF Budget
<1> QED
  BY <1>2, <1>3, <1>4, <1>5 DEF IInv

-----------------------------------------------------------------------------
(* The calls begin                                                         *)

LEMMA Readings ==
  ASSUME IInv, NEW c \in Conversations
  PROVE  /\ Members(c) \in SUBSET Users /\ IsFiniteSet(Members(c))
         /\ Admins(c) \in SUBSET Members(c) /\ IsFiniteSet(Admins(c))
         /\ \A u \in Users : Groups(u) \in SUBSET Conversations
         /\ Idle \in Jobs
<1>1. /\ Members(c) \in SUBSET Users /\ Admins(c) \in SUBSET Members(c)
      /\ \A u \in Users : Groups(u) \in SUBSET Conversations
  BY DEF Members, Admins, Groups
<1>2. IsFiniteSet(Members(c)) /\ IsFiniteSet(Admins(c))
  BY <1>1, UsersAssumption, FS_Subset
<1>5. Idle \in Jobs
  BY CallAssumption DEF Idle, Jobs, Ops, MessageStatus, Numbers
<1> QED
  BY <1>1, <1>2, <1>5

LEMMA BeginDirectKeeps ==
  ASSUME IInv, NEW p \in Threads, NEW c \in Conversations,
         NEW u \in Users, NEW v \in Users, BeginDirect(p, c, u, v)
  PROVE  IInv'
<1>1. PICK j : j = [Idle EXCEPT !.op = "direct", !.c = c, !.by = u, !.on = v,
                                !.members = {u, v}, !.twins = Directs(u, v)]
  OBVIOUS
<1>2. u # v /\ Directs(u, v) = {} /\ Create(p, j)
  BY <1>1 DEF BeginDirect, NoDirect
<1>3. j \in Jobs
  BY <1>1, <1>2, Readings DEF Jobs, Ops
<1>4. /\ j.op = "direct" /\ j.c = c /\ j.by = u /\ j.on = v
      /\ j.members = {u, v} /\ j.twins = {}
  BY <1>1, <1>2 DEF Idle
<1>5. Known(j) /\ Start(p, j) /\ ~Reserved(c)
  BY <1>2, <1>4 DEF Known, Create, Creates, GroupOps
<1> QED
  BY <1>3, <1>4, <1>5, StartKeeps

LEMMA BeginGroupKeeps ==
  ASSUME IInv, NEW p \in Threads, NEW c \in Conversations, NEW u \in Users,
         NEW others \in SUBSET Users, BeginGroup(p, c, u, others)
  PROVE  IInv'
<1>1. PICK j : j = [Idle EXCEPT !.op = "group", !.c = c, !.by = u,
                                !.members = others \cup {u}, !.twins = Groups(u)]
  OBVIOUS
<1>2. /\ Cardinality(Groups(u)) < MaxGroups /\ u \notin others
      /\ Cardinality(others) <= MaxSize - 1 /\ Create(p, j)
  BY <1>1 DEF BeginGroup
<1>3. j \in Jobs
  BY <1>1, Readings DEF Jobs, Ops
<1>4. /\ j.op = "group" /\ j.c = c /\ j.by = u
      /\ j.members = others \cup {u} /\ j.twins = Groups(u)
  BY <1>1 DEF Idle
<1>5. Cardinality(others \cup {u}) <= MaxSize
  <2>1. IsFiniteSet(others) /\ Cardinality(others) \in Nat
    BY UsersAssumption, FS_Subset, FS_CardinalityType
  <2>2. Cardinality(others \cup {u}) = Cardinality(others) + 1
    BY <1>2, <2>1, FS_AddElement
  <2> QED
    BY <1>2, <2>1, <2>2, LimitAssumption
<1>6. Known(j) /\ Start(p, j) /\ ~Reserved(c)
  BY <1>2, <1>4, <1>5 DEF Known, Create, Creates, GroupOps
<1> QED
  BY <1>3, <1>4, <1>6, StartKeeps

LEMMA BeginSendKeeps ==
  ASSUME IInv, NEW p \in Threads, NEW c \in Conversations, NEW u \in Users,
         BeginSend(p, c, u)
  PROVE  IInv'
<1>1. PICK j : j = [Idle EXCEPT !.op = "send", !.c = c, !.by = u]
  OBVIOUS
<1>2. conv[c].kind # "none" /\ Start(p, j)
  BY <1>1 DEF BeginSend
<1>3. j \in Jobs
  BY <1>1, Readings DEF Jobs, Ops
<1>4. j.op = "send" /\ j.c = c /\ j.by = u /\ j.written = FALSE
  BY <1>1 DEF Idle
<1>5. Known(j)
  BY <1>2, <1>4 DEF Known, Creates, GroupOps
<1> QED
  BY <1>2, <1>3, <1>4, <1>5, StartKeeps DEF Creates

LEMMA BeginEditKeeps ==
  ASSUME IInv, NEW p \in Threads, NEW c \in Conversations, NEW u \in Users,
         NEW n \in Numbers, BeginEdit(p, c, u, n) \/ BeginDelete(p, c, u, n)
  PROVE  IInv'
<1>1. n \in 1..Len(msgs[c]) /\ Row(c, n) = n /\ msgs[c][n] \in Messages
  BY HistoryRead DEF IInv, BeginEdit, BeginDelete
<1>2. conv[c].kind # "none" /\ conv[c].last \in Numbers
  BY <1>1 DEF IInv, Founded, TypeOK, Convs
<1>3. CASE BeginEdit(p, c, u, n)
  <2>1. PICK j : j = [Idle EXCEPT !.op = "edit", !.c = c, !.by = u,
                                  !.about = n, !.read = msgs[c][n].status]
    OBVIOUS
  <2>2. Start(p, j) /\ msgs[c][n].status # "deleted"
    BY <1>1, <1>3, <2>1 DEF BeginEdit, Editable
  <2>3. j \in Jobs
    BY <1>1, <2>1, Readings DEF Jobs, Ops, Messages
  <2>4. /\ j.op = "edit" /\ j.c = c /\ j.by = u /\ j.about = n
        /\ j.read # "deleted"
    BY <2>1, <2>2 DEF Idle
  <2>5. Known(j)
    BY <1>1, <1>2, <2>4 DEF Known, Creates, GroupOps
  <2> QED
    BY <2>2, <2>3, <2>4, <2>5, StartKeeps DEF Creates
<1>4. CASE BeginDelete(p, c, u, n)
  <2>1. PICK j : j = [Idle EXCEPT !.op = "delete", !.c = c, !.by = u,
                                  !.about = n, !.read = msgs[c][n].status,
                                  !.last = conv[c].last]
    OBVIOUS
  <2>2. Start(p, j)
    BY <1>1, <1>4, <2>1 DEF BeginDelete
  <2>3. j \in Jobs
    BY <1>1, <1>2, <2>1, Readings DEF Jobs, Ops, Messages
  <2>4. j.op = "delete" /\ j.c = c /\ j.by = u /\ j.about = n
    BY <2>1 DEF Idle
  <2>5. Known(j)
    BY <1>1, <1>2, <2>4 DEF Known, Creates, GroupOps
  <2> QED
    BY <2>2, <2>3, <2>4, <2>5, StartKeeps DEF Creates
<1> QED
  BY <1>3, <1>4

LEMMA BeginAnswerKeeps ==
  ASSUME IInv, NEW p \in Threads, NEW c \in Conversations, NEW u \in Users,
         NEW op \in {"accept", "ignore"}, BeginAnswer(p, c, u, op)
  PROVE  IInv'
<1>1. PICK j : j = [Idle EXCEPT !.op = op, !.c = c, !.by = u]
  OBVIOUS
<1>2. Start(p, j) /\ part[c][u].request = "pending"
  BY <1>1 DEF BeginAnswer
<1>3. conv[c].kind = "direct"
  BY <1>2 DEF IInv, TypeOK
<1>4. j \in Jobs
  BY <1>1, Readings DEF Jobs, Ops
<1>5. j.op = op /\ j.c = c /\ j.by = u
  BY <1>1 DEF Idle
<1>6. Known(j)
  BY <1>3, <1>5 DEF Known, Creates, GroupOps
<1> QED
  BY <1>2, <1>4, <1>5, <1>6, StartKeeps DEF Creates

LEMMA BeginAddKeeps ==
  ASSUME IInv, NEW p \in Threads, NEW c \in Conversations,
         NEW u \in Users, NEW v \in Users, BeginAdd(p, c, u, v)
  PROVE  IInv'
<1>0. PICK n \in Numbers : n = IF part[c][v].since > 0 THEN 1 ELSE 0
  BY CallAssumption DEF Numbers
<1>1. PICK j : j = [Idle EXCEPT !.op = "add", !.c = c, !.by = u, !.on = v,
                      !.members = Members(c), !.admins = Admins(c), !.about = n]
  OBVIOUS
<1>2. /\ Start(p, j) /\ conv[c].kind = "group" /\ v \notin Members(c)
      /\ Cardinality(Members(c)) < MaxSize
  BY <1>0, <1>1 DEF BeginAdd, CanManage, Open, HasRoom
<1>3. j \in Jobs
  BY <1>1, Readings DEF Jobs, Ops, GroupOps
<1>4. /\ j.op = "add" /\ j.c = c /\ j.by = u /\ j.on = v /\ j.heir = {}
      /\ j.members = Members(c) /\ j.admins = Admins(c) /\ j.written = FALSE
  BY <1>1 DEF Idle
<1>5. GroupKnown(j)
  BY <1>2, <1>4, Readings DEF GroupKnown
<1>6. Known(j)
  BY <1>2, <1>4, <1>5 DEF Known, Creates, GroupOps
<1> QED
  BY <1>2, <1>3, <1>4, <1>6, StartKeeps DEF Creates

\* remove, promote and demote.
LEMMA BeginChangeKeeps ==
  ASSUME IInv, NEW p \in Threads, NEW c \in Conversations,
         NEW u \in Users, NEW v \in Users,
         \/ BeginRemove(p, c, u, v) \/ BeginPromote(p, c, u, v)
         \/ BeginDemote(p, c, u, v)
  PROVE  IInv'
<1>1. /\ conv[c].kind = "group"
      /\ \E op \in {"remove", "promote", "demote"} :
            /\ StartGroup(p, op, c, u, v)
            /\ op = "demote" => Cardinality(Admins(c)) > 1
  BY DEF BeginRemove, BeginPromote, BeginDemote, CanManage, Open
<1>2. PICK op \in {"remove", "promote", "demote"} :
         /\ StartGroup(p, op, c, u, v)
         /\ op = "demote" => Cardinality(Admins(c)) > 1
  BY <1>1
<1>3. PICK j : j = [Idle EXCEPT !.op = op, !.c = c, !.by = u, !.on = v,
                      !.members = Members(c), !.admins = Admins(c)]
  OBVIOUS
<1>4. Start(p, j)
  BY <1>2, <1>3 DEF StartGroup
<1>5. j \in Jobs
  BY <1>3, Readings DEF Jobs, Ops, GroupOps
<1>6. /\ j.op = op /\ j.c = c /\ j.by = u /\ j.on = v /\ j.heir = {}
      /\ j.members = Members(c) /\ j.admins = Admins(c) /\ j.written = FALSE
  BY <1>3 DEF Idle
<1>7. ASSUME op = "demote"
      PROVE  Admins(c) \ {v} # {}
  <2>1. SUFFICES ASSUME Admins(c) \subseteq {v}
                 PROVE  FALSE
    OBVIOUS
  <2>2. IsFiniteSet({v}) /\ Cardinality({v}) = 1
    BY FS_Singleton
  <2>3. Cardinality(Admins(c)) <= 1 /\ Cardinality(Admins(c)) \in Nat
    BY <2>1, <2>2, FS_Subset, FS_CardinalityType
  <2> QED
    BY <1>2, <1>7, <2>3
<1>8. GroupKnown(j)
  BY <1>6, <1>7, Readings DEF GroupKnown
<1>9. Known(j)
  BY <1>1, <1>6, <1>8 DEF Known, Creates, GroupOps
<1> QED
  BY <1>4, <1>5, <1>6, <1>9, StartKeeps DEF Creates

\* Succession finds an administrator, nobody, or a remaining member.
LEMMA HeirFound ==
  ASSUME IInv, NEW c \in Conversations, NEW u \in Members(c),
         NEW h \in Heirs(c, u)
  PROVE  /\ h \in SUBSET Users
         /\ \/ h = {} /\ Admins(c) \ {u} # {}
            \/ h = {} /\ Members(c) = {u}
            \/ \E v \in Members(c) \ {u} : h = {v}
BY Readings DEF Heirs

LEMMA BeginLeaveKeeps ==
  ASSUME IInv, NEW p \in Threads, NEW c \in Conversations, NEW u \in Users,
         BeginLeave(p, c, u)
  PROVE  IInv'
<1>1. PICK h \in Heirs(c, u) :
         Start(p, [Idle EXCEPT !.op = "leave", !.c = c, !.by = u, !.on = u,
                               !.members = Members(c), !.admins = Admins(c),
                               !.heir = h])
  BY DEF BeginLeave
<1>2. PICK j : j = [Idle EXCEPT !.op = "leave", !.c = c, !.by = u, !.on = u,
                               !.members = Members(c), !.admins = Admins(c),
                               !.heir = h]
  OBVIOUS
<1>3. conv[c].kind = "group" /\ u \in Members(c) /\ Start(p, j)
  BY <1>1, <1>2 DEF BeginLeave, Open
<1>4. /\ h \in SUBSET Users
      /\ \/ h = {} /\ Admins(c) \ {u} # {}
         \/ h = {} /\ Members(c) = {u}
         \/ \E v \in Members(c) \ {u} : h = {v}
  BY <1>1, <1>3, HeirFound
<1>5. j \in Jobs
  BY <1>2, <1>4, Readings DEF Jobs, Ops, GroupOps
<1>6. /\ j.op = "leave" /\ j.c = c /\ j.by = u /\ j.on = u /\ j.heir = h
      /\ j.members = Members(c) /\ j.admins = Admins(c) /\ j.written = FALSE
  BY <1>2 DEF Idle
<1>7. GroupKnown(j)
  BY <1>4, <1>6, Readings DEF GroupKnown
<1>8. Known(j)
  BY <1>3, <1>6, <1>7 DEF Known, Creates, GroupOps
<1> QED
  BY <1>3, <1>5, <1>6, <1>8, StartKeeps DEF Creates

-----------------------------------------------------------------------------
(* The calls write                                                         *)

\* A number read for a message is the next one.
LEMMA NumberRead ==
  ASSUME IInv, NEW p \in Threads, job[p].op \in GroupOps \cup {"send"},
         job' = [job EXCEPT ![p].written = TRUE,
                            ![p].number = NextNumber(job[p].c)],
         UNCHANGED <<tables, calls>>
  PROVE  IInv'
<1>1. job[p] \in Jobs /\ Known(job[p]) /\ job \in [Threads -> Jobs]
  BY DEF IInv, TypeOK, JobsKnown
<1>2. PICK k \in Jobs : k = job[p]
  BY <1>1
<1>3. k.c \in Conversations /\ k.op # "idle"
  BY <1>1, <1>2 DEF Known, GroupOps
<1>4. NextNumber(k.c) = Len(msgs[k.c]) + 1 /\ Len(msgs[k.c]) \in Nat
  BY <1>3, HistoryRead DEF IInv
<1>5. NextNumber(k.c) \in Numbers
  <2>1. Len(msgs[k.c]) + 2 \in Numbers
    BY <1>2, <1>3, RoomLeft DEF IInv
  <2> QED
    BY <1>4, <2>1, CallAssumption DEF Numbers
<1>6. PICK j : j = [k EXCEPT !.written = TRUE, !.number = NextNumber(k.c)]
  OBVIOUS
<1>7. j \in Jobs
  BY <1>5, <1>6 DEF Jobs
<1>8. /\ j.op = k.op /\ j.c = k.c /\ j.by = k.by /\ j.on = k.on
      /\ j.about = k.about /\ j.members = k.members /\ j.admins = k.admins
      /\ j.twins = k.twins /\ j.read = k.read
      /\ j.heir = k.heir /\ j.number = NextNumber(k.c)
  BY <1>6 DEF Jobs
<1>9. Known(j)
  BY <1>1, <1>2, <1>4, <1>8 DEF Known, GroupKnown
<1>10. job' = [job EXCEPT ![p] = j]
  BY <1>1, <1>2, <1>6
<1> QED
  BY <1>2, <1>7, <1>8, <1>9, <1>10, RecordKeeps

LEMMA WriteEditKeeps ==
  ASSUME IInv, NEW p \in Threads, WriteEdit(p)
  PROVE  IInv'
<1>1. job[p] \in Jobs /\ Known(job[p]) /\ job \in [Threads -> Jobs]
  BY DEF IInv, TypeOK, JobsKnown
<1>2. PICK k \in Jobs : k = job[p]
  BY <1>1
<1>3. /\ k.op = "edit" /\ UNCHANGED <<tables, calls>>
      /\ job' = [job EXCEPT ![p].written = TRUE, ![p].last = conv[k.c].last]
  BY <1>2 DEF WriteEdit
<1>4. conv[k.c].last \in Numbers
  BY <1>1, <1>2, <1>3 DEF Known, IInv, TypeOK, Convs
<1>5. PICK j : j = [k EXCEPT !.written = TRUE, !.last = conv[k.c].last]
  OBVIOUS
<1>6. j \in Jobs
  BY <1>4, <1>5 DEF Jobs
<1>7. /\ j.op = k.op /\ j.c = k.c /\ j.by = k.by
      /\ j.about = k.about /\ j.read = k.read
  BY <1>5 DEF Jobs
<1>8. Known(j)
  BY <1>1, <1>2, <1>3, <1>7 DEF Known, Creates, GroupOps
<1>9. job' = [job EXCEPT ![p] = j]
  BY <1>1, <1>2, <1>3, <1>5
<1> QED
  BY <1>2, <1>3, <1>6, <1>7, <1>8, <1>9, RecordKeeps

\* A call ends and leaves the tables as they were.
LEMMA NothingWritten ==
  ASSUME IInv, NEW p \in Threads, job[p].op # "idle", Finish(p),
         UNCHANGED tables
  PROVE  IInv'
<1>1. Idle \in Jobs /\ job \in [Threads -> Jobs]
  BY CallAssumption
     DEF Idle, Jobs, Ops, MessageStatus, Numbers, IInv, TypeOK
<1>2. /\ TypeOK' /\ HistoryInOrder' /\ Founded'
      /\ \A c \in Conversations : Grown(c)
  <2>1. job' \in [Threads -> Jobs] /\ calls' \in 0..MaxCalls
    BY <1>1 DEF Finish, IInv, TypeOK
  <2> QED
    BY <2>1, TablesStay DEF tables, IInv, TypeOK
<1>3. TablesTyped'
  BY <1>2 DEF TypeOK, TablesTyped
<1>4. ASSUME NEW c \in Conversations
      PROVE  /\ Len(msgs'[c]) <= Len(msgs[c]) + 2
             /\ \A u \in Users :
                   \E v \in Users : part'[c][u].since <= part[c][v].since + 1
  <2>1. msgs' = msgs /\ part' = part /\ Len(msgs[c]) \in Nat
    BY DEF tables, IInv, TypeOK
  <2>2. \A u \in Users : part[c][u].since \in Nat
    <3>1. Cardinality(Users) \in Nat
      BY UsersAssumption, FS_CardinalityType
    <3> QED
      BY <3>1, CallAssumption DEF IInv, TypeOK, Parts
  <2> QED
    BY <2>1, <2>2
<1>5. \A q \in Threads : job[q].op \in Creates => conv'[job[q].c].kind = "none"
  BY DEF IInv, JobsKnown, Known, tables
<1> QED
  BY <1>2, <1>3, <1>4, <1>5, FinishKeeps

LEMMA WriteKeeps ==
  ASSUME IInv, NEW p \in Threads, Write(p)
  PROVE  IInv'
<1>1. CASE WriteSend(p)
  BY <1>1, NumberRead DEF WriteSend
<1>2. CASE WriteEdit(p)
  BY <1>2, WriteEditKeeps
<1>3. CASE WriteGroup(p)
  <2>1. job[p].op \in GroupOps /\ job[p].op # "idle" /\ UNCHANGED tables
    BY <1>3 DEF WriteGroup, GroupOps
  <2>2. CASE Finish(p)
    BY <2>1, <2>2, NothingWritten
  <2>3. CASE ~Finish(p)
    BY <1>3, <2>1, <2>3, NumberRead DEF WriteGroup
  <2> QED
    BY <2>2, <2>3
<1> QED
  BY <1>1, <1>2, <1>3 DEF Write

-----------------------------------------------------------------------------
(* The calls commit                                                        *)

\* A step that changes one conversation alone.
Only(c) ==
    /\ blocks' = blocks
    /\ conv' \in [Conversations -> Convs]
    /\ part' \in [Conversations -> [Users -> Parts]]
    /\ msgs' \in [Conversations -> Seq(Messages)]
    /\ \A d \in Conversations \ {c} :
          conv'[d] = conv[d] /\ part'[d] = part[d] /\ msgs'[d] = msgs[d]

\* What it leaves there.
Sound(c) ==
    /\ conv'[c].kind # "none" /\ conv'[c].creator \in Users
    /\ conv'[c].kind # "direct" => \A u \in Users : part'[c][u].request = "none"
    /\ conv'[c].kind = "direct"
         => Cardinality(Members(c)') = 2 /\ Admins(c)' = {}
    /\ \A i \in 1..Len(msgs'[c]) : msgs'[c][i].number = i
    /\ conv'[c].last = Len(msgs'[c])
    /\ Grown(c)

LEMMA MembersOf ==
  ASSUME NEW c, part'[c] = part[c]
  PROVE  Members(c)' = Members(c) /\ Admins(c)' = Admins(c)
<1>1. Members(c)' = Members(c)
  BY DEF Members
<1> QED
  BY <1>1 DEF Admins

LEMMA OneChanged ==
  ASSUME IInv, NEW c \in Conversations, Only(c), Sound(c)
  PROVE  /\ TablesTyped' /\ HistoryInOrder' /\ Founded'
         /\ \A d \in Conversations : Grown(d)
<1>1. ASSUME NEW d \in Conversations \ {c}
      PROVE  Members(d)' = Members(d) /\ Admins(d)' = Admins(d)
  <2>1. part'[d] = part[d]
    BY DEF Only
  <2> QED
    BY <2>1, MembersOf
<1>2. TablesTyped'
  <2>1. ASSUME NEW d \in Conversations
        PROVE  /\ conv'[d].kind # "direct"
                    => \A u \in Users : part'[d][u].request = "none"
               /\ conv'[d].kind = "direct"
                    => Cardinality(Members(d)') = 2 /\ Admins(d)' = {}
    <3>1. CASE d = c
      BY <3>1 DEF Sound
    <3>2. CASE d # c
      <4>1. /\ conv[d].kind # "direct"
                 => \A u \in Users : part[d][u].request = "none"
            /\ conv[d].kind = "direct"
                 => Cardinality(Members(d)) = 2 /\ Admins(d) = {}
        BY DEF IInv, TypeOK
      <4>2. conv'[d] = conv[d] /\ part'[d] = part[d]
        BY <3>2 DEF Only
      <4> QED
        BY <1>1, <3>2, <4>1, <4>2
    <3> QED
      BY <3>1, <3>2
  <2>2. blocks' \subseteq Users \X Users
    BY DEF Only, IInv, TypeOK
  <2> QED
    BY <2>1, <2>2 DEF Only, TablesTyped
<1>3. HistoryInOrder'
  <2>1. ASSUME NEW d \in Conversations
        PROVE  /\ \A i \in 1..Len(msgs'[d]) : msgs'[d][i].number = i
               /\ conv'[d].last = Len(msgs'[d])
               /\ DOMAIN msgs'[d] = 1..Len(msgs'[d])
    <3>1. DOMAIN msgs'[d] = 1..Len(msgs'[d]) /\ DOMAIN msgs[d] = 1..Len(msgs[d])
      BY DEF Only, IInv, TypeOK
    <3>2. CASE d = c
      BY <3>1, <3>2 DEF Sound
    <3>3. CASE d # c
      BY <3>1, <3>3 DEF Only, IInv, HistoryInOrder
    <3> QED
      BY <3>1, <3>2, <3>3
  <2> QED
    BY <2>1 DEF HistoryInOrder
<1>4. Founded'
  BY <1>1 DEF Only, Sound, IInv, Founded
<1>5. ASSUME NEW d \in Conversations
      PROVE  Grown(d)
  <2>1. CASE d = c
    BY <2>1 DEF Sound
  <2>2. CASE d # c
    <3>1. Len(msgs[d]) \in Nat
      BY DEF IInv, TypeOK
    <3> QED
      BY <1>1, <2>2, <3>1 DEF Only, Grown
  <2> QED
    BY <2>1, <2>2
<1> QED
  BY <1>2, <1>3, <1>4, <1>5

LEMMA CommitKeeps ==
  ASSUME IInv, NEW p \in Threads, job[p].op # "idle", Finish(p),
         NEW c \in Conversations, job[p].c = c, Only(c), Sound(c),
         Len(msgs'[c]) <= Len(msgs[c]) + 2,
         \A u \in Users :
            \/ part'[c][u].since <= Cardinality(Users)
            \/ \E v \in Users : part'[c][u].since <= part[c][v].since + 1
  PROVE  IInv'
<1>1. /\ TablesTyped' /\ HistoryInOrder' /\ Founded'
      /\ \A d \in Conversations : Grown(d)
  BY OneChanged
<1>2. ASSUME NEW d \in Conversations
      PROVE  /\ Len(msgs'[d]) <= Len(msgs[d]) + 2
             /\ \A u \in Users :
                  \/ part'[d][u].since <= Cardinality(Users)
                  \/ \E v \in Users : part'[d][u].since <= part[d][v].since + 1
  <2>1. CASE d = c
    BY <2>1
  <2>2. CASE d # c
    <3>1. /\ msgs'[d] = msgs[d] /\ part'[d] = part[d] /\ Len(msgs[d]) \in Nat
          /\ \A u \in Users : part[d][u].since \in Nat
      <4>1. Cardinality(Users) \in Nat
        BY UsersAssumption, FS_CardinalityType
      <4> QED
        BY <2>2, <4>1, CallAssumption DEF Only, IInv, TypeOK, Parts
    <3> QED
      BY <3>1
  <2> QED
    BY <2>1, <2>2
<1>3. ASSUME NEW q \in Threads \ {p}, job[q].op \in Creates
      PROVE  conv'[job[q].c].kind = "none"
  <2>1. job[q].c \in Conversations /\ conv[job[q].c].kind = "none"
    BY <1>3 DEF IInv, JobsKnown, Known, Creates
  <2>2. job[q].c # c
    BY <1>3, <2>1 DEF IInv, JobsKnown, OneCreator, Known, Creates
  <2> QED
    BY <2>1, <2>2 DEF Only
<1> QED
  BY <1>1, <1>2, <1>3, FinishKeeps

LEMMA SinceNat ==
  ASSUME IInv
  PROVE  /\ Cardinality(Users) \in Nat
         /\ \A c \in Conversations, u \in Users : part[c][u].since \in Nat
<1>1. Cardinality(Users) \in Nat
  BY UsersAssumption, FS_CardinalityType
<1> QED
  BY <1>1, CallAssumption DEF IInv, TypeOK, Parts

\* A message is refused, or it is the next one and the preview shows it.
LEMMA SendDoes ==
  ASSUME IInv, NEW p \in Threads, CommitSend(p), NEW c \in Conversations,
         job[p].c = c
  PROVE  /\ conv[c].kind # "none" /\ job[p].by \in Users
         /\ part' = part /\ Finish(p) /\ blocks' = blocks
         /\ \/ conv' = conv /\ msgs' = msgs
            \/ /\ Only(c)
               /\ conv'[c].kind = conv[c].kind
               /\ conv'[c].creator = conv[c].creator
               /\ conv'[c].last = Len(msgs'[c])
               /\ conv'[c].preview = Len(msgs'[c])
               /\ \E m \in Messages : /\ msgs'[c] = Append(msgs[c], m)
                                      /\ m.number = Len(msgs[c]) + 1
                                      /\ m.sender = job[p].by
<1>1. job[p] \in Jobs /\ Known(job[p])
  BY DEF IInv, TypeOK, JobsKnown
<1>2. PICK j \in Jobs : j = job[p]
  BY <1>1
<1>4. /\ j.op = "send" /\ j.by \in Users /\ Finish(p) /\ conv[c].kind # "none"
      /\ j.number \in 1..Len(msgs[c]) + 1
      /\ part' = part /\ blocks' = blocks
  BY <1>1, <1>2 DEF Known, CommitSend, Creates
<1>5. CASE Taken(c, j.number)
  BY <1>2, <1>4, <1>5 DEF CommitSend, tables
<1>6. CASE ~Taken(c, j.number)
  <2>1. /\ msgs[c] \in Seq(Messages) /\ Len(msgs[c]) \in Nat
        /\ \A n : Taken(c, n) <=> n \in 1..Len(msgs[c])
    BY HistoryRead DEF IInv
  <2>2. j.number = Len(msgs[c]) + 1
    BY <1>4, <1>6, <2>1
  <2>3. PICK m \in Messages : m = Message(j.number, j.by, FALSE)
    BY <1>4 DEF Message, Messages, MessageStatus, Jobs
  <2>4. /\ msgs' = [msgs EXCEPT ![c] = Append(msgs[c], m)]
        /\ conv' = [conv EXCEPT ![c].last = j.number, ![c].preview = j.number]
    BY <1>2, <1>6, <2>3 DEF CommitSend, Shows
  <2>5. /\ msgs \in [Conversations -> Seq(Messages)]
        /\ part \in [Conversations -> [Users -> Parts]]
        /\ conv \in [Conversations -> Convs]
    BY DEF IInv, TypeOK
  <2>6. /\ msgs' \in [Conversations -> Seq(Messages)]
        /\ msgs'[c] = Append(msgs[c], m)
        /\ \A d \in Conversations \ {c} : msgs'[d] = msgs[d]
    <3>1. PICK s \in Seq(Messages) : s = Append(msgs[c], m)
      BY <2>1, AppendProperties
    <3> QED
      BY <2>4, <2>5, <3>1
  <2>7. j.number \in Numbers
    BY DEF Jobs
  <2>8. /\ conv' \in [Conversations -> Convs]
        /\ conv'[c].kind = conv[c].kind /\ conv'[c].creator = conv[c].creator
        /\ conv'[c].last = j.number /\ conv'[c].preview = j.number
        /\ \A d \in Conversations \ {c} : conv'[d] = conv[d]
    <3>1. PICK row : row = [conv[c] EXCEPT !.last = j.number,
                                           !.preview = j.number]
      OBVIOUS
    <3>2. /\ row \in Convs
          /\ row.kind = conv[c].kind /\ row.creator = conv[c].creator
          /\ row.last = j.number /\ row.preview = j.number
      BY <2>5, <2>7, <3>1, ZenonT(60) DEF Convs
    <3>3. conv' = [conv EXCEPT ![c] = row]
      BY <2>4, <2>5, <3>1
    <3> QED
      BY <2>5, <3>2, <3>3
  <2>9. Only(c)
    BY <1>4, <2>5, <2>6, <2>8 DEF Only
  <2>10. Len(msgs'[c]) = Len(msgs[c]) + 1
    BY <2>1, <2>3, <2>6, AppendProperties
  <2>11. m.number = Len(msgs[c]) + 1 /\ m.sender = job[p].by
    BY <1>2, <2>2, <2>3 DEF Message
  <2> QED
    BY <1>2, <1>4, <2>2, <2>6, <2>8, <2>9, <2>10, <2>11
<1> QED
  BY <1>2, <1>4, <1>5, <1>6

LEMMA CommitSendKeeps ==
  ASSUME IInv, NEW p \in Threads, CommitSend(p)
  PROVE  IInv'
<1>1. PICK c \in Conversations : c = job[p].c
  BY DEF IInv, JobsKnown, Known, CommitSend
<1>2. /\ conv[c].kind # "none" /\ part' = part /\ Finish(p) /\ blocks' = blocks
      /\ job[p].op = "send"
  BY <1>1, SendDoes DEF CommitSend
<1>3. CASE conv' = conv /\ msgs' = msgs
  BY <1>2, <1>3, NothingWritten DEF tables
<1>4. CASE ~(conv' = conv /\ msgs' = msgs)
  <2>1. /\ Only(c)
        /\ conv'[c].kind = conv[c].kind /\ conv'[c].creator = conv[c].creator
        /\ conv'[c].last = Len(msgs'[c])
        /\ \E m \in Messages : /\ msgs'[c] = Append(msgs[c], m)
                               /\ m.number = Len(msgs[c]) + 1
    BY <1>1, <1>4, SendDoes
  <2>2. PICK m \in Messages : /\ msgs'[c] = Append(msgs[c], m)
                              /\ m.number = Len(msgs[c]) + 1
    BY <2>1
  <2>3. msgs[c] \in Seq(Messages) /\ Len(msgs[c]) \in Nat
    BY DEF IInv, TypeOK
  <2>4. /\ Len(msgs'[c]) = Len(msgs[c]) + 1
        /\ \A i \in 1..Len(msgs[c]) : msgs'[c][i] = msgs[c][i]
        /\ msgs'[c][Len(msgs[c]) + 1].number = Len(msgs[c]) + 1
    BY <2>2, <2>3, AppendProperties
  <2>5. Members(c)' = Members(c) /\ Admins(c)' = Admins(c)
    BY <1>2, MembersOf
  <2>6. Grown(c)
    <3>1. Len(msgs[c]) <= Len(msgs'[c])
      BY <2>3, <2>4
    <3> QED
      BY <2>1, <3>1 DEF Grown
  <2>7. \A i \in 1..Len(msgs'[c]) : msgs'[c][i].number = i
    <3>1. \A i \in 1..Len(msgs[c]) : msgs[c][i].number = i
      BY <2>3 DEF IInv, HistoryInOrder
    <3>2. ASSUME NEW i \in 1..Len(msgs'[c])
          PROVE  msgs'[c][i].number = i
      <4>1. CASE i = Len(msgs[c]) + 1
        BY <2>4, <4>1
      <4>2. CASE i # Len(msgs[c]) + 1
        <5>1. i \in 1..Len(msgs[c])
          BY <2>3, <2>4, <4>2
        <5> QED
          BY <2>4, <3>1, <5>1
      <4> QED
        BY <4>1, <4>2
    <3> QED
      BY <3>2
  <2>8. Sound(c)
    BY <1>2, <2>1, <2>5, <2>6, <2>7 DEF Sound, IInv, TypeOK, Founded
  <2>9. /\ Len(msgs'[c]) <= Len(msgs[c]) + 2
        /\ \A u \in Users : part'[c][u].since <= part[c][u].since + 1
    BY <1>2, <2>3, <2>4, SinceNat
  <2> QED
    BY <1>1, <1>2, <2>1, <2>8, <2>9, CommitKeeps
<1> QED
  BY <1>3, <1>4

\* One message gets the status st; the preview stays or becomes x.
StatusSet(p, c, st, x) ==
    /\ Only(c) /\ part' = part /\ blocks' = blocks /\ Finish(p)
    /\ conv[c].kind # "none" /\ conv'[c].kind = conv[c].kind
    /\ conv'[c].creator = conv[c].creator /\ conv'[c].last = conv[c].last
    /\ \/ conv'[c].preview = conv[c].preview
       \/ job[p].last = job[p].about /\ conv'[c].preview = x
    /\ Len(msgs'[c]) = Len(msgs[c])
    /\ \A i \in 1..Len(msgs[c]) :
          /\ msgs'[c][i].number = i
          /\ msgs'[c][i].sender = msgs[c][i].sender
          /\ msgs'[c][i].status
               = IF i = job[p].about THEN st ELSE msgs[c][i].status

LEMMA StatusChanged ==
  ASSUME IInv, NEW p \in Threads, job[p].op \in {"edit", "delete"}, Finish(p),
         NEW st \in MessageStatus, UNCHANGED <<part, blocks>>,
         NEW x \in Numbers, NEW c \in Conversations, job[p].c = c,
         msgs' = [msgs EXCEPT ![job[p].c][Row(job[p].c, job[p].about)].status = st],
         conv' = IF IsLast(job[p]) THEN [conv EXCEPT ![job[p].c].preview = x]
                 ELSE conv
  PROVE  StatusSet(p, c, st, x)
<1>1. job[p] \in Jobs /\ Known(job[p])
  BY DEF IInv, TypeOK, JobsKnown
<1>2. PICK n \in Numbers : n = job[p].about
  BY <1>1 DEF Jobs
<1>3. /\ n \in 1..Len(msgs[c]) /\ conv[c].kind # "none"
      /\ part' = part /\ blocks' = blocks
  BY <1>1, <1>2 DEF Known, Creates
<1>4. /\ msgs[c] \in Seq(Messages) /\ Len(msgs[c]) \in Nat
      /\ msgs[c][n] \in Messages /\ Row(c, n) = n
  BY <1>3, HistoryRead DEF IInv
<1>5. /\ msgs \in [Conversations -> Seq(Messages)]
      /\ part \in [Conversations -> [Users -> Parts]]
      /\ conv \in [Conversations -> Convs]
  BY DEF IInv, TypeOK
<1>6. PICK m \in Messages : m = [msgs[c][n] EXCEPT !.status = st]
  BY <1>4 DEF Messages
<1>7. /\ m.number = msgs[c][n].number /\ m.sender = msgs[c][n].sender
      /\ m.status = st
  BY <1>4, <1>6 DEF Messages
<1>8. PICK s \in Seq(Messages) : s = [msgs[c] EXCEPT ![n] = m]
  <2>1. [msgs[c] EXCEPT ![n] = m] \in Seq(Messages)
    BY <1>3, <1>4, ExceptSeq
  <2> QED
    BY <2>1
<1>9. /\ Len(s) = Len(msgs[c])
      /\ \A i \in 1..Len(msgs[c]) : s[i] = IF i = n THEN m ELSE msgs[c][i]
  BY <1>3, <1>4, <1>8, ExceptSeq
<1>10. msgs' = [msgs EXCEPT ![c] = s]
  BY <1>2, <1>4, <1>6, <1>8
<1>11. /\ msgs' \in [Conversations -> Seq(Messages)]
       /\ msgs'[c] = s
       /\ \A d \in Conversations \ {c} : msgs'[d] = msgs[d]
  BY <1>5, <1>10, ZenonT(60)
<1>12. /\ conv' \in [Conversations -> Convs]
       /\ \A d \in Conversations \ {c} : conv'[d] = conv[d]
       /\ conv'[c].kind = conv[c].kind /\ conv'[c].creator = conv[c].creator
       /\ conv'[c].last = conv[c].last
       /\ \/ conv'[c].preview = conv[c].preview
          \/ job[p].last = job[p].about /\ conv'[c].preview = x
  <2>1. CASE ~IsLast(job[p])
    <3>1. conv' = conv
      BY <2>1
    <3> QED
      BY <1>5, <3>1
  <2>2. CASE IsLast(job[p])
    <3>1. PICK row : row = [conv[c] EXCEPT !.preview = x]
      OBVIOUS
    <3>2. /\ row \in Convs /\ row.preview = x
          /\ row.kind = conv[c].kind /\ row.creator = conv[c].creator
          /\ row.last = conv[c].last
      <4>1. conv[c] \in Convs
        BY <1>5
      <4> QED
        BY <3>1, <4>1 DEF Convs
    <3>3. conv' = [conv EXCEPT ![c] = row]
      BY <1>5, <2>2, <3>1
    <3> QED
      BY <1>5, <2>2, <3>2, <3>3, ZenonT(60) DEF IsLast
  <2> QED
    BY <2>1, <2>2
<1>13. Only(c)
  BY <1>3, <1>5, <1>11, <1>12 DEF Only
<1>14. ASSUME NEW i \in 1..Len(msgs[c])
       PROVE  /\ msgs'[c][i].number = i
              /\ msgs'[c][i].sender = msgs[c][i].sender
              /\ msgs'[c][i].status = IF i = n THEN st ELSE msgs[c][i].status
  <2>1. msgs[c][i].number = i
    BY <1>4 DEF IInv, HistoryInOrder
  <2>2. CASE i = n
    <3>1. msgs'[c][i] = m
      BY <1>9, <1>11, <2>2
    <3> QED
      BY <1>7, <2>1, <2>2, <3>1
  <2>3. CASE i # n
    <3>1. s[i] = msgs[c][i]
      BY <1>9, <2>3
    <3>2. msgs'[c][i] = msgs[c][i]
      BY <1>11, <3>1
    <3>3. msgs[c][i].status = IF i = n THEN st ELSE msgs[c][i].status
      BY <2>3
    <3> QED
      BY <2>1, <3>2, <3>3
  <2> QED
    BY <2>2, <2>3
<1> QED
  BY <1>2, <1>3, <1>9, <1>11, <1>12, <1>13, <1>14 DEF StatusSet

LEMMA EditDoes ==
  ASSUME IInv, NEW p \in Threads, NEW c \in Conversations, job[p].c = c
  PROVE  /\ CommitEdit(p) => StatusSet(p, c, "edited", job[p].about)
         /\ CommitDelete(p) => StatusSet(p, c, "deleted", 0)
<1>1. job[p] \in Jobs /\ 0 \in Numbers
  BY CallAssumption DEF IInv, TypeOK, Numbers
<1>2. job[p].about \in Numbers
  BY <1>1 DEF Jobs
<1>3. CASE CommitEdit(p)
  <2>1. PICK x \in Numbers : x = job[p].about
    BY <1>2
  <2>2. StatusSet(p, c, "edited", x)
    BY <1>3, <2>1, StatusChanged DEF CommitEdit, MessageStatus
  <2>3. ~CommitDelete(p)
    BY <1>3 DEF CommitEdit, CommitDelete
  <2> QED
    BY <2>1, <2>2, <2>3
<1>4. CASE CommitDelete(p)
  <2>1. StatusSet(p, c, "deleted", 0)
    BY <1>1, <1>4, StatusChanged DEF CommitDelete, MessageStatus
  <2>2. ~CommitEdit(p)
    BY <1>4 DEF CommitEdit, CommitDelete
  <2> QED
    BY <2>1, <2>2
<1> QED
  BY <1>3, <1>4

LEMMA CommitEditKeeps ==
  ASSUME IInv, NEW p \in Threads, CommitEdit(p) \/ CommitDelete(p)
  PROVE  IInv'
<1>1. PICK c \in Conversations : c = job[p].c
  BY DEF IInv, JobsKnown, Known, CommitEdit, CommitDelete
<1>2. PICK st, x : StatusSet(p, c, st, x)
  BY <1>1, EditDoes
<1>3. /\ msgs[c] \in Seq(Messages) /\ Len(msgs[c]) \in Nat
      /\ job[p].op # "idle"
  BY DEF IInv, TypeOK, CommitEdit, CommitDelete
<1>4. /\ conv[c].kind # "none" /\ part' = part /\ Only(c) /\ Finish(p)
      /\ conv'[c].kind = conv[c].kind /\ conv'[c].creator = conv[c].creator
      /\ conv'[c].last = conv[c].last /\ Len(msgs'[c]) = Len(msgs[c])
      /\ \A i \in 1..Len(msgs[c]) :
            /\ msgs'[c][i].number = i
            /\ msgs'[c][i].sender = msgs[c][i].sender
  BY <1>2 DEF StatusSet
<1>5. Members(c)' = Members(c) /\ Admins(c)' = Admins(c)
  BY <1>4, MembersOf
<1>6. Grown(c)
  BY <1>3, <1>4 DEF Grown
<1>7. Sound(c)
  BY <1>4, <1>5, <1>6 DEF Sound, IInv, TypeOK, Founded, HistoryInOrder
<1>8. /\ Len(msgs'[c]) <= Len(msgs[c]) + 2
      /\ \A u \in Users : part'[c][u].since <= part[c][u].since + 1
  BY <1>3, <1>4, SinceNat
<1> QED
  BY <1>1, <1>3, <1>4, <1>7, <1>8, CommitKeeps

LEMMA RequestChanged ==
  ASSUME IInv, NEW c \in Conversations, NEW u \in Users,
         NEW request \in {"none", "accepted", "ignored"},
         conv[c].kind = "direct",
         part' = [part EXCEPT ![c][u].request = request],
         UNCHANGED <<conv, msgs, blocks>>
  PROVE  /\ Only(c) /\ Sound(c) /\ msgs' = msgs
         /\ \A v \in Users : part'[c][v].since = part[c][v].since
<1>1. /\ msgs \in [Conversations -> Seq(Messages)]
      /\ part \in [Conversations -> [Users -> Parts]]
      /\ conv \in [Conversations -> Convs]
      /\ conv' = conv /\ msgs' = msgs /\ blocks' = blocks
  BY DEF IInv, TypeOK
<1>2. PICK row \in Parts : row = [part[c][u] EXCEPT !.request = request]
  <2>1. part[c][u] \in Parts
    BY <1>1
  <2>2. [part[c][u] EXCEPT !.request = request] \in Parts
    BY <2>1 DEF Parts
  <2> QED
    BY <2>2
<1>3. /\ row.active = part[c][u].active /\ row.role = part[c][u].role
      /\ row.since = part[c][u].since /\ row.request = request
  BY <1>1, <1>2 DEF Parts
<1>4. PICK rows \in [Users -> Parts] : rows = [part[c] EXCEPT ![u] = row]
  BY <1>1
<1>5. part' = [part EXCEPT ![c] = rows]
  BY <1>1, <1>2, <1>4
<1>6. /\ part' \in [Conversations -> [Users -> Parts]]
      /\ part'[c] = rows
      /\ \A d \in Conversations \ {c} : part'[d] = part[d]
  BY <1>1, <1>5
<1>7. \A v \in Users :
         /\ part'[c][v].active = part[c][v].active
         /\ part'[c][v].role = part[c][v].role
         /\ part'[c][v].since = part[c][v].since
         /\ part'[c][v].request
              = IF v = u THEN request ELSE part[c][v].request
  BY <1>1, <1>3, <1>4, <1>6
<1>8. Members(c)' = Members(c)
  BY <1>7 DEF Members
<1>9. Admins(c)' = Admins(c)
  BY <1>7, <1>8 DEF Admins, Members
<1>10. Only(c)
  BY <1>1, <1>6 DEF Only
<1>11. Grown(c)
  BY <1>1 DEF Grown
<1>12. Sound(c)
  BY <1>1, <1>8, <1>9, <1>11
     DEF Sound, IInv, TypeOK, Founded, HistoryInOrder
<1> QED
  BY <1>1, <1>7, <1>10, <1>12

LEMMA CommitAnswerKeeps ==
  ASSUME IInv, NEW p \in Threads, CommitAnswer(p)
  PROVE  IInv'
<1>1. PICK c \in Conversations, u \in Users : c = job[p].c /\ u = job[p].by
  BY DEF IInv, JobsKnown, Known, CommitAnswer
<1>2. PICK request \in {"none", "accepted", "ignored"} :
         part' = [part EXCEPT ![c][u].request = request]
  BY <1>1 DEF CommitAnswer
<1>3. /\ conv[c].kind = "direct" /\ job[p].op # "idle" /\ Finish(p)
      /\ UNCHANGED <<conv, msgs, blocks>>
  BY <1>1 DEF CommitAnswer, IInv, JobsKnown, Known
<1>4. /\ Only(c) /\ Sound(c) /\ msgs' = msgs
      /\ \A v \in Users : part'[c][v].since = part[c][v].since
  BY <1>2, <1>3, RequestChanged
<1>5. /\ Len(msgs'[c]) <= Len(msgs[c]) + 2
      /\ \A v \in Users : part'[c][v].since <= part[c][v].since + 1
  BY <1>4, SinceNat DEF IInv, TypeOK
<1> QED
  BY <1>1, <1>3, <1>4, <1>5, CommitKeeps

\* Nobody is in a conversation of another kind with a request.
LEMMA ExpireKeeps ==
  ASSUME IInv, NEW c \in Conversations, NEW u \in Users, ExpireRequests(c, u)
  PROVE  IInv'
<1>1. conv[c].kind = "direct"
  BY DEF IInv, TypeOK, ExpireRequests
<1>2. /\ Only(c) /\ Sound(c) /\ msgs' = msgs
      /\ \A v \in Users : part'[c][v].since = part[c][v].since
      /\ conv' = conv /\ calls' = calls /\ job' = job
  BY <1>1, RequestChanged DEF ExpireRequests
<1>3. /\ TablesTyped' /\ HistoryInOrder' /\ Founded'
      /\ \A d \in Conversations : Grown(d)
  BY <1>2, OneChanged
<1>4. TypeOK'
  BY <1>2, <1>3 DEF IInv, TypeOK, TablesTyped
<1>5. JobsKnown'
  <2>1. ASSUME NEW q \in Threads
        PROVE  \E k \in Jobs : /\ job'[q] = k /\ Known(k)
                               /\ k.op \in Creates => conv'[k.c].kind = "none"
    BY <1>2 DEF IInv, TypeOK, JobsKnown, Known
  <2> QED
    BY <1>3, <1>4, <2>1, JobsStayKnown
<1>6. OneCreator' /\ InFlight' = InFlight
  BY <1>2 DEF IInv, OneCreator, InFlight
<1>7. Budget'
  <2>1. ASSUME NEW d \in Conversations, NEW v \in Users
        PROVE  part'[d][v].since = part[d][v].since
    BY <1>2 DEF Only
  <2> QED
    BY <1>2, <1>6, <2>1 DEF IInv, Budget
<1> QED
  BY <1>3, <1>4, <1>5, <1>6, <1>7 DEF IInv

\* The creator's row is the first, the others follow.
LEMMA OrdersBounded ==
  ASSUME NEW members \in SUBSET Users, NEW u \in members,
         NEW order \in Orders(members \ {u}), NEW v \in members \ {u}
  PROVE  order[v] \in Nat /\ order[v] <= Cardinality(Users)
<1>1. /\ IsFiniteSet(members) /\ Cardinality(members) <= Cardinality(Users)
      /\ Cardinality(members) \in Nat /\ Cardinality(Users) \in Nat
  BY UsersAssumption, FS_Subset, FS_CardinalityType
<1>2. Cardinality(members \ {u}) = Cardinality(members) - 1
  BY <1>1, FS_RemoveElement
<1>3. order[v] \in 2..1 + Cardinality(members \ {u})
  BY DEF Orders
<1> QED
  BY <1>1, <1>2, <1>3

LEMMA CommitCreateKeeps ==
  ASSUME IInv, NEW p \in Threads, CommitCreate(p)
  PROVE  IInv'
<1>1. job[p] \in Jobs /\ Known(job[p])
  BY DEF IInv, TypeOK, JobsKnown
<1>2. PICK j \in Jobs : j = job[p]
  BY <1>1
<1>3. PICK c \in Conversations, u \in Users : c = j.c /\ u = j.by
  BY <1>1, <1>2 DEF Known, CommitCreate
<1>4. /\ j.op \in Creates /\ j.members \in SUBSET Users /\ u \in j.members
      /\ conv[c].kind = "none" /\ msgs[c] = <<>>
      /\ j.op = "direct" =>
            j.on \in Users \ {u} /\ j.members = {u, j.on}
      /\ Finish(p) /\ msgs' = msgs /\ blocks' = blocks
  BY <1>1, <1>2, <1>3
     DEF Known, CommitCreate, IInv, Founded, Jobs, Creates
<1>5. PICK request \in RequestsOf(j.op), order \in Orders(j.members \ {u}) :
         \E rows :
            /\ part' = [part EXCEPT ![c] = rows]
            /\ rows = [v \in Users |->
                  IF v = job[p].by
                  THEN [active |-> TRUE, since |-> 1, request |-> "none",
                        role |-> IF job[p].op = "group" THEN "admin" ELSE "member"]
                  ELSE IF v \in job[p].members
                  THEN [active |-> TRUE, since |-> order[v],
                        request |-> request, role |-> "member"]
                  ELSE NoPart]
  <2>1. PICK request \in RequestsOf(job[p].op),
             order \in Orders(job[p].members \ {job[p].by}) :
           part' = [part EXCEPT ![job[p].c] = [v \in Users |->
                  IF v = job[p].by
                  THEN [active |-> TRUE, since |-> 1, request |-> "none",
                        role |-> IF job[p].op = "group" THEN "admin" ELSE "member"]
                  ELSE IF v \in job[p].members
                  THEN [active |-> TRUE, since |-> order[v],
                        request |-> request, role |-> "member"]
                  ELSE NoPart]]
    BY DEF CommitCreate
  <2> QED
    BY <1>2, <1>3, <2>1
<1>6. PICK rows :
         /\ part' = [part EXCEPT ![c] = rows]
         /\ rows = [v \in Users |->
                  IF v = job[p].by
                  THEN [active |-> TRUE, since |-> 1, request |-> "none",
                        role |-> IF job[p].op = "group" THEN "admin" ELSE "member"]
                  ELSE IF v \in job[p].members
                  THEN [active |-> TRUE, since |-> order[v],
                        request |-> request, role |-> "member"]
                  ELSE NoPart]
  BY <1>5
<1>7. /\ msgs \in [Conversations -> Seq(Messages)]
      /\ part \in [Conversations -> [Users -> Parts]]
      /\ conv \in [Conversations -> Convs]
  BY DEF IInv, TypeOK
<1>8. PICK row \in Convs : row = [kind |-> j.op, creator |-> u, open |-> TRUE,
                                  last |-> 0, preview |-> 0]
  <2>1. 0 \in Numbers
    BY CallAssumption DEF Numbers
  <2>2. [kind |-> j.op, creator |-> u, open |-> TRUE, last |-> 0,
         preview |-> 0] \in Convs
    BY <1>4, <2>1 DEF Convs, Creates
  <2> QED
    BY <2>2
<1>9. conv' = [conv EXCEPT ![c] = row]
  BY <1>2, <1>3, <1>8 DEF CommitCreate
<1>10. /\ conv' \in [Conversations -> Convs]
      /\ conv'[c].kind = j.op /\ conv'[c].creator = u /\ conv'[c].last = 0
      /\ \A d \in Conversations \ {c} : conv'[d] = conv[d]
  BY <1>7, <1>8, <1>9
<1>11. \A v \in Users :
          rows[v] = IF v = u
                    THEN [active |-> TRUE, since |-> 1, request |-> "none",
                          role |-> IF j.op = "group" THEN "admin" ELSE "member"]
                    ELSE IF v \in j.members
                    THEN [active |-> TRUE, since |-> order[v],
                          request |-> request, role |-> "member"]
                    ELSE NoPart
  BY <1>2, <1>3, <1>6
<1>12. /\ Cardinality(Users) \in Nat /\ 1 <= Cardinality(Users)
       /\ \A v \in j.members \ {u} :
             order[v] \in Nat /\ order[v] <= Cardinality(Users)
  <2>1. Cardinality(Users) \in Nat /\ Cardinality(Users) # 0
    BY UsersAssumption, FS_CardinalityType, FS_EmptySet
  <2>2. ASSUME NEW v \in j.members \ {u}
        PROVE  order[v] \in Nat /\ order[v] <= Cardinality(Users)
    <3>1. order \in Orders(j.members \ {u})
      BY <1>5
    <3> QED
      BY <1>4, <3>1, OrdersBounded
  <2> QED
    BY <2>1, <2>2
<1>13. request \in {"none", "pending"}
       /\ (j.op = "group" => request = "none")
  BY <1>4, <1>5 DEF RequestsOf, Creates
<1>14. ASSUME NEW v \in Users
       PROVE  /\ rows[v] \in Parts /\ rows[v].since <= Cardinality(Users)
              /\ rows[v].active <=> v \in j.members
              /\ j.op = "group" => rows[v].request = "none"
              /\ j.op = "direct" => rows[v].role = "member"
  <2>1. \A n \in Nat : n <= Cardinality(Users)
                         => n \in 0..Cardinality(Users) + MaxCalls
    BY <1>12, CallAssumption
  <2>2. CASE v = u
    <3>1. PICK role \in {"member", "admin"} :
             role = IF j.op = "group" THEN "admin" ELSE "member"
      OBVIOUS
    <3>2. rows[v] = [active |-> TRUE, since |-> 1, request |-> "none",
                     role |-> role]
      BY <1>11, <2>2, <3>1
    <3>3. 1 \in 0..Cardinality(Users) + MaxCalls
      BY <1>12, <2>1
    <3> QED
      BY <1>4, <1>12, <2>2, <3>1, <3>2, <3>3 DEF Parts
  <2>3. CASE v \in j.members \ {u}
    <3>1. rows[v] = [active |-> TRUE, since |-> order[v],
                     request |-> request, role |-> "member"]
      BY <1>11, <2>3
    <3>2. order[v] <= Cardinality(Users)
          /\ order[v] \in 0..Cardinality(Users) + MaxCalls
      BY <1>12, <2>1, <2>3
    <3> QED
      BY <1>13, <2>3, <3>1, <3>2 DEF Parts
  <2>4. CASE v \notin j.members
    <3>1. rows[v] = NoPart
      BY <1>4, <1>11, <2>4
    <3>2. 0 \in 0..Cardinality(Users) + MaxCalls /\ 0 <= Cardinality(Users)
      BY <1>12, <2>1
    <3> QED
      BY <2>4, <3>1, <3>2 DEF Parts, NoPart
  <2> QED
    BY <2>2, <2>3, <2>4
<1>15. /\ part' = [part EXCEPT ![c] = rows] /\ rows \in [Users -> Parts]
  BY <1>6, <1>14
<1>16. /\ part' \in [Conversations -> [Users -> Parts]]
       /\ part'[c] = rows
       /\ \A d \in Conversations \ {c} : part'[d] = part[d]
  BY <1>7, <1>15
<1>17. Only(c)
  BY <1>4, <1>7, <1>10, <1>16 DEF Only
<1>18. Members(c)' = j.members
  BY <1>4, <1>14, <1>16 DEF Members
<1>19. j.op = "direct" => Cardinality(Members(c)') = 2 /\ Admins(c)' = {}
  <2>1. ASSUME j.op = "direct"
        PROVE  Cardinality({u, j.on}) = 2
    <3>1. {u, j.on} = {u} \cup {j.on} /\ j.on \notin {u}
      BY <1>4, <2>1
    <3>2. IsFiniteSet({u}) /\ Cardinality({u}) = 1
      BY FS_Singleton
    <3>3. Cardinality({u} \cup {j.on}) = Cardinality({u}) + 1
      BY <3>1, <3>2, FS_AddElement
    <3> QED
      BY <3>1, <3>2, <3>3
  <2>2. ASSUME j.op = "direct"
        PROVE  Admins(c)' = {}
    BY <1>4, <1>14, <1>16, <1>18, <2>2 DEF Admins
  <2> QED
    BY <1>4, <1>18, <2>1, <2>2
<1>20. Sound(c)
  BY <1>4, <1>10, <1>14, <1>16, <1>19 DEF Sound, Grown, Creates
<1>21. Len(msgs'[c]) <= Len(msgs[c]) + 2
  BY <1>4
<1> QED
  BY <1>2, <1>3, <1>4, <1>14, <1>16, <1>17, <1>20, <1>21, CommitKeeps
     DEF Creates

LEMMA BlockKeeps ==
  ASSUME IInv, NEW u \in Users, NEW v \in Users, Block(u, v) \/ Unblock(u, v)
  PROVE  IInv'
<1>1. /\ conv' = conv /\ part' = part /\ msgs' = msgs /\ job' = job
      /\ calls' = calls + 1 /\ calls < MaxCalls /\ calls \in Nat
      /\ blocks' \subseteq Users \X Users
  BY DEF Block, Unblock, IInv, TypeOK
<1>2. calls' \in 0..MaxCalls /\ job' \in [Threads -> Jobs]
  BY <1>1, CallAssumption DEF IInv, TypeOK
<1>3. /\ TypeOK' /\ HistoryInOrder' /\ Founded'
      /\ \A c \in Conversations : Grown(c)
  BY <1>1, <1>2, TablesStay
<1>4. JobsKnown'
  <2>1. ASSUME NEW q \in Threads
        PROVE  \E k \in Jobs : /\ job'[q] = k /\ Known(k)
                               /\ k.op \in Creates => conv'[k.c].kind = "none"
    BY <1>1 DEF IInv, TypeOK, JobsKnown, Known
  <2> QED
    BY <1>3, <2>1, JobsStayKnown
<1>5. OneCreator' /\ InFlight' = InFlight
  BY <1>1 DEF IInv, OneCreator, InFlight
<1>6. Budget'
  <2>1. Cardinality(InFlight) \in Nat /\ IsFiniteSet(InFlight)
    BY FS_CardinalityType DEF IInv, Budget
  <2>2. ASSUME NEW c \in Conversations
        PROVE  Len(msgs'[c]) + 2 * Cardinality(InFlight') <= 2 * calls'
    <3>1. /\ Len(msgs[c]) + 2 * Cardinality(InFlight) <= 2 * calls
          /\ Len(msgs[c]) \in Nat
      BY DEF IInv, Budget, TypeOK
    <3> QED
      BY <1>1, <1>5, <2>1, <3>1
  <2>3. ASSUME NEW c \in Conversations, NEW w \in Users
        PROVE  part'[c][w].since + Cardinality(InFlight')
                 <= Cardinality(Users) + calls'
    <3>1. /\ part[c][w].since + Cardinality(InFlight)
               <= Cardinality(Users) + calls
          /\ part[c][w].since \in Nat /\ Cardinality(Users) \in Nat
      BY SinceNat DEF IInv, Budget
    <3> QED
      BY <1>1, <1>5, <2>1, <3>1
  <2> QED
    BY <1>5, <2>1, <2>2, <2>3 DEF Budget
<1> QED
  BY <1>3, <1>4, <1>5, <1>6 DEF IInv

\* The rows of the group after the call: of whom it is about, and of the heir.
RowsAfter(j, rows) ==
    /\ rows \in [Users -> Parts]
    /\ \A v \in Users :
         /\ rows[v].request = part[j.c][v].request
         /\ rows[v].active <=> \/ part[j.c][v].active
                                  /\ ~(j.op \in {"remove", "leave"} /\ v = j.on)
                               \/ j.op = "add" /\ v = j.on
         /\ rows[v].role = IF j.op \in {"add", "demote"} /\ v = j.on THEN "member"
                           ELSE IF \/ j.op = "promote" /\ v = j.on
                                   \/ j.op = "leave" /\ v \in j.heir
                           THEN "admin" ELSE part[j.c][v].role
         /\ \E w \in Users : rows[v].since <= part[j.c][w].since + 1

LEMMA NewestOne ==
  ASSUME IInv, NEW p \in Threads, job[p].op # "idle",
         NEW c \in Conversations, Users # {}
  PROVE  \E w \in Users :
            (CHOOSE n \in {part[c][u].since : u \in Users} :
                \A u \in Users : part[c][u].since <= n) = part[c][w].since
<1> DEFINE all == {part[c][u].since : u \in Users}
<1>1. PICK bound \in Nat : \A u \in Users : part[c][u].since <= bound
  <2>1. /\ Cardinality(Users) + calls \in Nat
        /\ \A u \in Users : part[c][u].since + 1 <= Cardinality(Users) + calls
    BY RoomLeft DEF IInv
  <2>2. \A u \in Users : part[c][u].since <= Cardinality(Users) + calls
    BY <2>1, SinceNat
  <2> QED
    BY <2>1, <2>2
<1>2. all \in SUBSET Nat /\ all # {} /\ \A n \in all : n <= bound
  BY <1>1, SinceNat
<1>3. \E n \in all : \A m \in all : m <= n
  <2> HIDE DEF all
  <2> QED
    BY <1>2, NewestExists
<1>4. \E n \in all : \A u \in Users : part[c][u].since <= n
  BY <1>3
<1>5. (CHOOSE n \in all : \A u \in Users : part[c][u].since <= n) \in all
  <2> HIDE DEF all
  <2> QED
    BY <1>4
<1> QED
  BY <1>5

LEMMA RowsChanged ==
  ASSUME IInv, NEW p \in Threads, NEW j \in Jobs, j = job[p], j.op \in GroupOps
  PROVE  RowsAfter(j, Changed(j))
<1>1. PICK c \in Conversations, on \in Users : c = j.c /\ on = j.on
  BY DEF IInv, JobsKnown, Known, GroupKnown, GroupOps
<1>2. part[c] \in [Users -> Parts] /\ part[c][on] \in Parts
  BY DEF IInv, TypeOK
<1>3. \A v \in Users : part[c][v].since <= part[c][v].since + 1
  BY SinceNat
<1>4. CASE j.op = "add"
  <2>1. PICK w \in Users :
          (CHOOSE n \in {part[j.c][u].since : u \in Users} :
              \A u \in Users : part[j.c][u].since <= n) = part[c][w].since
    BY <1>1, <1>4, NewestOne
  <2>2. PICK n : n = IF j.about = 1 THEN part[c][on].since
                     ELSE part[c][w].since + 1
    OBVIOUS
  <2>3. /\ n \in 0..Cardinality(Users) + MaxCalls
        /\ \E x \in Users : n <= part[c][x].since + 1
    <3>1. /\ \A u \in Users :
               /\ part[c][u].since \in Nat
               /\ part[c][u].since + 1 <= Cardinality(Users) + calls
          /\ Cardinality(Users) \in Nat /\ calls \in Nat /\ calls <= MaxCalls
      BY <1>4, RoomLeft DEF IInv
    <3> QED
      BY <2>2, <3>1, CallAssumption
  <2>4. Rejoined(j) = [part[c][on] EXCEPT !.active = TRUE, !.role = "member",
                                          !.since = n]
    <3>1. Rejoined(j) = [part[j.c][j.on] EXCEPT !.active = TRUE, !.role = "member",
             !.since = IF j.about = 1 THEN part[j.c][j.on].since
                       ELSE (CHOOSE m \in {part[j.c][u].since : u \in Users} :
                               \A u \in Users : part[j.c][u].since <= m) + 1]
      BY DEF Rejoined
    <3> QED
      BY <1>1, <2>1, <2>2, <3>1
  <2>5. /\ Rejoined(j) \in Parts
        /\ Rejoined(j).active = TRUE /\ Rejoined(j).role = "member"
        /\ Rejoined(j).since = n
        /\ Rejoined(j).request = part[c][on].request
    BY <1>2, <2>3, <2>4 DEF Parts
  <2>6. Changed(j) = [part[c] EXCEPT ![on] = Rejoined(j)]
    BY <1>1, <1>4 DEF Changed
  <2> QED
    BY <1>1, <1>2, <1>3, <1>4, <2>3, <2>5, <2>6, ZenonT(60) DEF RowsAfter
<1>5. CASE j.op = "remove"
  <2>1. PICK row : row = [part[c][on] EXCEPT !.active = FALSE]
    OBVIOUS
  <2>2. /\ row \in Parts /\ row.active = FALSE /\ row.role = part[c][on].role
        /\ row.since = part[c][on].since /\ row.request = part[c][on].request
    BY <1>2, <2>1 DEF Parts
  <2>3. Changed(j) = [part[c] EXCEPT ![on] = row]
    BY <1>1, <1>2, <1>5, <2>1 DEF Changed
  <2>4. /\ Changed(j) \in [Users -> Parts]
        /\ \A v \in Users :
              Changed(j)[v] = IF v = on THEN row ELSE part[c][v]
    BY <1>2, <2>2, <2>3
  <2> QED
    BY <1>1, <1>3, <1>5, <2>2, <2>4, ZenonT(60) DEF RowsAfter
<1>6. CASE j.op \in {"promote", "demote"}
  <2>1. PICK role \in {"member", "admin"} :
           role = IF j.op = "promote" THEN "admin" ELSE "member"
    OBVIOUS
  <2>2. PICK row : row = [part[c][on] EXCEPT !.role = role]
    OBVIOUS
  <2>3. /\ row \in Parts /\ row.active = part[c][on].active /\ row.role = role
        /\ row.since = part[c][on].since /\ row.request = part[c][on].request
    BY <1>2, <2>1, <2>2 DEF Parts
  <2>4. Changed(j) = [part[c] EXCEPT ![on] = row]
    BY <1>1, <1>2, <1>6, <2>1, <2>2 DEF Changed
  <2> QED
    BY <1>1, <1>2, <1>3, <1>6, <2>1, <2>3, <2>4, ZenonT(60) DEF RowsAfter
<1>7. CASE j.op = "leave"
  <2>1. Changed(j) = [u \in Users |->
                        [part[j.c][u] EXCEPT
                           !.active = @ /\ u # j.on,
                           !.role = IF u \in j.heir THEN "admin" ELSE @]]
    BY <1>7 DEF Changed
  <2>2. ASSUME NEW v \in Users
        PROVE  /\ Changed(j)[v] \in Parts
               /\ Changed(j)[v].active <=> part[c][v].active /\ v # on
               /\ Changed(j)[v].role
                    = IF v \in j.heir THEN "admin" ELSE part[c][v].role
               /\ Changed(j)[v].since = part[c][v].since
               /\ Changed(j)[v].request = part[c][v].request
    <3>1. PICK active \in BOOLEAN, role \in {"member", "admin"} :
             /\ active <=> part[c][v].active /\ v # on
             /\ role = IF v \in j.heir THEN "admin" ELSE part[c][v].role
      BY <1>2 DEF Parts
    <3>2. Changed(j)[v] = [part[c][v] EXCEPT !.active = active, !.role = role]
      BY <1>1, <2>1, <3>1
    <3> QED
      BY <1>2, <3>1, <3>2, ZenonT(60) DEF Parts
  <2>3. Changed(j) \in [Users -> Parts]
    BY <2>1, <2>2
  <2> QED
    BY <1>1, <1>3, <1>7, <2>2, <2>3 DEF RowsAfter
<1> QED
  BY <1>4, <1>5, <1>6, <1>7 DEF GroupOps

\* An announcement for each of the heir and the change itself.
LEMMA Announced ==
  ASSUME IInv, NEW p \in Threads, NEW j \in Jobs, j = job[p],
         j.op \in GroupOps, NEW c \in Conversations, c = j.c,
         j.number = Len(msgs[c]) + 1
  PROVE  /\ Announcements(j) \in Seq(Messages)
         /\ Cardinality(j.heir) \in {0, 1}
         /\ Len(Announcements(j)) = 1 + Cardinality(j.heir)
         /\ \A i \in 1..1 + Cardinality(j.heir) :
               Announcements(j)[i].number = Len(msgs[c]) + i
<1>1. Cardinality(j.heir) \in {0, 1}
  <2>1. j.heir = {} \/ \E h : j.heir = {h}
    BY DEF IInv, JobsKnown, Known, GroupKnown, GroupOps
  <2>2. Cardinality({}) = 0 /\ \A h : Cardinality({h}) = 1
    BY FS_EmptySet, FS_Singleton
  <2> QED
    BY <2>1, <2>2
<1>2. /\ Len(msgs[c]) \in Nat /\ Len(msgs[c]) + 2 \in Numbers
      /\ conv[c].creator \in Users
  <2>1. conv[c].kind # "none"
    BY DEF IInv, JobsKnown, Known
  <2> QED
    BY <2>1, RoomLeft DEF IInv, TypeOK, Founded, GroupOps
<1>3. PICK n \in {1, 2} : n = 1 + Cardinality(j.heir)
  BY <1>1
<1>4. ASSUME NEW i \in 1..n
      PROVE  /\ Message(j.number + i - 1, conv[j.c].creator, TRUE) \in Messages
             /\ Message(j.number + i - 1, conv[j.c].creator, TRUE).number
                  = Len(msgs[c]) + i
  <2>1. j.number + i - 1 = Len(msgs[c]) + i
    BY <1>2, <1>3
  <2>2. Len(msgs[c]) + i \in Numbers
    BY <1>2, <1>3, CallAssumption DEF Numbers
  <2> QED
    BY <1>2, <2>1, <2>2 DEF Message, Messages, MessageStatus
<1>5. Announcements(j) = [i \in 1..n |->
         Message(j.number + i - 1, conv[j.c].creator, TRUE)]
  BY <1>3 DEF Announcements
<1> HIDE DEF Announcements
<1>6. /\ Announcements(j) \in Seq(Messages) /\ Len(Announcements(j)) = n
      /\ \A i \in 1..n : Announcements(j)[i].number = Len(msgs[c]) + i
  <2>1. n \in Nat
    BY <1>3
  <2>2. Announcements(j) \in [1..n -> Messages]
    BY <1>4, <1>5
  <2>3. Announcements(j) \in Seq(Messages) /\ Len(Announcements(j)) = n
    BY <2>1, <2>2
  <2>4. \A i \in 1..n : Announcements(j)[i]
                          = Message(j.number + i - 1, conv[j.c].creator, TRUE)
    BY <1>5
  <2> QED
    BY <1>4, <2>3, <2>4
<1> QED
  BY <1>1, <1>3, <1>6

\* The group is as it was, or the rows are changed and the messages that announce
\* it are the next ones.
GroupSet(j) ==
    /\ Only(j.c)
    /\ conv'[j.c].kind = "group" /\ conv'[j.c].creator = conv[j.c].creator
    /\ conv'[j.c].last = Len(msgs'[j.c]) /\ conv'[j.c].preview = Len(msgs'[j.c])
    /\ conv'[j.c].open <=> conv[j.c].open /\ ~Closes(j)
    /\ Len(msgs[j.c]) < Len(msgs'[j.c]) /\ Len(msgs'[j.c]) <= Len(msgs[j.c]) + 2
    /\ \A i \in 1..Len(msgs'[j.c]) : msgs'[j.c][i].number = i
    /\ \A i \in 1..Len(msgs[j.c]) : msgs'[j.c][i] = msgs[j.c][i]
    /\ RowsAfter(j, part'[j.c])

LEMMA GroupDoes ==
  ASSUME IInv, NEW p \in Threads, CommitGroup(p),
         NEW j \in Jobs, j = job[p], NEW c \in Conversations, c = j.c
  PROVE  /\ conv[c].kind = "group" /\ j.op \in GroupOps /\ Finish(p)
         /\ GroupKnown(j)
         /\ \/ UNCHANGED tables
            \/ GroupSet(j)
<1>1. Known(j) /\ j.op \in GroupOps /\ j.written /\ Finish(p)
      /\ blocks' = blocks
  BY DEF IInv, JobsKnown, CommitGroup
<1>2. conv[c].kind = "group" /\ j.number \in 1..Len(msgs[c]) + 1
      /\ j.op # "idle" /\ GroupKnown(j)
  BY <1>1 DEF Known, GroupOps
<1>3. PICK h \in {0, 1} : h = Cardinality(j.heir)
  <2>1. j.heir = {} \/ \E u : j.heir = {u}
    BY <1>1, <1>2 DEF GroupKnown, GroupOps
  <2>2. Cardinality({}) = 0 /\ \A u : Cardinality({u}) = 1
    BY FS_EmptySet, FS_Singleton
  <2> QED
    BY <2>1, <2>2
<1>4. PICK last : last = j.number + h
  OBVIOUS
<1>5. CASE \E n \in j.number..last : Taken(c, n)
  BY <1>1, <1>2, <1>3, <1>4, <1>5 DEF CommitGroup, tables
<1>6. CASE ~\E n \in j.number..last : Taken(c, n)
  <2>1. /\ msgs[c] \in Seq(Messages) /\ Len(msgs[c]) \in Nat
        /\ \A n : Taken(c, n) <=> n \in 1..Len(msgs[c])
    BY HistoryRead DEF IInv
  <2>2. PICK len \in Nat : len = Len(msgs[c])
    BY <2>1
  <2>3. j.number = len + 1
    <3>1. j.number \in j.number..last
      BY <1>2, <1>3, <1>4, <2>2
    <3>2. ~Taken(c, j.number)
      BY <1>6, <3>1
    <3> QED
      BY <1>2, <2>1, <2>2, <3>2
  <2>4. PICK news \in Seq(Messages) :
           /\ news = Announcements(j) /\ Len(news) = 1 + h
           /\ \A i \in 1..1 + h : news[i].number = len + i
    <3>1. /\ Announcements(j) \in Seq(Messages)
          /\ Len(Announcements(j)) = 1 + Cardinality(j.heir)
          /\ \A i \in 1..1 + Cardinality(j.heir) :
                Announcements(j)[i].number = Len(msgs[c]) + i
      BY <1>1, <2>2, <2>3, Announced
    <3> QED
      BY <1>3, <2>2, <3>1
  <2>5. PICK s \in Seq(Messages) : s = msgs[c] \o news
    BY <2>1, <2>4, ConcatProperties
  <2>6. /\ Len(s) = len + (1 + h)
        /\ \A i \in 1..len + (1 + h) :
              s[i] = IF i <= len THEN msgs[c][i] ELSE news[i - len]
    <3>1. PICK old \in Seq(Messages) : old = msgs[c]
      BY <2>1
    <3>2. news \in Seq(Messages)
      OBVIOUS
    <3>3. /\ Len(old \o news) = Len(old) + Len(news)
          /\ \A i \in 1..Len(old) + Len(news) :
                (old \o news)[i] = IF i <= Len(old) THEN old[i]
                                  ELSE news[i - Len(old)]
      BY <3>2, ConcatProperties
    <3> QED
      BY <2>2, <2>4, <2>5, <3>1, <3>3
  <2>7. /\ last = Len(s) /\ last \in Numbers
        /\ Len(s) <= len + 2 /\ len < Len(s)
    <3>1. PICK most \in Nat : most = 2 * MaxCalls
      BY CallAssumption
    <3>2. len + 2 <= most
      <4>1. Len(msgs[c]) + 2 \in Numbers
        BY <1>2, RoomLeft DEF IInv
      <4> QED
        BY <2>2, <3>1, <4>1 DEF Numbers
    <3>3. PICK size \in Nat : size = Len(s) /\ size = len + (1 + h)
      BY <1>3, <2>6
    <3>4. last = size /\ size <= len + 2 /\ len < size
      BY <1>3, <1>4, <2>3, <3>3
    <3>5. last \in 0..most
      BY <3>2, <3>4
    <3> QED
      BY <3>1, <3>3, <3>4, <3>5 DEF Numbers
  <2>8. /\ \A i \in 1..Len(s) : s[i].number = i
        /\ \A i \in 1..len : s[i] = msgs[c][i]
    <3>1. \A i \in 1..len : msgs[c][i].number = i
      BY <2>1, <2>2 DEF IInv, HistoryInOrder
    <3>2. \A i \in 1..len : s[i] = msgs[c][i]
      BY <1>3, <2>2, <2>6
    <3>3. ASSUME NEW i \in 1..Len(s), i > len
          PROVE  s[i].number = i
      <4>1. i - len \in 1..1 + h /\ s[i] = news[i - len]
        <5>1. i \in Nat /\ i \in 1..len + (1 + h)
          BY <2>6
        <5>2. s[i] = news[i - len]
          BY <2>6, <3>3, <5>1
        <5>3. h \in Nat /\ len \in Nat
          OBVIOUS
        <5>4. i - len \in Nat /\ 1 <= i - len /\ i - len <= 1 + h
          BY <3>3, <5>1, <5>3
        <5> QED
          BY <5>2, <5>3, <5>4
      <4>2. news[i - len].number = len + (i - len)
        BY <2>4, <4>1
      <4> QED
        BY <2>2, <3>3, <4>1, <4>2
    <3>4. ASSUME NEW i \in 1..Len(s), ~(i > len)
          PROVE  s[i].number = i
      <4>1. i \in 1..len
        BY <1>3, <2>2, <2>6, <3>4
      <4> QED
        BY <3>1, <3>2, <4>1
    <3> QED
      BY <3>2, <3>3, <3>4
  <2>9. PICK rows : rows = Changed(j) /\ RowsAfter(j, rows)
    BY <1>1, RowsChanged
  <2>10. PICK closes \in BOOLEAN : closes <=> Closes(j)
    OBVIOUS
  <2>11. PICK row : row = [conv[c] EXCEPT !.last = last, !.preview = last,
                                          !.open = @ /\ ~closes]
    OBVIOUS
  <2>12. /\ conv \in [Conversations -> Convs]
         /\ part \in [Conversations -> [Users -> Parts]]
         /\ msgs \in [Conversations -> Seq(Messages)]
    BY DEF IInv, TypeOK
  <2>13. /\ row \in Convs /\ row.kind = "group"
         /\ row.creator = conv[c].creator
         /\ row.last = last /\ row.preview = last
         /\ row.open = (conv[c].open /\ ~closes)
    <3>1. conv[c] \in Convs
      BY <2>12
    <3> QED
      BY <1>2, <2>7, <2>10, <2>11, <3>1 DEF Convs
  <2>14. /\ part' = [part EXCEPT ![c] = rows]
         /\ msgs' = [msgs EXCEPT ![c] = s]
         /\ conv' = [conv EXCEPT ![c].last = last, ![c].preview = last,
                                 ![c].open = @ /\ ~Closes(j)]
    BY <1>3, <1>4, <1>6, <2>4, <2>5, <2>9 DEF CommitGroup
  <2>15. conv' = [conv EXCEPT ![c] = row]
    BY <2>10, <2>11, <2>12, <2>14 DEF Convs
  <2>16. Only(c)
    <3>1. conv' \in [Conversations -> Convs]
          /\ \A d \in Conversations \ {c} : conv'[d] = conv[d]
      BY <2>12, <2>13, <2>15
    <3>2. part' \in [Conversations -> [Users -> Parts]]
          /\ \A d \in Conversations \ {c} : part'[d] = part[d]
      <4>1. rows \in [Users -> Parts]
        BY <2>9 DEF RowsAfter
      <4> QED
        BY <2>12, <2>14, <4>1
    <3>3. msgs' \in [Conversations -> Seq(Messages)]
          /\ \A d \in Conversations \ {c} : msgs'[d] = msgs[d]
      BY <2>12, <2>14
    <3> QED
      BY <1>1, <3>1, <3>2, <3>3 DEF Only
  <2>17. conv'[c] = row /\ part'[c] = rows /\ msgs'[c] = s
    BY <2>12, <2>14, <2>15
  <2>18. GroupSet(j)
    <3>1. conv'[c].open <=> conv[c].open /\ ~Closes(j)
      <4>1. conv[c] \in Convs
        BY <2>12
      <4> QED
        BY <2>10, <2>13, <2>17, <4>1 DEF Convs
    <3> QED
      BY <2>2, <2>7, <2>8, <2>9, <2>13, <2>16, <2>17, <3>1 DEF GroupSet
  <2> QED
    BY <1>1, <1>2, <2>18
<1> QED
  BY <1>5, <1>6

LEMMA CommitGroupKeeps ==
  ASSUME IInv, NEW p \in Threads, CommitGroup(p)
  PROVE  IInv'
<1>1. PICK j \in Jobs, c \in Conversations : j = job[p] /\ c = j.c
  BY DEF IInv, TypeOK, JobsKnown, Known, CommitGroup, GroupOps
<1>2. /\ conv[c].kind = "group" /\ j.op \in GroupOps /\ Finish(p)
      /\ UNCHANGED tables \/ GroupSet(j)
  BY <1>1, GroupDoes
<1>3. job[p].op # "idle"
  BY <1>1, <1>2 DEF GroupOps
<1>4. CASE UNCHANGED tables
  BY <1>2, <1>3, <1>4, NothingWritten
<1>5. CASE GroupSet(j)
  <2>1. /\ Only(c)
        /\ conv'[c].kind = "group" /\ conv'[c].creator = conv[c].creator
        /\ conv'[c].last = Len(msgs'[c])
        /\ Len(msgs[c]) < Len(msgs'[c]) /\ Len(msgs'[c]) <= Len(msgs[c]) + 2
        /\ \A i \in 1..Len(msgs'[c]) : msgs'[c][i].number = i
        /\ \A i \in 1..Len(msgs[c]) : msgs'[c][i] = msgs[c][i]
        /\ RowsAfter(j, part'[c])
    BY <1>1, <1>5 DEF GroupSet
  <2>2. msgs[c] \in Seq(Messages) /\ msgs'[c] \in Seq(Messages)
    BY <2>1 DEF Only, IInv, TypeOK
  <2>3. Grown(c)
    <3>1. conv'[c].kind = conv[c].kind /\ Len(msgs[c]) <= Len(msgs'[c])
      BY <1>2, <2>1, <2>2
    <3> QED
      BY <3>1 DEF Grown
  <2>4. \A u \in Users : part'[c][u].request = "none"
    <3>1. \A u \in Users : part[c][u].request = "none"
      BY <1>2 DEF IInv, TypeOK
    <3>2. \A u \in Users : part'[c][u].request = part[c][u].request
      BY <1>1, <2>1 DEF RowsAfter
    <3> QED
      BY <3>1, <3>2
  <2>5. Sound(c)
    BY <1>2, <2>1, <2>3, <2>4 DEF Sound, IInv, Founded
  <2>6. \A u \in Users :
           \E v \in Users : part'[c][u].since <= part[c][v].since + 1
    BY <1>1, <2>1 DEF RowsAfter
  <2> QED
    BY <1>1, <1>2, <1>3, <2>1, <2>5, <2>6, CommitKeeps
<1> QED
  BY <1>2, <1>4, <1>5

-----------------------------------------------------------------------------
(* The invariant                                                           *)

LEMMA InitHolds == Init => IInv
<1> SUFFICES ASSUME Init
             PROVE  IInv
  OBVIOUS
<1>1. 0 \in Numbers /\ Idle \in Jobs
  BY CallAssumption DEF Idle, Jobs, Ops, MessageStatus, Numbers
<1>2. Cardinality(Users) \in Nat
  BY UsersAssumption, FS_CardinalityType
<1>3. NoPart \in Parts /\ NoPart.since = 0
  BY <1>2, CallAssumption DEF Parts, NoPart
<1>4. \A c \in Conversations :
         /\ conv[c] = [kind |-> "none", creator |-> NoUser, open |-> FALSE,
                       last |-> 0, preview |-> 0]
         /\ \A u \in Users : part[c][u] = NoPart
         /\ msgs[c] = <<>>
  BY DEF Init
<1>5. conv \in [Conversations -> Convs]
  BY <1>1 DEF Init, Convs
<1>6. TypeOK
  <2>1. part \in [Conversations -> [Users -> Parts]]
    BY <1>3 DEF Init
  <2>2. msgs \in [Conversations -> Seq(Messages)]
    BY DEF Init
  <2>3. job \in [Threads -> Jobs] /\ calls \in 0..MaxCalls
    BY <1>1, CallAssumption DEF Init
  <2> QED
    BY <1>4, <1>5, <2>1, <2>2, <2>3 DEF Init, TypeOK, NoPart
<1>7. HistoryInOrder
  BY <1>4 DEF HistoryInOrder
<1>8. Founded
  BY <1>4 DEF Founded, Members, NoPart
<1>9. \A p \in Threads : job[p] = Idle
  BY DEF Init
<1>10. Budget
  <2>1. InFlight = {}
    BY <1>9 DEF InFlight, Idle
  <2>2. IsFiniteSet(InFlight) /\ Cardinality(InFlight) = 0
    BY <2>1, FS_EmptySet
  <2> QED
    BY <1>2, <1>3, <1>4, <2>2 DEF Budget, Init
<1>11. OneCreator
  BY <1>9 DEF OneCreator, Idle, Creates
<1>12. JobsKnown
  BY <1>9 DEF JobsKnown, Known, Idle, Creates, GroupOps
<1> QED
  BY <1>6, <1>7, <1>8, <1>10, <1>11, <1>12 DEF IInv

LEMMA StepKeeps ==
  ASSUME IInv, [Next]_vars
  PROVE  IInv'
<1>1. ASSUME NEW p \in Threads, NEW c \in Conversations, NEW u \in Users,
             Begin(p, c, u)
      PROVE  IInv'
  BY <1>1, BeginSendKeeps, BeginLeaveKeeps, BeginGroupKeeps, BeginEditKeeps,
     BeginAnswerKeeps, BeginDirectKeeps, BeginAddKeeps, BeginChangeKeeps
     DEF Begin
<1>2. ASSUME NEW p \in Threads, Commit(p)
      PROVE  IInv'
  BY <1>2, CommitCreateKeeps, CommitSendKeeps, CommitEditKeeps,
     CommitAnswerKeeps, CommitGroupKeeps DEF Commit
<1>3. CASE UNCHANGED vars
  <2>1. /\ UNCHANGED <<conv, part, msgs>> /\ blocks' \subseteq Users \X Users
        /\ calls' \in 0..MaxCalls /\ job' \in [Threads -> Jobs]
        /\ job' = job /\ calls' = calls
    BY <1>3 DEF vars, tables, IInv, TypeOK
  <2>2. /\ TypeOK' /\ HistoryInOrder' /\ Founded'
        /\ \A c \in Conversations : Grown(c)
    BY <2>1, TablesStay
  <2>3. JobsKnown'
    <3>1. ASSUME NEW q \in Threads
          PROVE  \E k \in Jobs : /\ job'[q] = k /\ Known(k)
                                 /\ k.op \in Creates => conv'[k.c].kind = "none"
      BY <2>1 DEF IInv, TypeOK, JobsKnown, Known
    <3> QED
      BY <2>2, <3>1, JobsStayKnown
  <2>4. OneCreator' /\ Budget'
    BY <2>1 DEF IInv, OneCreator, Budget, InFlight
  <2> QED
    BY <2>2, <2>3, <2>4 DEF IInv
<1> QED
  BY <1>1, <1>2, <1>3, WriteKeeps, ExpireKeeps, BlockKeeps DEF Next

\* The invariant on which the others rest: what a call in flight has read of the
\* messages, of its conversation's kind and of an open request still bounds what
\* it will find when it commits.
THEOREM ChatInvariant == Spec => []IInv
<1>1. Init => IInv
  BY InitHolds
<1>2. IInv /\ [Next]_vars => IInv'
  BY StepKeeps
<1> QED
  BY <1>1, <1>2, PTL DEF Spec

\* Every variable keeps its type; requests are only in direct conversations, and
\* these keep their two participants.
THEOREM ChatTyped == Spec => []TypeOK
<1>1. IInv => TypeOK
  BY DEF IInv
<1> QED
  BY <1>1, ChatInvariant, PTL

\* ChatService numbers the messages of a conversation without gap in the order of
\* their commits, and last_message is the newest: the highest number is read
\* without a lock, and unique_message_sequence is enough.
THEOREM ChatHistoryInOrder == Spec => []HistoryInOrder
<1>1. IInv => HistoryInOrder
  BY DEF IInv
<1> QED
  BY <1>1, ChatInvariant, PTL

-----------------------------------------------------------------------------
(* What each commit does to its conversation                               *)

\* A step leaves a conversation as it is, but for the participants of a direct
\* one, or commits a call about it.
LEMMA WhoChanges ==
  ASSUME IInv, [Next]_vars, NEW c \in Conversations
  PROVE  \/ /\ conv'[c] = conv[c] /\ msgs'[c] = msgs[c]
            /\ part'[c] = part[c] \/ conv[c].kind = "direct"
         \/ \E p \in Threads :
               /\ job[p].c = c
               /\ \/ CommitCreate(p) \/ CommitSend(p) \/ CommitEdit(p)
                  \/ CommitDelete(p) \/ CommitGroup(p)
<1> DEFINE Same == /\ conv'[c] = conv[c] /\ msgs'[c] = msgs[c]
                   /\ part'[c] = part[c] \/ conv[c].kind = "direct"
<1>1. CASE UNCHANGED vars
  BY <1>1 DEF vars, tables
<1>2. ASSUME NEW p \in Threads, NEW d \in Conversations, NEW u \in Users,
             Begin(p, d, u)
      PROVE  Same
  BY <1>2 DEF Begin, BeginSend, BeginLeave, BeginGroup, BeginEdit, BeginDelete,
     BeginAnswer, BeginDirect, BeginAdd, BeginRemove, BeginPromote, BeginDemote,
     StartGroup, Create, Start, tables
<1>3. ASSUME NEW p \in Threads, Write(p)
      PROVE  Same
  BY <1>3 DEF Write, WriteSend, WriteEdit, WriteGroup, tables
<1>4. ASSUME NEW d \in Conversations, NEW u \in Users, ExpireRequests(d, u)
      PROVE  Same
  <2>1. CASE d = c
    BY <1>4, <2>1 DEF ExpireRequests, IInv, TypeOK
  <2>2. CASE d # c
    <3>1. part'[c] = part[c]
      BY <1>4, <2>2 DEF ExpireRequests, IInv, TypeOK
    <3> QED
      BY <1>4, <3>1 DEF ExpireRequests
  <2> QED
    BY <2>1, <2>2
<1>5. ASSUME NEW u \in Users, NEW v \in Users, Block(u, v) \/ Unblock(u, v)
      PROVE  Same
  BY <1>5 DEF Block, Unblock
<1>6. ASSUME NEW p \in Threads, CommitAnswer(p)
      PROVE  Same
  <2>1. PICK d \in Conversations : d = job[p].c /\ conv[d].kind = "direct"
    BY <1>6 DEF CommitAnswer, IInv, JobsKnown, Known
  <2>2. CASE d = c
    BY <1>6, <2>1, <2>2 DEF CommitAnswer
  <2>3. CASE d # c
    <3>1. part'[c] = part[c]
      BY <1>6, <2>1, <2>3 DEF CommitAnswer, IInv, TypeOK
    <3> QED
      BY <1>6, <3>1 DEF CommitAnswer
  <2> QED
    BY <2>2, <2>3
<1>7. ASSUME NEW p \in Threads, job[p].c # c,
             \/ CommitCreate(p) \/ CommitSend(p) \/ CommitEdit(p)
             \/ CommitDelete(p) \/ CommitGroup(p)
      PROVE  Same
  <2>1. /\ conv \in [Conversations -> Convs]
        /\ part \in [Conversations -> [Users -> Parts]]
        /\ msgs \in [Conversations -> Seq(Messages)]
    BY DEF IInv, TypeOK
  <2>2. CASE CommitCreate(p)
    BY <1>7, <2>1, <2>2 DEF CommitCreate
  <2>3. CASE CommitSend(p)
    BY <1>7, <2>1, <2>3 DEF CommitSend, Shows
  <2>4. CASE CommitEdit(p)
    BY <1>7, <2>1, <2>4 DEF CommitEdit
  <2>5. CASE CommitDelete(p)
    BY <1>7, <2>1, <2>5 DEF CommitDelete
  <2>6. CASE CommitGroup(p)
    BY <1>7, <2>1, <2>6 DEF CommitGroup
  <2> QED
    BY <1>7, <2>2, <2>3, <2>4, <2>5, <2>6
<1> QED
  BY <1>1, <1>2, <1>3, <1>4, <1>5, <1>6, <1>7 DEF Next, Commit

\* A call that ends leaves its thread idle.
LEMMA Ended ==
  ASSUME IInv, NEW p \in Threads, Finish(p)
  PROVE  Ends(p, job[p].op)
BY DEF Ends, Finish, IInv, TypeOK

LEMMA CreateDoes ==
  ASSUME IInv, NEW p \in Threads, CommitCreate(p), NEW c \in Conversations,
         job[p].c = c
  PROVE  /\ conv[c].kind = "none" /\ msgs[c] = <<>> /\ msgs'[c] = msgs[c]
         /\ Members(c) = {} /\ Members(c)' = job[p].members
         /\ conv'[c].kind = job[p].op /\ conv'[c].creator = job[p].by
         /\ conv'[c].last = 0 /\ conv'[c].preview = 0
         /\ job[p].op \in Creates /\ Ends(p, job[p].op)
<1>1. /\ job[p] \in Jobs /\ Known(job[p]) /\ job[p].op \in Creates
  BY DEF IInv, TypeOK, JobsKnown, CommitCreate, Creates
<1>2. /\ conv[c].kind = "none" /\ msgs[c] = <<>> /\ Members(c) = {}
      /\ msgs' = msgs /\ Finish(p) /\ job[p].by \in job[p].members
      /\ job[p].members \in SUBSET Users
  BY <1>1 DEF Known, IInv, Founded, CommitCreate, Jobs
<1>3. /\ conv \in [Conversations -> Convs]
      /\ part \in [Conversations -> [Users -> Parts]]
  BY DEF IInv, TypeOK
<1>4. conv'[c] = [kind |-> job[p].op, creator |-> job[p].by, open |-> TRUE,
                  last |-> 0, preview |-> 0]
  BY <1>3 DEF CommitCreate
<1>5. \A v \in Users : part'[c][v].active <=> v \in job[p].members
  <2>1. PICK request \in RequestsOf(job[p].op),
             order \in Orders(job[p].members \ {job[p].by}) :
           part' = [part EXCEPT ![job[p].c] = [v \in Users |->
                  IF v = job[p].by
                  THEN [active |-> TRUE, since |-> 1, request |-> "none",
                        role |-> IF job[p].op = "group" THEN "admin" ELSE "member"]
                  ELSE IF v \in job[p].members
                  THEN [active |-> TRUE, since |-> order[v],
                        request |-> request, role |-> "member"]
                  ELSE NoPart]]
    BY DEF CommitCreate
  <2>2. ASSUME NEW v \in Users
        PROVE  part'[c][v] =
                  IF v = job[p].by
                  THEN [active |-> TRUE, since |-> 1, request |-> "none",
                        role |-> IF job[p].op = "group" THEN "admin" ELSE "member"]
                  ELSE IF v \in job[p].members
                  THEN [active |-> TRUE, since |-> order[v],
                        request |-> request, role |-> "member"]
                  ELSE NoPart
    BY <1>3, <2>1
  <2>3. ASSUME NEW v \in Users
        PROVE  part'[c][v].active <=> v \in job[p].members
    <3>1. CASE v = job[p].by
      <4>1. part'[c][v] = [active |-> TRUE, since |-> 1, request |-> "none",
                  role |-> IF job[p].op = "group" THEN "admin" ELSE "member"]
        BY <2>2, <3>1
      <4> QED
        BY <1>2, <3>1, <4>1
    <3>2. CASE v \in job[p].members \ {job[p].by}
      <4>1. part'[c][v] = [active |-> TRUE, since |-> order[v],
                           request |-> request, role |-> "member"]
        BY <2>2, <3>2
      <4> QED
        BY <3>2, <4>1
    <3>3. CASE v \notin job[p].members
      <4>1. part'[c][v] = NoPart
        BY <1>2, <2>2, <3>3
      <4> QED
        BY <3>3, <4>1 DEF NoPart
    <3> QED
      BY <3>1, <3>2, <3>3
  <2> QED
    BY <2>3
<1>6. Members(c)' = job[p].members
  BY <1>2, <1>5 DEF Members
<1> QED
  BY <1>1, <1>2, <1>4, <1>6, Ended

-----------------------------------------------------------------------------
(* What is shown                                                           *)

\* A step that deletes, restores or shows message i of c, and the edit behind it.
Restored(c, i) ==
    /\ msgs[c][i].status = "deleted"
    /\ \/ msgs'[c][i].status # "deleted"
       \/ conv'[c].preview = i /\ conv[c].preview # i

LEMMA RestoredByEdit ==
  ASSUME IInv, [Next]_vars, NEW c \in Conversations,
         NEW i \in DOMAIN msgs[c], Restored(c, i)
  PROVE  \E p \in Threads : /\ job[p].c = c /\ job[p].about = i
                            /\ Ends(p, "edit") /\ job[p].read # "deleted"
<1>1. /\ msgs[c] \in Seq(Messages) /\ Len(msgs[c]) \in Nat
      /\ DOMAIN msgs[c] = 1..Len(msgs[c]) /\ i \in 1..Len(msgs[c])
  BY DEF IInv, TypeOK
<1>2. ~(conv'[c] = conv[c] /\ msgs'[c] = msgs[c])
  BY DEF Restored
<1>3. PICK p \in Threads :
         /\ job[p].c = c
         /\ \/ CommitCreate(p) \/ CommitSend(p) \/ CommitEdit(p)
            \/ CommitDelete(p) \/ CommitGroup(p)
  BY <1>2, WhoChanges
<1>4. CASE CommitCreate(p)
  BY <1>1, <1>3, <1>4, CreateDoes
<1>5. CASE CommitSend(p)
  <2>1. conv' # conv \/ msgs' # msgs
    BY <1>2
  <2>2. /\ conv'[c].preview = Len(msgs'[c])
        /\ \E m \in Messages : msgs'[c] = Append(msgs[c], m)
    BY <1>3, <1>5, <2>1, SendDoes
  <2>3. Len(msgs'[c]) = Len(msgs[c]) + 1 /\ msgs'[c][i] = msgs[c][i]
    BY <1>1, <2>2, AppendProperties
  <2> QED
    BY <1>1, <2>2, <2>3 DEF Restored
<1>6. CASE CommitDelete(p)
  <2>1. StatusSet(p, c, "deleted", 0)
    BY <1>3, <1>6, EditDoes
  <2>2. /\ msgs'[c][i].status = "deleted"
        /\ conv'[c].preview = conv[c].preview \/ conv'[c].preview = 0
    BY <1>1, <2>1 DEF StatusSet, Restored
  <2> QED
    BY <1>1, <2>2 DEF Restored
<1>7. CASE CommitGroup(p)
  <2>1. PICK j \in Jobs : j = job[p] /\ c = j.c
    BY <1>3 DEF IInv, TypeOK
  <2>2. GroupSet(j)
    BY <1>2, <1>7, <2>1, GroupDoes DEF tables
  <2>3. /\ msgs'[c][i] = msgs[c][i] /\ Len(msgs[c]) < Len(msgs'[c])
        /\ conv'[c].preview = Len(msgs'[c]) /\ Len(msgs'[c]) \in Nat
    BY <1>1, <2>1, <2>2 DEF GroupSet, Only
  <2> QED
    BY <1>1, <2>3 DEF Restored
<1>8. CASE CommitEdit(p)
  <2>1. StatusSet(p, c, "edited", job[p].about)
    BY <1>3, <1>8, EditDoes
  <2>2. job[p].about = i
    BY <1>1, <2>1 DEF StatusSet, Restored
  <2>3. job[p].op = "edit" /\ job[p].read # "deleted" /\ Finish(p)
    BY <1>8 DEF CommitEdit, IInv, JobsKnown, Known
  <2> QED
    BY <1>3, <2>2, <2>3, Ended
<1> QED
  BY <1>3, <1>4, <1>5, <1>6, <1>7, <1>8

\* delete_message is undone, or its message shown as the last one again, only by
\* an edit_message that had read the message before it was deleted: no other call
\* of the service, however it interleaves.
THEOREM ChatDeletedStaysDeleted == Spec => DeletedStaysDeleted
<1>1. ASSUME IInv, [Next]_vars
      PROVE  [\A c \in Conversations : \A i \in DOMAIN msgs[c] :
                Restored(c, i)
                => \E p \in Threads : /\ job[p].c = c /\ job[p].about = i
                                      /\ Ends(p, "edit")
                                      /\ job[p].read # "deleted"]_vars
  BY <1>1, RestoredByEdit
<1> QED
  BY <1>1, ChatInvariant, PTL DEF Spec, DeletedStaysDeleted, Restored

LEMMA PreviewByEdit ==
  ASSUME IInv, [Next]_vars, NEW c \in Conversations,
         conv'[c].preview # conv[c].preview,
         conv'[c].preview \notin {0, conv'[c].last}
  PROVE  \E p \in Threads : /\ job[p].c = c /\ Ends(p, "edit")
                            /\ job[p].last = conv'[c].preview
<1>1. PICK p \in Threads :
         /\ job[p].c = c
         /\ \/ CommitCreate(p) \/ CommitSend(p) \/ CommitEdit(p)
            \/ CommitDelete(p) \/ CommitGroup(p)
  BY WhoChanges
<1>2. CASE CommitCreate(p)
  BY <1>1, <1>2, CreateDoes
<1>3. CASE CommitSend(p)
  BY <1>1, <1>3, SendDoes
<1>4. CASE CommitDelete(p)
  BY <1>1, <1>4, EditDoes DEF StatusSet
<1>5. CASE CommitGroup(p)
  <2>1. PICK j \in Jobs : j = job[p] /\ c = j.c
    BY <1>1 DEF IInv, TypeOK
  <2>2. UNCHANGED tables \/ GroupSet(j)
    BY <1>5, <2>1, GroupDoes
  <2> QED
    BY <2>1, <2>2 DEF tables, GroupSet
<1>6. CASE CommitEdit(p)
  <2>1. StatusSet(p, c, "edited", job[p].about)
    BY <1>1, <1>6, EditDoes
  <2>2. job[p].last = conv'[c].preview
    BY <2>1 DEF StatusSet
  <2>3. job[p].op = "edit" /\ Finish(p)
    BY <1>6 DEF CommitEdit
  <2> QED
    BY <1>1, <2>2, <2>3, Ended
<1> QED
  BY <1>1, <1>2, <1>3, <1>4, <1>5, <1>6

\* last_message_preview becomes that of a message that is not the last only by an
\* edit_message that had found it to be the last.
THEOREM ChatPreviewIsOfLast == Spec => PreviewIsOfLast
<1>1. ASSUME IInv, [Next]_vars
      PROVE  [\A c \in Conversations :
                /\ conv'[c].preview # conv[c].preview
                /\ conv'[c].preview \notin {0, conv'[c].last}
                => \E p \in Threads : /\ job[p].c = c /\ Ends(p, "edit")
                                      /\ job[p].last = conv'[c].preview]_vars
  BY <1>1, PreviewByEdit
<1> QED
  BY <1>1, ChatInvariant, PTL DEF Spec, PreviewIsOfLast

-----------------------------------------------------------------------------
(* The administrators of a group                                           *)

\* Who is in the group after the call, and who manages it.
LEMMA GroupAfter ==
  ASSUME NEW j \in Jobs, NEW c \in Conversations, c = j.c, GroupSet(j)
  PROVE  \A v \in Users :
           /\ v \in Members(c)' <=>
                \/ v \in Members(c)
                   /\ ~(j.op \in {"remove", "leave"} /\ v = j.on)
                \/ j.op = "add" /\ v = j.on
           /\ v \in Admins(c)' <=>
                /\ v \in Members(c)'
                /\ ~(j.op \in {"add", "demote"} /\ v = j.on)
                /\ \/ j.op = "promote" /\ v = j.on
                   \/ j.op = "leave" /\ v \in j.heir
                   \/ part[c][v].role = "admin"
<1>1. RowsAfter(j, part'[c])
  BY DEF GroupSet
<1>2. ASSUME NEW v \in Users
      PROVE  v \in Members(c)' <=>
                \/ v \in Members(c)
                   /\ ~(j.op \in {"remove", "leave"} /\ v = j.on)
                \/ j.op = "add" /\ v = j.on
  BY <1>1 DEF Members, RowsAfter
<1>3. ASSUME NEW v \in Users
      PROVE  v \in Admins(c)' <=>
                /\ v \in Members(c)'
                /\ ~(j.op \in {"add", "demote"} /\ v = j.on)
                /\ \/ j.op = "promote" /\ v = j.on
                   \/ j.op = "leave" /\ v \in j.heir
                   \/ part[c][v].role = "admin"
  <2>1. part'[c][v].role = IF j.op \in {"add", "demote"} /\ v = j.on THEN "member"
                           ELSE IF \/ j.op = "promote" /\ v = j.on
                                   \/ j.op = "leave" /\ v \in j.heir
                           THEN "admin" ELSE part[c][v].role
    BY <1>1 DEF RowsAfter
  <2> QED
    BY <2>1 DEF Admins
<1> QED
  BY <1>2, <1>3

\* The call that takes the last administrator from a group.
LEMMA Unmanaged ==
  ASSUME IInv, [Next]_vars, NEW c \in Conversations,
         Admins(c) # {}, Admins(c)' = {},
         ~(Members(c)' = {} /\ ~conv'[c].open)
  PROVE  \E p \in Threads : /\ job[p].c = c
                            /\ \/ Ends(p, "remove")
                               \/ /\ \E op \in GroupOps : Ends(p, op)
                                  /\ Overtaken(p)
<1>1. conv[c].kind \notin {"direct", "none"}
  BY DEF IInv, TypeOK, Founded, Admins
<1>2. part'[c] # part[c]
  BY MembersOf
<1>3. PICK p \in Threads :
         /\ job[p].c = c
         /\ \/ CommitCreate(p) \/ CommitSend(p) \/ CommitEdit(p)
            \/ CommitDelete(p) \/ CommitGroup(p)
  BY <1>1, <1>2, WhoChanges
<1>4. CommitGroup(p)
  <2>1. ~CommitCreate(p)
    BY <1>1, <1>3, CreateDoes
  <2>2. ~CommitSend(p) /\ ~CommitEdit(p) /\ ~CommitDelete(p)
    BY <1>2 DEF CommitSend, CommitEdit, CommitDelete
  <2> QED
    BY <1>3, <2>1, <2>2
<1>5. PICK j \in Jobs : j = job[p] /\ c = j.c
  BY <1>3 DEF IInv, TypeOK
<1>6. j.op \in GroupOps /\ Finish(p) /\ GroupKnown(j) /\ GroupSet(j)
  BY <1>2, <1>4, <1>5, GroupDoes DEF tables
<1>7. Ends(p, j.op)
  BY <1>5, <1>6, Ended
<1>8. CASE j.op = "remove"
  BY <1>3, <1>7, <1>8
<1>9. CASE Overtaken(p)
  BY <1>3, <1>6, <1>7, <1>9
<1>10. ASSUME j.op # "remove", ~Overtaken(p)
       PROVE  FALSE
  <2>1. Members(c) = j.members /\ Admins(c) = j.admins
    BY <1>3, <1>5, <1>10 DEF Overtaken
  <2>2. \A v \in Users :
           /\ v \in Members(c)' <=>
                \/ v \in Members(c)
                   /\ ~(j.op \in {"remove", "leave"} /\ v = j.on)
                \/ j.op = "add" /\ v = j.on
           /\ v \in Admins(c)' <=>
                /\ v \in Members(c)'
                /\ ~(j.op \in {"add", "demote"} /\ v = j.on)
                /\ \/ j.op = "promote" /\ v = j.on
                   \/ j.op = "leave" /\ v \in j.heir
                   \/ part[c][v].role = "admin"
    BY <1>5, <1>6, GroupAfter
  <2>3. /\ Members(c) \subseteq Users /\ Admins(c) \subseteq Members(c)
        /\ Members(c)' \subseteq Users
        /\ \A v \in Admins(c) : part[c][v].role = "admin"
    BY DEF Members, Admins
  <2>4. \A v \in Users : v \notin Admins(c)'
    OBVIOUS
  <2>5. PICK v \in Admins(c) : TRUE
    OBVIOUS
  <2>6. CASE j.op = "add"
    <3>1. v # j.on
      BY <1>6, <2>1, <2>3, <2>6 DEF GroupKnown
    <3> QED
      BY <2>2, <2>3, <2>4, <2>6, <3>1
  <2>7. CASE j.op = "promote"
    BY <2>2, <2>3, <2>4, <2>7
  <2>8. CASE j.op = "demote"
    <3>1. PICK w \in Admins(c) : w # j.on
      BY <1>6, <2>1, <2>8 DEF GroupKnown
    <3> QED
      BY <2>2, <2>3, <2>4, <2>8, <3>1
  <2>9. CASE j.op = "leave"
    <3>1. CASE Admins(c) \ {j.on} # {}
      <4>1. PICK w \in Admins(c) : w # j.on
        BY <3>1
      <4> QED
        BY <2>2, <2>3, <2>4, <2>9, <4>1
    <3>2. CASE j.members = {j.on}
      <4>1. Members(c)' = {}
        BY <2>1, <2>2, <2>3, <2>9, <3>2
      <4>2. ~conv'[c].open
        BY <1>5, <1>6, <2>9, <3>2 DEF GroupSet, Closes
      <4> QED
        BY <4>1, <4>2
    <3>3. CASE \E h \in j.members \ {j.on} : j.heir = {h}
      BY <2>1, <2>2, <2>3, <2>4, <2>9, <3>3
    <3> QED
      BY <1>6, <2>1, <2>9, <3>1, <3>2, <3>3 DEF GroupKnown
  <2> QED
    BY <1>6, <1>10, <2>6, <2>7, <2>8, <2>9 DEF GroupOps
<1> QED
  BY <1>8, <1>9, <1>10

\* A group that has an administrator keeps one or is closed with its last
\* member's leave: add, promote, demote and leave_conversation see to it with the
\* members they have read, unless another call commits in between, and
\* remove_participant alone does not.
THEOREM ChatGroupStaysManaged == Spec => GroupStaysManaged
<1>1. ASSUME IInv, [Next]_vars
      PROVE  [\A c \in Conversations :
                \/ Admins(c) = {}
                \/ Admins(c)' # {}
                \/ Members(c)' = {} /\ ~conv'[c].open
                \/ \E p \in Threads : /\ job[p].c = c
                                      /\ \/ Ends(p, "remove")
                                         \/ /\ \E op \in GroupOps : Ends(p, op)
                                            /\ Overtaken(p)]_vars
  BY <1>1, Unmanaged
<1> QED
  BY <1>1, ChatInvariant, PTL DEF Spec, GroupStaysManaged

-----------------------------------------------------------------------------
(* The limits                                                              *)

LEMMA MembersFinite ==
  ASSUME NEW c
  PROVE  /\ IsFiniteSet(Members(c)) /\ IsFiniteSet(Members(c)')
         /\ Cardinality(Members(c)) \in Nat /\ Cardinality(Members(c)') \in Nat
<1>1. Members(c) \subseteq Users /\ Members(c)' \subseteq Users
  BY DEF Members
<1>2. IsFiniteSet(Members(c)) /\ IsFiniteSet(Members(c)')
  BY <1>1, UsersAssumption, FS_Subset
<1> QED
  BY <1>2, FS_CardinalityType

\* The call that makes a group larger than its limit.
LEMMA Oversized ==
  ASSUME IInv, [Next]_vars, NEW c \in Conversations,
         conv'[c].kind = "group", Cardinality(Members(c)') > MaxSize,
         ~(Members(c)' \subseteq Members(c))
  PROVE  \E p \in Threads : job[p].c = c /\ Ends(p, "add") /\ Overtaken(p)
<1>1. part'[c] # part[c]
  BY MembersOf
<1>2. PICK p \in Threads :
         /\ job[p].c = c
         /\ \/ CommitCreate(p) \/ CommitSend(p) \/ CommitEdit(p)
            \/ CommitDelete(p) \/ CommitGroup(p)
  BY <1>1, WhoChanges
<1>3. PICK j \in Jobs : j = job[p] /\ c = j.c
  BY <1>2 DEF IInv, TypeOK
<1>4. ~CommitCreate(p)
  <2>1. SUFFICES ASSUME CommitCreate(p) PROVE FALSE
    OBVIOUS
  <2>2. Members(c)' = j.members /\ j.op = "group"
    BY <1>2, <1>3, <2>1, CreateDoes
  <2>3. Cardinality(j.members) <= MaxSize
    BY <1>3, <2>2 DEF IInv, JobsKnown, Known
  <2>4. Cardinality(j.members) \in Nat
    BY <2>2, MembersFinite
  <2> QED
    BY <2>2, <2>3, <2>4, LimitAssumption
<1>5. CommitGroup(p)
  BY <1>1, <1>2, <1>4 DEF CommitSend, CommitEdit, CommitDelete
<1>6. j.op \in GroupOps /\ Finish(p) /\ GroupKnown(j) /\ GroupSet(j)
  BY <1>1, <1>3, <1>5, GroupDoes DEF tables
<1>7. \A v \in Users :
         v \in Members(c)' <=>
            \/ v \in Members(c)
               /\ ~(j.op \in {"remove", "leave"} /\ v = j.on)
            \/ j.op = "add" /\ v = j.on
  BY <1>3, <1>6, GroupAfter
<1>8. Members(c) \subseteq Users /\ Members(c)' \subseteq Users
  BY DEF Members
<1>9. j.op = "add"
  BY <1>7, <1>8
<1>10. Members(c)' = Members(c) \cup {j.on}
  BY <1>6, <1>7, <1>8, <1>9 DEF GroupKnown
<1>11. Overtaken(p)
  <2>1. SUFFICES ASSUME ~Overtaken(p) PROVE FALSE
    OBVIOUS
  <2>2. Members(c) = j.members /\ j.on \notin Members(c)
        /\ Cardinality(Members(c)) < MaxSize
    BY <1>3, <1>6, <1>9, <2>1 DEF Overtaken, GroupKnown
  <2>3. Cardinality(Members(c)') = Cardinality(Members(c)) + 1
    BY <1>10, <2>2, MembersFinite, FS_AddElement
  <2> QED
    BY <2>2, <2>3, MembersFinite, LimitAssumption
<1>12. Ends(p, "add")
  BY <1>3, <1>6, <1>9, Ended
<1> QED
  BY <1>2, <1>11, <1>12

\* A conversation gets its kind and its creator when it is created, and then
\* keeps them.
LEMMA KindSet ==
  ASSUME IInv, [Next]_vars, NEW c \in Conversations,
         conv'[c].kind # conv[c].kind \/ conv'[c].creator # conv[c].creator
  PROVE  \E p \in Threads :
            /\ job[p].c = c /\ Ends(p, conv'[c].kind) /\ Known(job[p])
            /\ job[p].op = conv'[c].kind
<1>1. PICK p \in Threads :
         /\ job[p].c = c
         /\ \/ CommitCreate(p) \/ CommitSend(p) \/ CommitEdit(p)
            \/ CommitDelete(p) \/ CommitGroup(p)
  BY WhoChanges
<1>2. ~CommitSend(p)
  BY <1>1, SendDoes
<1>3. ~CommitEdit(p) /\ ~CommitDelete(p)
  BY <1>1, EditDoes DEF StatusSet
<1>4. ~CommitGroup(p)
  <2>1. PICK j \in Jobs : j = job[p] /\ c = j.c
    BY <1>1 DEF IInv, TypeOK
  <2> QED
    BY <2>1, GroupDoes DEF GroupSet, tables
<1>5. CommitCreate(p)
  BY <1>1, <1>2, <1>3, <1>4
<1>6. Known(job[p])
  BY DEF IInv, JobsKnown
<1> QED
  BY <1>1, <1>5, <1>6, CreateDoes

\* The limits of chat.groups and of a user's groups, and the one direct
\* conversation of a pair, are checked without a lock: each is exceeded only by a
\* call whose own reading was within the limit and that another call of its kind
\* has overtaken.
THEOREM ChatLimitsOvertaken == Spec => LimitsOvertaken
<1>1. ASSUME IInv, [Next]_vars
      PROVE  [\A c \in Conversations :
         /\ /\ conv'[c].kind = "group" /\ Cardinality(Members(c)') > MaxSize
            /\ ~(Members(c)' \subseteq Members(c))
            => \E p \in Threads :
                 job[p].c = c /\ Ends(p, "add") /\ Overtaken(p)
         /\ conv[c].kind = "none" /\ conv'[c].kind = "direct"
            => \E p \in Threads : /\ job[p].c = c /\ Ends(p, "direct")
                                  /\ job[p].twins = {}
         /\ \A u \in Users :
              /\ c \in Groups(u)' \ Groups(u)
              /\ Cardinality(Groups(u)') > MaxGroups
              => \E p \in Threads : /\ job[p].c = c /\ Ends(p, "group")
                                    /\ Cardinality(job[p].twins) < MaxGroups]_vars
  <2>1. SUFFICES ASSUME NEW c \in Conversations
        PROVE
         /\ /\ conv'[c].kind = "group" /\ Cardinality(Members(c)') > MaxSize
            /\ ~(Members(c)' \subseteq Members(c))
            => \E p \in Threads :
                 job[p].c = c /\ Ends(p, "add") /\ Overtaken(p)
         /\ conv[c].kind = "none" /\ conv'[c].kind = "direct"
            => \E p \in Threads : /\ job[p].c = c /\ Ends(p, "direct")
                                  /\ job[p].twins = {}
         /\ \A u \in Users :
              /\ c \in Groups(u)' \ Groups(u)
              /\ Cardinality(Groups(u)') > MaxGroups
              => \E p \in Threads : /\ job[p].c = c /\ Ends(p, "group")
                                    /\ Cardinality(job[p].twins) < MaxGroups
    OBVIOUS
  <2>2. /\ conv'[c].kind = "group" /\ Cardinality(Members(c)') > MaxSize
        /\ ~(Members(c)' \subseteq Members(c))
        => \E p \in Threads : job[p].c = c /\ Ends(p, "add") /\ Overtaken(p)
    BY <1>1, Oversized
  <2>4. ASSUME conv[c].kind = "none", conv'[c].kind = "direct"
        PROVE  \E p \in Threads : /\ job[p].c = c /\ Ends(p, "direct")
                                  /\ job[p].twins = {}
    <3>1. PICK p \in Threads :
             /\ job[p].c = c /\ Ends(p, "direct") /\ Known(job[p])
             /\ job[p].op = "direct"
      BY <1>1, <2>4, KindSet
    <3> QED
      BY <3>1 DEF Known
  <2>5. ASSUME NEW u \in Users, c \in Groups(u)' \ Groups(u)
        PROVE  \E p \in Threads : /\ job[p].c = c /\ Ends(p, "group")
                                  /\ Cardinality(job[p].twins) < MaxGroups
    <3>1. /\ conv'[c].kind = "group" /\ conv'[c].creator = u
          /\ conv[c].kind # "group" \/ conv[c].creator # u
      BY <2>5 DEF Groups
    <3>2. PICK p \in Threads :
             /\ job[p].c = c /\ Ends(p, "group") /\ Known(job[p])
             /\ job[p].op = "group"
      BY <1>1, <3>1, KindSet
    <3> QED
      BY <3>2 DEF Known
  <2> QED
    BY <2>2, <2>4, <2>5
<1> QED
  BY <1>1, ChatInvariant, PTL DEF Spec, LimitsOvertaken

=============================================================================
