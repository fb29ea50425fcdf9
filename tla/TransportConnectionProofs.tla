--------------------- MODULE TransportConnectionProofs ---------------------
(***************************************************************************)
(* The outbound queues and byte budgets, for any connections, senders,     *)
(* source IPs, frame sizes and limits.                                     *)
(*                                                                         *)
(* A budget's counter is the sum of what somebody still has to give back:  *)
(* the frames in the queues, the frame a writer or closer is returning     *)
(* level by level, the frame of the one sender that holds queueMu.  A sum  *)
(* is the size of an area, a column of height f[s] over every s, so that   *)
(* the theorems on cardinality do what would otherwise take an induction.  *)
(***************************************************************************)
EXTENDS TransportConnection, FiniteSetTheorems, SequenceTheorems, TLAPS

Column(f, s) == {s} \X (0 .. f[s] - 1)
Area(f) == UNION {Column(f, s) : s \in DOMAIN f}
Sum(f) == Cardinality(Area(f))
----------------------------------------------------------------------------
(* Sums.                                                                   *)

LEMMA ColumnSize ==
  ASSUME NEW f, NEW s, f[s] \in Nat
  PROVE  IsFiniteSet(Column(f, s)) /\ Cardinality(Column(f, s)) = f[s]
  <1>1. IsFiniteSet({s}) /\ Cardinality({s}) = 1
    BY FS_Singleton
  <1>2. IsFiniteSet(0 .. f[s] - 1) /\ Cardinality(0 .. f[s] - 1) = f[s]
    <2>1. ASSUME NEW n \in Nat
          PROVE  IsFiniteSet(0 .. n - 1) /\ Cardinality(0 .. n - 1) = n
      <3>1. /\ IsFiniteSet(0 .. n - 1)
            /\ Cardinality(0 .. n - 1) = IF 0 > n - 1 THEN 0 ELSE (n - 1) - 0 + 1
        BY FS_Interval
      <3> QED
        BY <3>1
    <2> QED
      BY <2>1
  <1> DEFINE I == 0 .. f[s] - 1
  <1>3. IsFiniteSet({s} \X I) /\ Cardinality({s} \X I) = Cardinality({s}) * Cardinality(I)
    <2> HIDE DEF I
    <2>1. IsFiniteSet(I)
      BY <1>2 DEF I
    <2> QED
      BY <1>1, <2>1, FS_Product
  <1> QED
    BY <1>1, <1>2, <1>3 DEF Column

LEMMA ColumnMember ==
  ASSUME NEW f, NEW s, NEW p
  PROVE  p \in Column(f, s) <=> p \in {s} \X Nat /\ p[1] = s /\ p[2] \in 0 .. f[s] - 1
  BY DEF Column

(* A sum over a finite domain exists.                                      *)
LEMMA AreaFinite ==
  ASSUME NEW S, IsFiniteSet(S), NEW f \in [S -> Nat]
  PROVE  IsFiniteSet(Area(f)) /\ Sum(f) \in Nat
  <1> DEFINE C == {Column(f, s) : s \in S}
             g == [s \in S |-> Column(f, s)]
  <1>1. g \in Surjection(S, C)
    BY DEF Surjection
  <1>2. IsFiniteSet(C)
    BY <1>1, FS_Surjection
  <1>3. \A T \in C : IsFiniteSet(T)
    BY ColumnSize
  <1>4. IsFiniteSet(UNION C)
    BY <1>2, <1>3, FS_UNION
  <1> QED
    BY <1>4, FS_CardinalityType DEF Area, Sum

(* A sum is one column and the rest.                                       *)
LEMMA SumSplit ==
  ASSUME NEW S, IsFiniteSet(S), NEW f \in [S -> Nat], NEW s \in S
  PROVE  LET R == UNION {Column(f, x) : x \in S \ {s}}
         IN  IsFiniteSet(R) /\ Cardinality(R) \in Nat /\ Sum(f) = Cardinality(R) + f[s]
  <1> DEFINE R == UNION {Column(f, x) : x \in S \ {s}}
             K == Column(f, s)
  <1>1. Area(f) = R \cup K
    BY DEF Area
  <1>2. R \cap K = {}
    BY DEF Column
  <1>3. IsFiniteSet(Area(f))
    BY AreaFinite
  <1>4. IsFiniteSet(R) /\ Cardinality(R) \in Nat
    BY <1>1, <1>3, FS_Subset, FS_CardinalityType
  <1>5. IsFiniteSet(K) /\ Cardinality(K) = f[s]
    BY ColumnSize
  <1> HIDE DEF R, K
  <1>6. Cardinality(R \cup K) = Cardinality(R) + Cardinality(K) - Cardinality(R \cap K)
    BY <1>4, <1>5, FS_Union
  <1>7. Cardinality(R \cap K) = 0
    BY <1>2, FS_EmptySet
  <1>8. Sum(f) = Cardinality(R) + f[s]
    BY <1>1, <1>4, <1>5, <1>6, <1>7 DEF Sum
  <1> QED
    BY <1>4, <1>8 DEF R

(* Changing one column changes the sum by the difference.                  *)
LEMMA SumUpdate ==
  ASSUME NEW S, IsFiniteSet(S), NEW f \in [S -> Nat], NEW g \in [S -> Nat], NEW s \in S,
         \A x \in S \ {s} : g[x] = f[x]
  PROVE  /\ Sum(f) \in Nat /\ Sum(g) \in Nat
         /\ Sum(g) - g[s] = Sum(f) - f[s]
  <1> DEFINE F == UNION {Column(f, x) : x \in S \ {s}}
             G == UNION {Column(g, x) : x \in S \ {s}}
  <1>1. F = G
    BY DEF Column
  <1>2. Cardinality(F) \in Nat /\ Sum(f) = Cardinality(F) + f[s]
    BY SumSplit
  <1>3. Cardinality(G) \in Nat /\ Sum(g) = Cardinality(G) + g[s]
    BY SumSplit
  <1>4. f[s] \in Nat /\ g[s] \in Nat
    OBVIOUS
  <1> HIDE DEF F, G
  <1> QED
    BY <1>1, <1>2, <1>3, <1>4

(* A sum is at least each of its parts, and positive if and only if one of *)
(* them is.                                                                *)
LEMMA SumBounds ==
  ASSUME NEW S, IsFiniteSet(S), NEW f \in [S -> Nat]
  PROVE  /\ \A s \in S : f[s] <= Sum(f)
         /\ Sum(f) > 0 => \E s \in S : f[s] > 0
  <1>1. ASSUME NEW s \in S PROVE f[s] <= Sum(f)
    <2> DEFINE R == UNION {Column(f, x) : x \in S \ {s}}
    <2>1. Cardinality(R) \in Nat /\ Sum(f) = Cardinality(R) + f[s]
      BY <1>1, SumSplit
    <2>2. f[s] \in Nat
      BY <1>1
    <2> HIDE DEF R
    <2> QED
      BY <2>1, <2>2
  <1>2. ASSUME \A s \in S : f[s] = 0 PROVE Sum(f) = 0
    <2>1. Area(f) = {}
      BY <1>2 DEF Area, Column
    <2> QED
      BY <2>1, FS_EmptySet DEF Sum
  <1> QED
    BY <1>1, <1>2

LEMMA EmptySum == Sum(<<>>) = 0
  <1>1. Area(<<>>) = {}
    BY DEF Area
  <1> QED
    BY <1>1, FS_EmptySet DEF Sum

(* A queue grows by the frame that is appended.                            *)
LEMMA SumAppend ==
  ASSUME NEW q \in Seq(Nat), NEW b \in Nat
  PROVE  Sum(q) \in Nat /\ Sum(Append(q, b)) = Sum(q) + b
  <1> DEFINE n == Len(q)
             g == Append(q, b)
             S == 1 .. n + 1
             R == UNION {Column(g, x) : x \in S \ {n + 1}}
  <1>1. n \in Nat /\ q \in [1 .. n -> Nat]
    OBVIOUS
  <1>2. g \in [S -> Nat] /\ g[n + 1] = b /\ \A i \in 1 .. n : g[i] = q[i]
    <2>1. /\ g \in Seq(Nat) /\ Len(g) = n + 1 /\ g[n + 1] = b
          /\ \A i \in 1 .. n : g[i] = q[i]
      BY AppendProperties
    <2> HIDE DEF g, n
    <2> QED
      BY <2>1
  <1>3. IsFiniteSet(S) /\ IsFiniteSet(1 .. n)
    BY <1>1, FS_Interval
  <1>4. S \ {n + 1} = 1 .. n
    BY <1>1
  <1> HIDE DEF g, S, n
  <1>5. R = Area(q)
    BY <1>1, <1>2, <1>4 DEF Area, Column
  <1>6. n + 1 \in S
    BY <1>1 DEF S
  <1>7. Sum(g) = Cardinality(R) + g[n + 1]
    BY <1>2, <1>3, <1>6, SumSplit
  <1>8. Sum(q) \in Nat
    BY <1>1, <1>3, AreaFinite
  <1> QED
    BY <1>2, <1>5, <1>7, <1>8 DEF Sum, g

(* A queue shrinks by the frame that is taken from its head.               *)
LEMMA SumTail ==
  ASSUME NEW q \in Seq(Nat), q # <<>>
  PROVE  /\ Sum(q) \in Nat /\ Sum(Tail(q)) \in Nat /\ Head(q) \in Nat
         /\ Sum(q) = Sum(Tail(q)) + Head(q)
  <1> DEFINE n == Len(q)
             t == Tail(q)
             R == UNION {Column(q, x) : x \in (1 .. n) \ {1}}
             up == [p \in Area(t) |-> <<p[1] + 1, p[2]>>]
  <1>1. n \in Nat \ {0} /\ q \in [1 .. n -> Nat] /\ Head(q) = q[1] /\ Head(q) \in Nat
    OBVIOUS
  <1>2. t \in [1 .. n - 1 -> Nat] /\ \A i \in 1 .. n - 1 : t[i] = q[i + 1]
    <2>1. t \in Seq(Nat) /\ Len(t) = n - 1 /\ \A i \in 1 .. n - 1 : t[i] = q[i + 1]
      BY HeadTailProperties
    <2> HIDE DEF t, n
    <2> QED
      BY <2>1
  <1>3. IsFiniteSet(1 .. n) /\ IsFiniteSet(1 .. n - 1)
    BY <1>1, FS_Interval
  <1> HIDE DEF n, t
  <1>4. IsFiniteSet(Area(t)) /\ Sum(t) \in Nat /\ Sum(q) \in Nat
    BY <1>1, <1>2, <1>3, AreaFinite
  <1>5. Sum(q) = Cardinality(R) + q[1]
    <2>1. 1 \in 1 .. n
      BY <1>1
    <2> QED
      BY <1>1, <1>3, <2>1, SumSplit
  <1>6. \A i, j : <<i, j>> \in Area(t) <=> i \in 1 .. n - 1 /\ j \in 0 .. q[i + 1] - 1
    <2>1. DOMAIN t = 1 .. n - 1
      BY <1>2
    <2>2. \A i, j : <<i, j>> \in Area(t) <=> i \in 1 .. n - 1 /\ j \in 0 .. t[i] - 1
      BY <2>1 DEF Area, Column
    <2> QED
      BY <1>2, <2>2
  <1>7. \A i, j : <<i, j>> \in R <=> i \in 2 .. n /\ j \in 0 .. q[i] - 1
    BY <1>1 DEF Column
  <1>8. /\ \A p \in Area(t) : p = <<p[1], p[2]>> /\ p[1] \in Nat
        /\ \A p \in R : p = <<p[1], p[2]>> /\ p[1] \in Nat
    BY <1>1, <1>2 DEF Area, Column
  <1> HIDE DEF R
  <1>9. up \in [Area(t) -> R]
    <2> SUFFICES ASSUME NEW p \in Area(t) PROVE <<p[1] + 1, p[2]>> \in R
      OBVIOUS
    <2>1. p[1] \in 1 .. n - 1 /\ p[2] \in 0 .. q[p[1] + 1] - 1
      BY <1>6, <1>8
    <2>2. p[1] + 1 \in 2 .. n
      BY <1>1, <2>1
    <2> QED
      BY <1>7, <2>1, <2>2
  <1>10. \A p, r \in Area(t) : up[p] = up[r] => p = r
    BY <1>8
  <1>11. \A r \in R : \E p \in Area(t) : up[p] = r
    <2> SUFFICES ASSUME NEW r \in R PROVE \E p \in Area(t) : up[p] = r
      OBVIOUS
    <2>1. r = <<r[1], r[2]>> /\ r[1] \in 2 .. n /\ r[2] \in 0 .. q[r[1]] - 1
      BY <1>7, <1>8
    <2>2. <<r[1] - 1, r[2]>> \in Area(t)
      <3>1. r[1] - 1 \in 1 .. n - 1 /\ (r[1] - 1) + 1 = r[1]
        BY <1>1, <2>1
      <3> QED
        BY <1>6, <2>1, <3>1
    <2>3. up[<<r[1] - 1, r[2]>>] = <<r[1], r[2]>>
      BY <1>1, <2>1, <2>2
    <2> QED
      BY <2>1, <2>2, <2>3
  <1> HIDE DEF up
  <1>12. up \in Bijection(Area(t), R)
    BY <1>9, <1>10, <1>11 DEF Bijection, Injection, Surjection, IsInjective
  <1>13. Cardinality(R) = Sum(t)
    BY <1>4, <1>12, FS_Bijection DEF ExistsBijection, Sum
  <1> QED
    BY <1>1, <1>4, <1>5, <1>13 DEF t
----------------------------------------------------------------------------
(* Where the goroutines can be.                                            *)

Critical == {"reserve", "rollback", "abort", "enqueue"}
Known == {"open", "released"}
SenderStates ==
    [stage : {"idle", "slot", "lock"} \cup Critical, conn : Conns \cup {Nil},
     bytes : Nat, level : 0 .. 4]
States ==
    [stage : {"idle", "select", "slotBack", "write", "complete", "fail", "exit", "gone",
              "drain", "release", "done", "process", "body", "releaseIP"},
     conn : Conns \cup {Nil}, bytes : Nat, level : 0 .. 3]

Types ==
    /\ phase \in [Conns -> {"new", "open", "released", "refused"}]
    /\ ip \in [Conns -> IPs \cup {Nil}]
    /\ slots \in [Conns -> Nat]
    /\ queue \in [Conns -> Seq(Sizes)]
    /\ closed \in SUBSET Conns
    /\ queueMu \in [Conns -> Senders \cup {"closer", Nil}]
    /\ connUsed \in [Conns -> Int]
    /\ usage \in [IPs -> Usages \cup {Nil}]
    /\ global \in [outbound : Int, read : Int]
    /\ sender \in [Senders -> SenderStates]
    /\ writer \in [Conns -> States] /\ closer \in [Conns -> States] /\ reader \in [Conns -> States]

(* A sender reserves and enqueues only with queueMu, on an open queue.     *)
SendersOK ==
    \A t \in Senders :
        /\ sender[t].stage # "idle" =>
              /\ sender[t].conn \in Conns /\ sender[t].bytes \in Sizes
              /\ phase[sender[t].conn] \in Known
        /\ sender[t].stage = "reserve" => sender[t].level \in 1 .. 3
        /\ sender[t].stage = "rollback" => sender[t].level \in 1 .. 2
        /\ sender[t].stage \in Critical =>
              queueMu[sender[t].conn] = t /\ sender[t].conn \notin closed

MutexOK ==
    \A c \in Conns :
        /\ queueMu[c] \in Senders =>
              sender[queueMu[c]].conn = c /\ sender[queueMu[c]].stage \in Critical
        /\ queueMu[c] = "closer" <=> closer[c].stage \in {"drain", "slotBack", "release"}
        /\ c \in closed <=> closer[c].stage # "idle"

ClosersOK ==
    \A c \in Conns :
        /\ closer[c].stage \in {"idle", "drain", "slotBack", "release", "done"}
        /\ closer[c].stage \in {"drain", "slotBack", "release"} => phase[c] = "open"
        /\ closer[c].stage = "done" => queue[c] = <<>>
        /\ closer[c].stage = "slotBack" => closer[c].level = 3
        /\ closer[c].stage = "release" => closer[c].level \in 1 .. 3
        /\ closer[c].stage \in {"slotBack", "release"} => closer[c].bytes \in Sizes
        /\ phase[c] = "released" => closer[c].stage = "done"

WritersOK ==
    \A c \in Conns :
        /\ writer[c].stage \in {"idle", "select", "slotBack", "write", "complete", "fail",
                                "exit", "gone"}
        /\ writer[c].stage \in {"slotBack", "write"} => writer[c].level = 3
        /\ writer[c].stage \in {"complete", "fail"} => writer[c].level \in 1 .. 3
        /\ writer[c].stage \in {"slotBack", "write", "complete", "fail"} => writer[c].bytes \in Sizes
        /\ writer[c].stage = "gone" => closer[c].stage = "done"

ConnsOK ==
    \A c \in Conns :
        /\ phase[c] \in Known => ip[c] \in IPs
        /\ phase[c] \notin Known =>
              queue[c] = <<>> /\ writer[c].stage = "idle" /\ closer[c].stage = "idle"
        /\ reader[c].stage \in {"idle", "process", "body", "releaseIP"}
        /\ reader[c].stage # "idle" => phase[c] = "open"

Shape == Types /\ SendersOK /\ MutexOK /\ ClosersOK /\ WritersOK /\ ConnsOK
----------------------------------------------------------------------------
(* Who has to give back how much at a level.                               *)

Returning(level, w) ==
    IF w.stage \in {"slotBack", "write", "complete", "fail", "release"} /\ level <= w.level
    THEN w.bytes ELSE 0
Reserved(level, s) ==
    IF \/ s.stage = "reserve" /\ level < s.level
       \/ s.stage = "rollback" /\ level <= s.level
       \/ s.stage = "enqueue"
    THEN s.bytes ELSE 0
Sending(level, c) == IF queueMu[c] \in Senders THEN Reserved(level, sender[queueMu[c]]) ELSE 0
Charge(level, c) ==
    Sum(queue[c]) + Returning(level, writer[c]) + Returning(level, closer[c]) + Sending(level, c)

OutboundOf(a) == [c \in Conns |-> IF ip[c] = a THEN Charge(2, c) ELSE 0]
OpenOf(a) == [c \in Conns |-> IF ip[c] = a /\ phase[c] = "open" THEN 1 ELSE 0]
ReadOf(a) == [c \in Conns |-> IF ip[c] = a /\ reader[c].stage # "idle" THEN ReadSize ELSE 0]
Outbound == [c \in Conns |-> Charge(3, c)]
ReadAll == [c \in Conns |-> IF reader[c].stage = "body" THEN ReadSize ELSE 0]

UsageOf(a) == IF usage[a] = Nil THEN FreshUsage ELSE usage[a]

ConnBudget == \A c \in Conns : connUsed[c] = Charge(1, c) /\ connUsed[c] <= ConnLimit
OutboundBudget ==
    \A a \in IPs : UsageOf(a).outbound = Sum(OutboundOf(a)) /\ UsageOf(a).outbound <= IPLimit
OpenBudget ==
    \A a \in IPs : /\ UsageOf(a).connections = Sum(OpenOf(a))
                   /\ UsageOf(a).connections <= MaxConnectionsPerIP
ReadBudget ==
    \A a \in IPs : UsageOf(a).read = Sum(ReadOf(a)) /\ UsageOf(a).read <= IPReadLimit
GlobalBudget == global.outbound = Sum(Outbound) /\ global.outbound <= GlobalLimit
GlobalReadBudget == global.read = Sum(ReadAll) /\ global.read <= GlobalReadLimit
(* deleteIdleSourceIPLocked leaves no entry that counts nothing.           *)
EntriesUsed ==
    \A a \in IPs : usage[a] # Nil =>
        usage[a].connections + usage[a].outbound + usage[a].read > 0

Budgets ==
    /\ ConnBudget /\ OutboundBudget /\ OpenBudget /\ ReadBudget
    /\ GlobalBudget /\ GlobalReadBudget /\ EntriesUsed

TransportInv == Shape /\ SlotsConserved /\ Budgets
----------------------------------------------------------------------------
(* The shape is kept by every action.                                      *)

LEMMA Limits ==
  /\ Nil \notin IPs /\ Nil \notin Senders /\ Nil # "closer" /\ Nil \notin Usages
  /\ "closer" \notin Senders /\ "writer" \notin Senders
  /\ IsFiniteSet(Conns) /\ IsFiniteSet(Senders)
  /\ \A b \in Sizes : b \in Nat /\ b > 0
  /\ ReadSize \in Nat /\ QueueCapacity \in Nat \ {0} /\ MaxConnectionsPerIP \in Nat \ {0}
  /\ ConnLimit \in Nat /\ IPLimit \in Nat /\ GlobalLimit \in Nat
  /\ IPReadLimit \in Nat /\ GlobalReadLimit \in Nat
  BY TransportAssumption DEF TransportAssumption

LEMMA IdleTyped ==
  /\ Idle \in SenderStates /\ Idle \in States /\ Idle.stage = "idle"
  /\ Idle.bytes = 0 /\ Idle.level = 0
  BY DEF Idle, SenderStates, States

LEMMA AcquireShape ==
  ASSUME Shape, NEW c \in Conns, NEW a \in IPs, acquireIPConnection(c, a),
         usage' \in [IPs -> Usages \cup {Nil}]
  PROVE  Shape'
  <1>1. /\ Types /\ phase[c] = "new"
        /\ UNCHANGED <<slots, queue, closed, queueMu, connUsed, global, sender, closer, reader>>
    BY DEF Shape, acquireIPConnection
  <1>2. \/ phase' = [phase EXCEPT ![c] = "refused"] /\ UNCHANGED <<ip, writer>>
        \/ /\ phase' = [phase EXCEPT ![c] = "open"] /\ ip' = [ip EXCEPT ![c] = a]
           /\ writer' = [writer EXCEPT ![c] = At("select", c, 0, 0)]
    BY DEF acquireIPConnection
  <1>3. /\ At("select", c, 0, 0) \in States /\ At("select", c, 0, 0).stage = "select"
    BY DEF At, States
  <1>4. Types'
    <2>1. phase' \in [Conns -> {"new", "open", "released", "refused"}]
      BY <1>1, <1>2 DEF Types
    <2>2. ip' \in [Conns -> IPs \cup {Nil}]
      <3>1. ip \in [Conns -> IPs \cup {Nil}] /\ a \in IPs \cup {Nil}
        BY <1>1 DEF Types
      <3> QED
        BY ONLY <1>2, <3>1
    <2>3. writer' \in [Conns -> States]
      BY <1>1, <1>2, <1>3 DEF Types
    <2> QED
      BY <1>1, <2>1, <2>2, <2>3 DEF Types
  <1>5. \A t \in Senders : sender[t].stage # "idle" => sender[t].conn # c
    BY <1>1 DEF Shape, SendersOK, Known
  <1>6. SendersOK' /\ MutexOK'
    <2>1. \A d \in Conns : d # c => phase'[d] = phase[d]
      BY <1>1, <1>2 DEF Types
    <2>2. SendersOK'
      BY <1>1, <1>5, <2>1 DEF Shape, SendersOK, Critical
    <2>3. MutexOK'
      BY <1>1 DEF Shape, MutexOK
    <2> QED
      BY <2>2, <2>3
  <1>7. closer[c].stage = "idle" /\ writer[c].stage = "idle" /\ queue[c] = <<>>
        /\ reader[c].stage = "idle"
    BY <1>1 DEF Shape, ConnsOK, Known
  <1>8. ClosersOK'
    BY <1>1, <1>2, <1>7 DEF Shape, ClosersOK, Types
  <1>9. WritersOK'
    BY <1>1, <1>2, <1>3, <1>7 DEF Shape, WritersOK, Types
  <1>10. ConnsOK'
    BY <1>1, <1>2, <1>3, <1>7 DEF Shape, ConnsOK, Types, Known
  <1> QED
    BY <1>4, <1>6, <1>8, <1>9, <1>10 DEF Shape

LEMMA ReleaseConnShape ==
  ASSUME Shape, NEW c \in Conns, releaseIPConnection(c),
         usage' \in [IPs -> Usages \cup {Nil}]
  PROVE  Shape'
  <1>1. /\ Types /\ phase[c] = "open" /\ closer[c].stage = "done" /\ reader[c].stage = "idle"
        /\ phase' = [phase EXCEPT ![c] = "released"]
        /\ UNCHANGED <<ip, slots, queue, closed, queueMu, connUsed, global, sender, writer,
                       closer, reader>>
    BY DEF Shape, releaseIPConnection
  <1>2. Types'
    BY <1>1 DEF Types
  <1>3. SendersOK' /\ MutexOK'
    BY <1>1 DEF Shape, SendersOK, MutexOK, Types, Known
  <1>4. ClosersOK' /\ WritersOK' /\ ConnsOK'
    BY <1>1 DEF Shape, ClosersOK, WritersOK, ConnsOK, Types, Known
  <1> QED
    BY <1>2, <1>3, <1>4 DEF Shape

(* The steps of a sender that leave everybody else alone.                  *)
LEMMA SenderShape ==
  ASSUME Shape, Types', NEW t \in Senders, MutexOK', ClosersOK',
         \A u \in Senders \ {t} : sender'[u] = sender[u],
         \A c \in Conns : queueMu'[c] # queueMu[c] => queueMu[c] \in {t, Nil},
         UNCHANGED <<phase, ip, closed, writer, closer, reader>>,
         \A c \in Conns : queue'[c] # queue[c] => phase[c] \in Known,
         sender'[t].stage # "idle" =>
              /\ sender'[t].conn \in Conns /\ sender'[t].bytes \in Sizes
              /\ phase[sender'[t].conn] \in Known,
         sender'[t].stage = "reserve" => sender'[t].level \in 1 .. 3,
         sender'[t].stage = "rollback" => sender'[t].level \in 1 .. 2,
         sender'[t].stage \in Critical =>
              queueMu'[sender'[t].conn] = t /\ sender'[t].conn \notin closed
  PROVE  Shape'
  <1>1. SendersOK'
    <2> SUFFICES ASSUME NEW u \in Senders \ {t}
                 PROVE  sender[u].stage \in Critical => queueMu'[sender[u].conn] = u
      BY DEF Shape, SendersOK
    <2>1. sender[u].stage \in Critical => sender[u].conn \in Conns /\ queueMu[sender[u].conn] = u
      BY DEF Shape, SendersOK, Critical
    <2> QED
      BY <2>1, Limits
  <1>2. WritersOK'
    BY DEF Shape, WritersOK
  <1>3. ConnsOK'
    BY DEF Shape, ConnsOK, Known
  <1> QED
    BY <1>1, <1>2, <1>3 DEF Shape
----------------------------------------------------------------------------
(* Slots.                                                                  *)

Holding == {"lock", "reserve", "rollback", "abort", "enqueue"}
SendersHolding(c) == {t \in Senders : sender[t].conn = c /\ sender[t].stage \in Holding}
OthersHolding(c) ==
    (IF writer[c].stage = "slotBack" THEN {"writer"} ELSE {})
      \cup (IF closer[c].stage = "slotBack" THEN {"closer"} ELSE {})

LEMMA Holders ==
  ASSUME NEW c
  PROVE  /\ SlotHolders(c) = SendersHolding(c) \cup OthersHolding(c)
         /\ SlotHolders(c)' = (SendersHolding(c) \cup OthersHolding(c))'
  BY DEF SlotHolders, SendersHolding, OthersHolding, Holding

LEMMA HoldersFinite ==
  ASSUME NEW c
  PROVE  IsFiniteSet(SlotHolders(c)) /\ Cardinality(SlotHolders(c)) \in Nat
  <1>1. IsFiniteSet((Senders \cup {"writer"}) \cup {"closer"})
    BY Limits, FS_AddElement
  <1>2. SlotHolders(c) \subseteq (Senders \cup {"writer"}) \cup {"closer"}
    BY Holders DEF SendersHolding, OthersHolding
  <1> QED
    BY <1>1, <1>2, FS_Subset, FS_CardinalityType

(* A slot stays where it is.                                               *)
LEMMA SlotStays ==
  ASSUME Types, Types', SlotsConserved, NEW c \in Conns,
         \A d \in Conns \ {c} : /\ slots'[d] = slots[d] /\ queue'[d] = queue[d]
                                /\ SlotHolders(d)' = SlotHolders(d),
         SlotHolders(c)' = SlotHolders(c),
         slots'[c] + Len(queue'[c]) = slots[c] + Len(queue[c])
  PROVE  SlotsConserved'
  <1> DEFINE H == SlotHolders(c)
             J == SlotHolders(c)'
  <1>1. IsFiniteSet(H) /\ Cardinality(H) \in Nat
    BY HoldersFinite
  <1>2. /\ slots[c] + Len(queue[c]) + Cardinality(H) = QueueCapacity
        /\ slots[c] \in Nat /\ Len(queue[c]) \in Nat
        /\ slots'[c] \in Nat /\ Len(queue'[c]) \in Nat
    BY DEF SlotsConserved, Types
  <1>3. Cardinality(J) = Cardinality(H)
    OBVIOUS
  <1>4. slots'[c] + Len(queue'[c]) + Cardinality(J) = QueueCapacity
    <2> HIDE DEF H, J
    <2>1. PICK f, q, h, g, r \in Nat : /\ f = slots[c] /\ q = Len(queue[c]) /\ h = Cardinality(H)
                                       /\ g = slots'[c] /\ r = Len(queue'[c])
      BY <1>1, <1>2
    <2>2. f + q + h = QueueCapacity /\ g + r = f + q /\ Cardinality(J) = h
      BY <1>2, <1>3, <2>1
    <2>3. g + r + (h) = QueueCapacity
      BY ONLY <2>2, f \in Nat, q \in Nat, h \in Nat, g \in Nat, r \in Nat
    <2> QED
      BY ONLY <2>1, <2>2, <2>3
  <1>5. \A d \in Conns \ {c} :
          slots[d] + Len(queue[d]) + Cardinality(SlotHolders(d)) = QueueCapacity
    BY DEF SlotsConserved
  <1>6. \A d \in Conns \ {c} :
          slots'[d] + Len(queue'[d]) + Cardinality(SlotHolders(d)') = QueueCapacity
    BY <1>5
  <1> QED
    BY <1>4, <1>6 DEF SlotsConserved

(* x takes a slot, from the channel or with a frame from the queue.        *)
LEMMA SlotTaken ==
  ASSUME Types, Types', SlotsConserved, NEW c \in Conns, NEW x,
         \A d \in Conns \ {c} : /\ slots'[d] = slots[d] /\ queue'[d] = queue[d]
                                /\ SlotHolders(d)' = SlotHolders(d),
         x \notin SlotHolders(c), SlotHolders(c)' = SlotHolders(c) \cup {x},
         slots'[c] + Len(queue'[c]) + 1 = slots[c] + Len(queue[c])
  PROVE  SlotsConserved'
  <1> DEFINE H == SlotHolders(c)
             J == SlotHolders(c)'
  <1>1. IsFiniteSet(H) /\ Cardinality(H) \in Nat
    BY HoldersFinite
  <1>2. /\ slots[c] + Len(queue[c]) + Cardinality(H) = QueueCapacity
        /\ slots[c] \in Nat /\ Len(queue[c]) \in Nat
        /\ slots'[c] \in Nat /\ Len(queue'[c]) \in Nat
        /\ slots'[c] + Len(queue'[c]) + 1 = slots[c] + Len(queue[c])
    BY DEF SlotsConserved, Types
  <1>3. Cardinality(J) = Cardinality(H) + 1
    <2>1. x \notin H /\ J = H \cup {x}
      OBVIOUS
    <2> HIDE DEF H, J
    <2> QED
      BY <1>1, <2>1, FS_AddElement
  <1>4. slots'[c] + Len(queue'[c]) + Cardinality(J) = QueueCapacity
    <2> HIDE DEF H, J
    <2>1. PICK f, q, h, g, r \in Nat : /\ f = slots[c] /\ q = Len(queue[c]) /\ h = Cardinality(H)
                                       /\ g = slots'[c] /\ r = Len(queue'[c])
      BY <1>1, <1>2
    <2>2. f + q + h = QueueCapacity /\ g + r + 1 = f + q /\ Cardinality(J) = h + 1
      BY <1>2, <1>3, <2>1
    <2>3. g + r + (h + 1) = QueueCapacity
      BY ONLY <2>2, f \in Nat, q \in Nat, h \in Nat, g \in Nat, r \in Nat
    <2> QED
      BY ONLY <2>1, <2>2, <2>3
  <1>5. \A d \in Conns \ {c} :
          slots[d] + Len(queue[d]) + Cardinality(SlotHolders(d)) = QueueCapacity
    BY DEF SlotsConserved
  <1>6. \A d \in Conns \ {c} :
          slots'[d] + Len(queue'[d]) + Cardinality(SlotHolders(d)') = QueueCapacity
    BY <1>5
  <1> QED
    BY <1>4, <1>6 DEF SlotsConserved

(* x gives its slot back, or to the frame it enqueues.                     *)
LEMMA SlotGiven ==
  ASSUME Types, Types', SlotsConserved, NEW c \in Conns, NEW x,
         \A d \in Conns \ {c} : /\ slots'[d] = slots[d] /\ queue'[d] = queue[d]
                                /\ SlotHolders(d)' = SlotHolders(d),
         x \in SlotHolders(c), SlotHolders(c)' = SlotHolders(c) \ {x},
         slots'[c] + Len(queue'[c]) = slots[c] + Len(queue[c]) + 1
  PROVE  SlotsConserved'
  <1> DEFINE H == SlotHolders(c)
             J == SlotHolders(c)'
  <1>1. IsFiniteSet(H) /\ Cardinality(H) \in Nat
    BY HoldersFinite
  <1>2. /\ slots[c] + Len(queue[c]) + Cardinality(H) = QueueCapacity
        /\ slots[c] \in Nat /\ Len(queue[c]) \in Nat
        /\ slots'[c] \in Nat /\ Len(queue'[c]) \in Nat
    BY DEF SlotsConserved, Types
  <1>3. Cardinality(J) = Cardinality(H) - 1
    <2>1. x \in H /\ J = H \ {x}
      OBVIOUS
    <2> HIDE DEF H, J
    <2> QED
      BY <1>1, <2>1, FS_RemoveElement
  <1>4. slots'[c] + Len(queue'[c]) + Cardinality(J) = QueueCapacity
    <2> HIDE DEF H, J
    <2>1. PICK f, q, h, g, r \in Nat : /\ f = slots[c] /\ q = Len(queue[c]) /\ h = Cardinality(H)
                                       /\ g = slots'[c] /\ r = Len(queue'[c])
      BY <1>1, <1>2
    <2>2. f + q + h = QueueCapacity /\ g + r = f + q + 1 /\ Cardinality(J) = h - 1
      BY <1>2, <1>3, <2>1
    <2>3. g + r + (h - 1) = QueueCapacity
      BY ONLY <2>2, f \in Nat, q \in Nat, h \in Nat, g \in Nat, r \in Nat
    <2> QED
      BY ONLY <2>1, <2>2, <2>3
  <1>5. \A d \in Conns \ {c} :
          slots[d] + Len(queue[d]) + Cardinality(SlotHolders(d)) = QueueCapacity
    BY DEF SlotsConserved
  <1>6. \A d \in Conns \ {c} :
          slots'[d] + Len(queue'[d]) + Cardinality(SlotHolders(d)') = QueueCapacity
    BY <1>5
  <1> QED
    BY <1>4, <1>6 DEF SlotsConserved
----------------------------------------------------------------------------
(* Charges.                                                                *)

LEMMA QueueSum ==
  ASSUME NEW q \in Seq(Sizes)
  PROVE  q \in Seq(Nat) /\ Sum(q) \in Nat
  <1>1. q \in Seq(Nat)
    BY Limits
  <1>2. q \in [1 .. Len(q) -> Nat] /\ Len(q) \in Nat
    BY <1>1
  <1>3. IsFiniteSet(1 .. Len(q))
    BY <1>2, FS_Interval
  <1> QED
    BY <1>1, <1>2, <1>3, AreaFinite

LEMMA ChargeNat ==
  ASSUME Types, NEW level \in Levels, NEW c \in Conns
  PROVE  /\ Charge(level, c) \in Nat /\ Sum(queue[c]) \in Nat
         /\ Returning(level, writer[c]) \in Nat /\ Returning(level, closer[c]) \in Nat
         /\ Sending(level, c) \in Nat
  <1>1. Sum(queue[c]) \in Nat
    BY QueueSum DEF Types
  <1>2. Returning(level, writer[c]) \in Nat /\ Returning(level, closer[c]) \in Nat
    BY DEF Types, Returning, States
  <1>3. Sending(level, c) \in Nat
    BY DEF Types, Sending, Reserved, SenderStates
  <1> QED
    BY <1>1, <1>2, <1>3 DEF Charge

(* The same of the next state.                                             *)
LEMMA ChargeNatNext ==
  ASSUME Types', NEW level \in Levels, NEW c \in Conns
  PROVE  Charge(level, c)' \in Nat
  <1>1. Sum(queue'[c]) \in Nat
    BY QueueSum DEF Types
  <1>2. Returning(level, writer'[c]) \in Nat /\ Returning(level, closer'[c]) \in Nat
    BY DEF Types, Returning, States
  <1>3. Sending(level, c)' \in Nat
    BY DEF Types, Sending, Reserved, SenderStates
  <1> QED
    BY <1>1, <1>2, <1>3 DEF Charge

LEMMA SumsTyped ==
  ASSUME Types, NEW a
  PROVE  /\ OutboundOf(a) \in [Conns -> Nat] /\ OpenOf(a) \in [Conns -> Nat]
         /\ ReadOf(a) \in [Conns -> Nat] /\ Outbound \in [Conns -> Nat]
         /\ ReadAll \in [Conns -> Nat]
  <1>1. 2 \in Levels /\ 3 \in Levels
    BY DEF Levels
  <1>2. OutboundOf(a) \in [Conns -> Nat] /\ Outbound \in [Conns -> Nat]
    BY <1>1, ChargeNat DEF OutboundOf, Outbound
  <1> QED
    BY <1>2, Limits DEF OpenOf, ReadOf, ReadAll

LEMMA SumsTypedNext ==
  ASSUME Types', NEW a
  PROVE  /\ OutboundOf(a)' \in [Conns -> Nat] /\ OpenOf(a)' \in [Conns -> Nat]
         /\ ReadOf(a)' \in [Conns -> Nat] /\ Outbound' \in [Conns -> Nat]
         /\ ReadAll' \in [Conns -> Nat]
  <1>1. 2 \in Levels /\ 3 \in Levels
    BY DEF Levels
  <1>2. OutboundOf(a)' \in [Conns -> Nat] /\ Outbound' \in [Conns -> Nat]
    BY <1>1, ChargeNatNext DEF OutboundOf, Outbound
  <1> QED
    BY <1>2, Limits DEF OpenOf, ReadOf, ReadAll
----------------------------------------------------------------------------
(* Budgets.                                                                *)

BudgetTypes ==
    /\ connUsed \in [Conns -> Int] /\ usage \in [IPs -> Usages \cup {Nil}]
    /\ global \in [outbound : Int, read : Int]

(* Every sum is a number and at least each of its parts.                   *)
LEMMA SumFacts ==
  ASSUME Types, NEW a
  PROVE  /\ Sum(OutboundOf(a)) \in Nat /\ Sum(OpenOf(a)) \in Nat /\ Sum(ReadOf(a)) \in Nat
         /\ Sum(Outbound) \in Nat /\ Sum(ReadAll) \in Nat
         /\ \A c \in Conns : /\ OutboundOf(a)[c] <= Sum(OutboundOf(a))
                             /\ OpenOf(a)[c] <= Sum(OpenOf(a))
                             /\ ReadOf(a)[c] <= Sum(ReadOf(a))
                             /\ Outbound[c] <= Sum(Outbound)
                             /\ ReadAll[c] <= Sum(ReadAll)
  BY Limits, SumsTyped, AreaFinite, SumBounds

(* The same of the next state.                                             *)
LEMMA SumFactsNext ==
  ASSUME Types', NEW a
  PROVE  Sum(OutboundOf(a))' \in Nat /\ Sum(Outbound)' \in Nat
  <1> DEFINE f == OutboundOf(a)'
             g == Outbound'
  <1>1. f \in [Conns -> Nat] /\ g \in [Conns -> Nat]
    BY SumsTypedNext
  <1>2. Sum(OutboundOf(a))' = Sum(f) /\ Sum(Outbound)' = Sum(g)
    BY DEF Sum, Area, Column
  <1> HIDE DEF f, g
  <1> QED
    BY <1>1, <1>2, AreaFinite, Limits

(* Settling an entry that counts nothing is the entry that counts nothing. *)
LEMMA Settled ==
  ASSUME NEW u \in Usages, u.connections \in Nat, u.outbound \in Nat, u.read \in Nat
  PROVE  /\ Settle(u) \in Usages \cup {Nil}
         /\ Settle(u) # Nil =>
              Settle(u) = u /\ u.connections + u.outbound + u.read > 0
         /\ Settle(u) = Nil => u.connections = 0 /\ u.outbound = 0 /\ u.read = 0
  BY Limits DEF Settle

LEMMA FreshFields ==
  FreshUsage \in Usages /\ FreshUsage.connections = 0 /\ FreshUsage.outbound = 0 /\ FreshUsage.read = 0
  BY DEF FreshUsage, Usages

(* The counters of an entry, present or not, are natural numbers.          *)
LEMMA UsageFields ==
  ASSUME Types, Budgets, NEW a \in IPs
  PROVE  /\ UsageOf(a) \in Usages
         /\ UsageOf(a).connections \in Nat /\ UsageOf(a).outbound \in Nat
         /\ UsageOf(a).read \in Nat
  <1>1. UsageOf(a) \in Usages
    BY FreshFields DEF Types, UsageOf
  <1> QED
    BY <1>1, SumFacts DEF Budgets, OutboundBudget, OpenBudget, ReadBudget

(* Nothing a budget counts changes.                                        *)
LEMMA BudgetsFrame ==
  ASSUME Budgets, UNCHANGED <<ip, phase, reader, connUsed, usage, global>>,
         \A level \in Levels, d \in Conns : Charge(level, d)' = Charge(level, d)
  PROVE  Budgets'
  <1>1. 1 \in Levels /\ 2 \in Levels /\ 3 \in Levels
    BY DEF Levels
  <1>2. /\ \A a : OutboundOf(a)' = OutboundOf(a) /\ OpenOf(a)' = OpenOf(a) /\ ReadOf(a)' = ReadOf(a)
        /\ Outbound' = Outbound /\ ReadAll' = ReadAll
    BY <1>1 DEF OutboundOf, OpenOf, ReadOf, Outbound, ReadAll
  <1>3. ConnBudget'
    BY <1>1 DEF Budgets, ConnBudget
  <1>4. OutboundBudget' /\ OpenBudget' /\ ReadBudget'
    BY <1>2 DEF Budgets, OutboundBudget, OpenBudget, ReadBudget, UsageOf
  <1>5. GlobalBudget' /\ GlobalReadBudget' /\ EntriesUsed'
    BY <1>2 DEF Budgets, GlobalBudget, GlobalReadBudget, EntriesUsed
  <1> QED
    BY <1>3, <1>4, <1>5 DEF Budgets

(* The sums move with the charge of one connection.                        *)
LEMMA OutboundMoves ==
  ASSUME Types, Types', UNCHANGED ip, NEW c \in Conns,
         \A d \in Conns \ {c} : Charge(2, d)' = Charge(2, d), NEW a
  PROVE  /\ ip[c] # a => Sum(OutboundOf(a))' = Sum(OutboundOf(a))
         /\ ip[c] = a => Sum(OutboundOf(a))' - Charge(2, c)' = Sum(OutboundOf(a)) - Charge(2, c)
  <1> DEFINE f == OutboundOf(a)
             g == OutboundOf(a)'
  <1>1. f \in [Conns -> Nat] /\ g \in [Conns -> Nat]
    BY SumsTyped, SumsTypedNext
  <1>2. \A d \in Conns \ {c} : g[d] = f[d]
    BY DEF OutboundOf
  <1>3. ip[c] = a => f[c] = Charge(2, c) /\ g[c] = Charge(2, c)'
    BY DEF OutboundOf
  <1>4. ip[c] # a => f[c] = 0 /\ g[c] = 0
    BY DEF OutboundOf
  <1>5. Sum(OutboundOf(a))' = Sum(g)
    BY DEF Sum, Area, Column
  <1> HIDE DEF f, g
  <1>6. Sum(f) \in Nat /\ Sum(g) \in Nat /\ Sum(g) - g[c] = Sum(f) - f[c]
    BY <1>1, <1>2, Limits, SumUpdate
  <1> QED
    BY <1>3, <1>4, <1>5, <1>6 DEF f

LEMMA GlobalMoves ==
  ASSUME Types, Types', NEW c \in Conns,
         \A d \in Conns \ {c} : Charge(3, d)' = Charge(3, d)
  PROVE  Sum(Outbound)' - Charge(3, c)' = Sum(Outbound) - Charge(3, c)
  <1> DEFINE f == Outbound
             g == Outbound'
  <1>1. f \in [Conns -> Nat] /\ g \in [Conns -> Nat]
    BY SumsTyped, SumsTypedNext
  <1>2. \A d \in Conns \ {c} : g[d] = f[d]
    BY DEF Outbound
  <1>3. f[c] = Charge(3, c) /\ g[c] = Charge(3, c)'
    BY DEF Outbound
  <1>4. Sum(Outbound)' = Sum(g)
    BY DEF Sum, Area, Column
  <1> HIDE DEF f, g
  <1>5. Sum(f) \in Nat /\ Sum(g) \in Nat /\ Sum(g) - g[c] = Sum(f) - f[c]
    BY <1>1, <1>2, Limits, SumUpdate
  <1> QED
    BY <1>3, <1>4, <1>5 DEF f

(* Budgets the outbound bytes do not touch.                                *)
LEMMA OtherBudgets ==
  ASSUME Budgets, UNCHANGED <<ip, phase, reader>>, global'.read = global.read,
         \A a \in IPs : /\ UsageOf(a)'.connections = UsageOf(a).connections
                        /\ UsageOf(a)'.read = UsageOf(a).read
  PROVE  OpenBudget' /\ ReadBudget' /\ GlobalReadBudget'
  <1>1. (\A a : OpenOf(a)' = OpenOf(a) /\ ReadOf(a)' = ReadOf(a)) /\ ReadAll' = ReadAll
    BY DEF OpenOf, ReadOf, ReadAll
  <1> QED
    BY <1>1 DEF Budgets, OpenBudget, ReadBudget, GlobalReadBudget

LEMMA ConnMoves ==
  ASSUME Types, Types', Budgets, NEW c \in Conns, 1 \in Levels,
         \A d \in Conns \ {c} : Charge(1, d)' = Charge(1, d) /\ connUsed'[d] = connUsed[d],
         connUsed'[c] - Charge(1, c)' = connUsed[c] - Charge(1, c), connUsed'[c] <= ConnLimit
  PROVE  ConnBudget'
  <1>1. connUsed'[c] = Charge(1, c)'
    <2>1. Charge(1, c) \in Nat /\ Charge(1, c)' \in Nat /\ connUsed'[c] \in Int
          /\ connUsed[c] = Charge(1, c)
      BY ChargeNat, ChargeNatNext DEF Types, Budgets, ConnBudget
    <2> QED
      BY <2>1
  <1> QED
    BY <1>1 DEF Budgets, ConnBudget

(* No counter at all is touched, or only the connection's.                 *)
LEMMA IPsUntouched ==
  ASSUME Budgets, UNCHANGED <<ip, usage>>,
         \A d \in Conns : Charge(2, d)' = Charge(2, d)
  PROVE  OutboundBudget' /\ EntriesUsed'
         /\ \A a \in IPs : /\ UsageOf(a)'.connections = UsageOf(a).connections
                           /\ UsageOf(a)'.read = UsageOf(a).read
  <1>1. \A a : OutboundOf(a)' = OutboundOf(a)
    BY DEF OutboundOf
  <1> QED
    BY <1>1 DEF Budgets, OutboundBudget, EntriesUsed, UsageOf

LEMMA GlobalUntouched ==
  ASSUME Budgets, UNCHANGED global, \A d \in Conns : Charge(3, d)' = Charge(3, d)
  PROVE  GlobalBudget'
  <1>1. Outbound' = Outbound
    BY DEF Outbound
  <1> QED
    BY <1>1 DEF Budgets, GlobalBudget

LEMMA GlobalTouched ==
  ASSUME Types, Types', Budgets, NEW c \in Conns, 3 \in Levels,
         \A d \in Conns \ {c} : Charge(3, d)' = Charge(3, d),
         global'.outbound - Charge(3, c)' = global.outbound - Charge(3, c),
         global'.outbound <= GlobalLimit
  PROVE  GlobalBudget'
  <1>1. /\ Charge(3, c) \in Nat /\ Charge(3, c)' \in Nat
        /\ global.outbound \in Int /\ global'.outbound \in Int
    BY ChargeNat, ChargeNatNext DEF Types
  <1>2. Sum(Outbound)' - Charge(3, c)' = Sum(Outbound) - Charge(3, c)
    BY GlobalMoves
  <1>3. Sum(Outbound) \in Nat /\ Sum(Outbound)' \in Nat
    BY SumFacts, SumFactsNext
  <1>4. global.outbound = Sum(Outbound)
    BY DEF Budgets, GlobalBudget
  <1>5. global'.outbound = Sum(Outbound)'
    BY <1>1, <1>2, <1>3, <1>4
  <1> QED
    BY <1>5 DEF GlobalBudget

(* The entry of the connection's source IP moves with its charge.          *)
LEMMA IPTouched ==
  ASSUME Types, Types', Budgets, UNCHANGED ip, NEW c \in Conns, 2 \in Levels, ip[c] \in IPs,
         \A d \in Conns \ {c} : Charge(2, d)' = Charge(2, d),
         \A a \in IPs \ {ip[c]} : usage'[a] = usage[a],
         UsageOf(ip[c])'.outbound \in Int,
         UsageOf(ip[c])'.outbound - Charge(2, c)' = UsageOf(ip[c]).outbound - Charge(2, c),
         UsageOf(ip[c])'.outbound <= IPLimit
  PROVE  OutboundBudget'
  <1> SUFFICES ASSUME NEW a \in IPs
               PROVE  UsageOf(a)'.outbound = Sum(OutboundOf(a))' /\ UsageOf(a)'.outbound <= IPLimit
    BY DEF OutboundBudget
  <1>1. /\ ip[c] # a => Sum(OutboundOf(a))' = Sum(OutboundOf(a))
        /\ ip[c] = a => Sum(OutboundOf(a))' - Charge(2, c)' = Sum(OutboundOf(a)) - Charge(2, c)
    BY OutboundMoves
  <1>2. UsageOf(a).outbound = Sum(OutboundOf(a)) /\ UsageOf(a).outbound <= IPLimit
    BY DEF Budgets, OutboundBudget
  <1>3. CASE ip[c] # a
    BY <1>1, <1>2, <1>3 DEF UsageOf
  <1>4. CASE ip[c] = a
    <2>1. Charge(2, c) \in Nat /\ Charge(2, c)' \in Nat
      BY ChargeNat, ChargeNatNext
    <2>2. Sum(OutboundOf(a)) \in Nat /\ Sum(OutboundOf(a))' \in Nat
      BY SumFacts, SumFactsNext
    <2> QED
      BY <1>1, <1>2, <1>4, <2>1, <2>2
  <1> QED
    BY <1>3, <1>4

(* What a reservation of b bytes of connection c at one level does.        *)
LEMMA ReserveEffect ==
  ASSUME Types, Budgets, NEW c \in Conns, ip[c] \in IPs, NEW level \in Levels, NEW b \in Nat,
         TryReserve(c, level, b)
  PROVE  /\ BudgetTypes'
         /\ level = 1 => /\ connUsed' = [connUsed EXCEPT ![c] = @ + b] /\ UNCHANGED <<usage, global>>
                         /\ b <= ConnLimit - connUsed[c]
         /\ level = 2 => /\ UNCHANGED <<connUsed, global>>
                         /\ \A a \in IPs \ {ip[c]} : usage'[a] = usage[a]
                         /\ usage[ip[c]] \in Usages /\ usage'[ip[c]] \in Usages
                         /\ usage'[ip[c]].connections = usage[ip[c]].connections
                         /\ usage'[ip[c]].read = usage[ip[c]].read
                         /\ usage'[ip[c]].outbound = usage[ip[c]].outbound + b
                         /\ b <= IPLimit - usage[ip[c]].outbound
         /\ level = 3 => /\ UNCHANGED <<connUsed, usage>> /\ global'.read = global.read
                         /\ global'.outbound = global.outbound + b
                         /\ b <= GlobalLimit - global.outbound
  <1>1. CASE level = 1
    BY <1>1 DEF TryReserve, Fits, BudgetTypes, Types
  <1>2. CASE level = 2
    <2>1. /\ UNCHANGED <<connUsed, global>> /\ usage[ip[c]] # Nil
          /\ usage' = [usage EXCEPT ![ip[c]].outbound = @ + b]
          /\ b <= IPLimit - usage[ip[c]].outbound
      BY <1>2 DEF TryReserve, Fits
    <2>2. usage[ip[c]] \in Usages
      BY <2>1 DEF Types
    <2>3. /\ usage'[ip[c]] \in Usages
          /\ usage'[ip[c]].connections = usage[ip[c]].connections
          /\ usage'[ip[c]].read = usage[ip[c]].read
          /\ usage'[ip[c]].outbound = usage[ip[c]].outbound + b
          /\ \A a \in IPs \ {ip[c]} : usage'[a] = usage[a]
      <3> DEFINE v == [usage[ip[c]] EXCEPT !.outbound = usage[ip[c]].outbound + b]
      <3>1. usage' = [usage EXCEPT ![ip[c]] = v]
        BY <2>1
      <3>2. /\ v \in Usages /\ v.connections = usage[ip[c]].connections
            /\ v.read = usage[ip[c]].read /\ v.outbound = usage[ip[c]].outbound + b
        BY <2>2 DEF Usages
      <3> HIDE DEF v
      <3>3. usage'[ip[c]] = v /\ \A a \in IPs \ {ip[c]} : usage'[a] = usage[a]
        BY <3>1 DEF Types
      <3> QED
        BY <3>2, <3>3
    <2>4. usage' \in [IPs -> Usages \cup {Nil}]
      BY <2>1, <2>3 DEF Types
    <2> QED
      BY <1>2, <2>1, <2>2, <2>3, <2>4 DEF BudgetTypes, Types
  <1>3. CASE level = 3
    <2>1. /\ UNCHANGED <<connUsed, usage>> /\ global' = [global EXCEPT !.outbound = @ + b]
          /\ b <= GlobalLimit - global.outbound
      BY <1>3 DEF TryReserve, Fits
    <2>2. global \in [outbound : Int, read : Int]
      BY DEF Types
    <2>3. /\ global' \in [outbound : Int, read : Int] /\ global'.read = global.read
          /\ global'.outbound = global.outbound + b
      BY <2>1, <2>2
    <2> QED
      BY <1>3, <2>1, <2>3 DEF BudgetTypes, Types
  <1> QED
    BY <1>1, <1>2, <1>3 DEF Levels

LEMMA ReserveBudgets ==
  ASSUME Types, Types', Budgets, UNCHANGED <<ip, phase, reader>>,
         NEW c \in Conns, ip[c] \in IPs, NEW level \in Levels, NEW b \in Nat,
         TryReserve(c, level, b),
         \A l \in Levels, d \in Conns :
             Charge(l, d)' = IF l = level /\ d = c THEN Charge(l, d) + b ELSE Charge(l, d)
  PROVE  Budgets'
  <1>1. 1 \in Levels /\ 2 \in Levels /\ 3 \in Levels
    BY DEF Levels
  <1>2. \A l \in Levels, d \in Conns : Charge(l, d) \in Nat /\ Charge(l, d)' \in Nat
    BY ChargeNat, ChargeNatNext
  <1>3. CASE level = 1
    <2>1. /\ connUsed' = [connUsed EXCEPT ![c] = @ + b] /\ UNCHANGED <<usage, global>>
          /\ b <= ConnLimit - connUsed[c]
      BY <1>3, ReserveEffect
    <2>2. connUsed[c] \in Int /\ connUsed'[c] = connUsed[c] + b /\ connUsed'[c] <= ConnLimit
          /\ \A d \in Conns \ {c} : connUsed'[d] = connUsed[d]
      BY <2>1, Limits DEF Types
    <2>3. connUsed'[c] - Charge(1, c)' = connUsed[c] - Charge(1, c)
      BY <1>1, <1>2, <1>3, <2>2
    <2>4. ConnBudget'
      BY <1>1, <1>3, <2>2, <2>3, ConnMoves
    <2>5. \A d \in Conns : Charge(2, d)' = Charge(2, d) /\ Charge(3, d)' = Charge(3, d)
      BY <1>1, <1>3
    <2>6. OutboundBudget' /\ EntriesUsed' /\ OpenBudget' /\ ReadBudget' /\ GlobalReadBudget'
      BY <2>1, <2>5, IPsUntouched, OtherBudgets
    <2>7. GlobalBudget'
      BY <2>1, <2>5, GlobalUntouched
    <2> QED
      BY <2>4, <2>6, <2>7 DEF Budgets
  <1>4. CASE level = 2
    <2>1. /\ UNCHANGED <<connUsed, global>> /\ \A a \in IPs \ {ip[c]} : usage'[a] = usage[a]
          /\ usage[ip[c]] \in Usages /\ usage'[ip[c]] \in Usages
          /\ usage'[ip[c]].connections = usage[ip[c]].connections
          /\ usage'[ip[c]].read = usage[ip[c]].read
          /\ usage'[ip[c]].outbound = usage[ip[c]].outbound + b
          /\ b <= IPLimit - usage[ip[c]].outbound
      BY <1>4, ReserveEffect
    <2>2. usage[ip[c]] # Nil /\ usage'[ip[c]] # Nil /\ usage[ip[c]].outbound \in Int
          /\ UsageOf(ip[c]) = usage[ip[c]] /\ UsageOf(ip[c])' = usage'[ip[c]]
      BY <2>1, Limits DEF UsageOf, Usages
    <2>3. \A d \in Conns : Charge(1, d)' = Charge(1, d) /\ Charge(3, d)' = Charge(3, d)
      BY <1>1, <1>4
    <2>4. ConnBudget'
      BY <2>1, <2>3 DEF Budgets, ConnBudget
    <2>5. GlobalBudget'
      BY <2>1, <2>3, GlobalUntouched
    <2>6. \A a \in IPs : /\ UsageOf(a)'.connections = UsageOf(a).connections
                         /\ UsageOf(a)'.read = UsageOf(a).read
      BY <2>1, <2>2 DEF UsageOf
    <2>7. OpenBudget' /\ ReadBudget' /\ GlobalReadBudget'
      BY <2>1, <2>6, OtherBudgets
    <2>8. Charge(2, c)' = Charge(2, c) + b /\ \A d \in Conns \ {c} : Charge(2, d)' = Charge(2, d)
      BY <1>1, <1>4
    <2>9. /\ UsageOf(ip[c])'.outbound \in Int /\ UsageOf(ip[c])'.outbound <= IPLimit
          /\ UsageOf(ip[c])'.outbound - Charge(2, c)' = UsageOf(ip[c]).outbound - Charge(2, c)
      BY <1>1, <1>2, <2>1, <2>2, <2>8, Limits
    <2>10. OutboundBudget'
      BY <1>1, <2>1, <2>8, <2>9, IPTouched
    <2>11. EntriesUsed'
      <3> SUFFICES ASSUME NEW a \in IPs, usage'[a] # Nil
                   PROVE  usage'[a].connections + usage'[a].outbound + usage'[a].read > 0
        BY DEF EntriesUsed
      <3>1. CASE a # ip[c]
        BY <2>1, <3>1 DEF Budgets, EntriesUsed
      <3>2. CASE a = ip[c]
        <4>1. usage[a].connections + usage[a].outbound + usage[a].read > 0
          BY <2>2, <3>2 DEF Budgets, EntriesUsed
        <4>2. usage[a].connections \in Int /\ usage[a].outbound \in Int /\ usage[a].read \in Int
          BY <2>1, <3>2 DEF Usages
        <4> QED
          BY <2>1, <3>2, <4>1, <4>2
      <3> QED
        BY <3>1, <3>2
    <2> QED
      BY <2>4, <2>5, <2>7, <2>10, <2>11 DEF Budgets
  <1>5. CASE level = 3
    <2>1. /\ UNCHANGED <<connUsed, usage>> /\ global'.read = global.read
          /\ global'.outbound = global.outbound + b /\ b <= GlobalLimit - global.outbound
      BY <1>5, ReserveEffect
    <2>2. \A d \in Conns : Charge(1, d)' = Charge(1, d) /\ Charge(2, d)' = Charge(2, d)
      BY <1>1, <1>5
    <2>3. ConnBudget'
      BY <2>1, <2>2 DEF Budgets, ConnBudget
    <2>4. OutboundBudget' /\ EntriesUsed' /\ OpenBudget' /\ ReadBudget' /\ GlobalReadBudget'
      BY <2>1, <2>2, IPsUntouched, OtherBudgets
    <2>5. Charge(3, c)' = Charge(3, c) + b /\ \A d \in Conns \ {c} : Charge(3, d)' = Charge(3, d)
      BY <1>1, <1>5
    <2>6. /\ global.outbound \in Int /\ global'.outbound <= GlobalLimit
          /\ global'.outbound - Charge(3, c)' = global.outbound - Charge(3, c)
      <3>1. global.outbound \in Int
        BY DEF Types
      <3> QED
        BY <1>1, <1>2, <2>1, <2>5, <3>1, Limits
    <2>7. GlobalBudget'
      BY <1>1, <2>5, <2>6, GlobalTouched
    <2> QED
      BY <2>3, <2>4, <2>7 DEF Budgets
  <1> QED
    BY <1>3, <1>4, <1>5 DEF Levels

(* A release of bytes that are charged does not panic.                     *)
LEMMA NoPanicAt ==
  ASSUME Types, Budgets, NEW c \in Conns, ip[c] \in IPs, NEW level \in Levels, NEW b \in Nat,
         b > 0, b <= Charge(level, c)
  PROVE  ~WouldPanic(c, level, b)
  <1>1. Charge(level, c) \in Nat
    BY ChargeNat
  <1>2. CASE level = 1
    BY <1>1, <1>2 DEF WouldPanic, Budgets, ConnBudget
  <1>3. CASE level = 2
    <2>1. OutboundOf(ip[c])[c] = Charge(2, c)
      BY DEF OutboundOf
    <2>2. Charge(2, c) <= Sum(OutboundOf(ip[c])) /\ Sum(OutboundOf(ip[c])) \in Nat
      BY <2>1, SumFacts
    <2>3. UsageOf(ip[c]).outbound = Sum(OutboundOf(ip[c]))
      BY DEF Budgets, OutboundBudget
    <2>4. b <= UsageOf(ip[c]).outbound /\ UsageOf(ip[c]).outbound \in Nat
      BY <1>1, <1>3, <2>2, <2>3
    <2>5. usage[ip[c]] # Nil
      BY <2>4, FreshFields DEF UsageOf
    <2>6. UsageOf(ip[c]) = usage[ip[c]]
      BY <2>5 DEF UsageOf
    <2> QED
      BY <1>3, <2>4, <2>5, <2>6 DEF WouldPanic
  <1>4. CASE level = 3
    <2>1. Outbound[c] = Charge(3, c)
      BY DEF Outbound
    <2>2. Charge(3, c) <= Sum(Outbound) /\ Sum(Outbound) \in Nat
      BY <2>1, SumFacts
    <2>3. global.outbound = Sum(Outbound)
      BY DEF Budgets, GlobalBudget
    <2> QED
      BY <1>1, <1>4, <2>2, <2>3 DEF WouldPanic
  <1> QED
    BY <1>2, <1>3, <1>4 DEF Levels

LEMMA ReleaseEffect ==
  ASSUME Types, Budgets, NEW c \in Conns, ip[c] \in IPs, NEW level \in Levels, NEW b \in Nat,
         b > 0, b <= Charge(level, c), Release(c, level, b), UNCHANGED ip
  PROVE  /\ BudgetTypes'
         /\ level = 1 => connUsed' = [connUsed EXCEPT ![c] = @ - b] /\ UNCHANGED <<usage, global>>
         /\ level = 2 => /\ UNCHANGED <<connUsed, global>>
                         /\ \A a \in IPs \ {ip[c]} : usage'[a] = usage[a]
                         /\ UsageOf(ip[c])'.connections = UsageOf(ip[c]).connections
                         /\ UsageOf(ip[c])'.read = UsageOf(ip[c]).read
                         /\ UsageOf(ip[c])'.outbound = UsageOf(ip[c]).outbound - b
                         /\ usage'[ip[c]] # Nil => usage'[ip[c]].connections
                               + usage'[ip[c]].outbound + usage'[ip[c]].read > 0
         /\ level = 3 => /\ UNCHANGED <<connUsed, usage>> /\ global'.read = global.read
                         /\ global'.outbound = global.outbound - b
  <1>1. CASE level = 1
    BY <1>1 DEF Release, BudgetTypes, Types
  <1>2. CASE level = 2
    <2> DEFINE v == Less(usage[ip[c]], 0, b, 0)
    <2>1. UNCHANGED <<connUsed, global>> /\ usage' = [usage EXCEPT ![ip[c]] = Settle(v)]
      BY <1>2 DEF Release
    <2>2. usage[ip[c]] # Nil /\ ~(b > usage[ip[c]].outbound)
      <3>1. ~WouldPanic(c, 2, b)
        BY <1>2, NoPanicAt
      <3> QED
        BY <3>1 DEF WouldPanic
    <2>3. usage[ip[c]] \in Usages /\ UsageOf(ip[c]) = usage[ip[c]]
      BY <2>2 DEF Types, UsageOf
    <2>4. /\ usage[ip[c]].connections \in Nat /\ usage[ip[c]].outbound \in Nat
          /\ usage[ip[c]].read \in Nat
      BY <2>3, UsageFields
    <2>5. /\ v \in Usages /\ v.connections = usage[ip[c]].connections
          /\ v.read = usage[ip[c]].read /\ v.outbound = usage[ip[c]].outbound - b
      BY <2>3, <2>4 DEF Usages, Less
    <2> HIDE DEF v
    <2>6. v.outbound \in Nat
      BY <2>2, <2>4, <2>5
    <2>7. usage'[ip[c]] = Settle(v) /\ \A a \in IPs \ {ip[c]} : usage'[a] = usage[a]
      <3>1. usage \in [IPs -> Usages \cup {Nil}]
        BY DEF Types
      <3> QED
        BY ONLY <2>1, <3>1, ip[c] \in IPs
    <2>8. /\ Settle(v) \in Usages \cup {Nil}
          /\ Settle(v) # Nil => Settle(v) = v /\ v.connections + v.outbound + v.read > 0
          /\ Settle(v) = Nil => v.connections = 0 /\ v.outbound = 0 /\ v.read = 0
      BY <2>4, <2>5, <2>6, Settled
    <2>9. /\ UsageOf(ip[c])'.connections = v.connections
          /\ UsageOf(ip[c])'.read = v.read /\ UsageOf(ip[c])'.outbound = v.outbound
      <3>1. UsageOf(ip[c])' = IF Settle(v) = Nil THEN FreshUsage ELSE Settle(v)
        BY <2>7 DEF UsageOf
      <3> HIDE DEF UsageOf
      <3>2. CASE Settle(v) = Nil
        BY <2>8, <3>1, <3>2, FreshFields
      <3>3. CASE Settle(v) # Nil
        BY <2>8, <3>1, <3>3
      <3> QED
        BY <3>2, <3>3
    <2>10. usage' \in [IPs -> Usages \cup {Nil}]
      BY <2>1, <2>8 DEF Types
    <2> QED
      BY <1>2, <2>1, <2>3, <2>5, <2>7, <2>8, <2>9, <2>10 DEF BudgetTypes, Types
  <1>3. CASE level = 3
    <2>1. UNCHANGED <<connUsed, usage>> /\ global' = [global EXCEPT !.outbound = @ - b]
      BY <1>3 DEF Release
    <2>2. global \in [outbound : Int, read : Int]
      BY DEF Types
    <2>3. /\ global' \in [outbound : Int, read : Int] /\ global'.read = global.read
          /\ global'.outbound = global.outbound - b
      BY <2>1, <2>2
    <2> QED
      BY <1>3, <2>1, <2>3 DEF BudgetTypes, Types
  <1> QED
    BY <1>1, <1>2, <1>3 DEF Levels

(* Giving back bytes that are charged keeps every budget exact.            *)
LEMMA ReleaseBudgets ==
  ASSUME Types, Types', Budgets, UNCHANGED <<ip, phase, reader>>,
         NEW c \in Conns, ip[c] \in IPs, NEW level \in Levels, NEW b \in Nat,
         b > 0, b <= Charge(level, c), Release(c, level, b),
         \A l \in Levels, d \in Conns :
             Charge(l, d)' = IF l = level /\ d = c THEN Charge(l, d) - b ELSE Charge(l, d)
  PROVE  Budgets'
  <1>1. 1 \in Levels /\ 2 \in Levels /\ 3 \in Levels
    BY DEF Levels
  <1>2. \A l \in Levels, d \in Conns : Charge(l, d) \in Nat /\ Charge(l, d)' \in Nat
    BY ChargeNat, ChargeNatNext
  <1>3. CASE level = 1
    <2>1. connUsed' = [connUsed EXCEPT ![c] = @ - b] /\ UNCHANGED <<usage, global>>
      BY <1>3, ReleaseEffect
    <2>2. connUsed[c] \in Int /\ connUsed'[c] = connUsed[c] - b
          /\ \A d \in Conns \ {c} : connUsed'[d] = connUsed[d]
      BY <2>1 DEF Types
    <2>3. /\ connUsed'[c] - Charge(1, c)' = connUsed[c] - Charge(1, c)
          /\ connUsed'[c] <= ConnLimit
      <3>1. connUsed[c] <= ConnLimit
        BY DEF Budgets, ConnBudget
      <3> QED
        BY <1>1, <1>2, <1>3, <2>2, <3>1, Limits
    <2>4. ConnBudget'
      BY <1>1, <1>3, <2>2, <2>3, ConnMoves
    <2>5. \A d \in Conns : Charge(2, d)' = Charge(2, d) /\ Charge(3, d)' = Charge(3, d)
      BY <1>1, <1>3
    <2>6. OutboundBudget' /\ EntriesUsed' /\ OpenBudget' /\ ReadBudget' /\ GlobalReadBudget'
      BY <2>1, <2>5, IPsUntouched, OtherBudgets
    <2>7. GlobalBudget'
      BY <2>1, <2>5, GlobalUntouched
    <2> QED
      BY <2>4, <2>6, <2>7 DEF Budgets
  <1>4. CASE level = 2
    <2>1. /\ UNCHANGED <<connUsed, global>> /\ \A a \in IPs \ {ip[c]} : usage'[a] = usage[a]
          /\ UsageOf(ip[c])'.connections = UsageOf(ip[c]).connections
          /\ UsageOf(ip[c])'.read = UsageOf(ip[c]).read
          /\ UsageOf(ip[c])'.outbound = UsageOf(ip[c]).outbound - b
          /\ usage'[ip[c]] # Nil => usage'[ip[c]].connections
                + usage'[ip[c]].outbound + usage'[ip[c]].read > 0
      BY <1>4, ReleaseEffect
    <2>2. UsageOf(ip[c]).outbound \in Nat /\ UsageOf(ip[c]).outbound <= IPLimit
      BY UsageFields DEF Budgets, OutboundBudget
    <2>3. \A d \in Conns : Charge(1, d)' = Charge(1, d) /\ Charge(3, d)' = Charge(3, d)
      BY <1>1, <1>4
    <2>4. ConnBudget'
      BY <2>1, <2>3 DEF Budgets, ConnBudget
    <2>5. GlobalBudget'
      BY <2>1, <2>3, GlobalUntouched
    <2>6. \A a \in IPs : /\ UsageOf(a)'.connections = UsageOf(a).connections
                         /\ UsageOf(a)'.read = UsageOf(a).read
      <3> SUFFICES ASSUME NEW a \in IPs
                   PROVE  /\ UsageOf(a)'.connections = UsageOf(a).connections
                          /\ UsageOf(a)'.read = UsageOf(a).read
        OBVIOUS
      <3>1. CASE a = ip[c]
        BY <2>1, <3>1
      <3>2. CASE a # ip[c]
        BY <2>1, <3>2 DEF UsageOf
      <3> QED
        BY <3>1, <3>2
    <2>7. OpenBudget' /\ ReadBudget' /\ GlobalReadBudget'
      BY <2>1, <2>6, OtherBudgets
    <2>8. Charge(2, c)' = Charge(2, c) - b /\ \A d \in Conns \ {c} : Charge(2, d)' = Charge(2, d)
      BY <1>1, <1>4
    <2>9. /\ UsageOf(ip[c])'.outbound \in Int /\ UsageOf(ip[c])'.outbound <= IPLimit
          /\ UsageOf(ip[c])'.outbound - Charge(2, c)' = UsageOf(ip[c]).outbound - Charge(2, c)
      BY <1>1, <1>2, <2>1, <2>2, <2>8, Limits
    <2>10. OutboundBudget'
      BY <1>1, <2>1, <2>8, <2>9, IPTouched
    <2>11. EntriesUsed'
      BY <2>1 DEF Budgets, EntriesUsed
    <2> QED
      BY <2>4, <2>5, <2>7, <2>10, <2>11 DEF Budgets
  <1>5. CASE level = 3
    <2>1. /\ UNCHANGED <<connUsed, usage>> /\ global'.read = global.read
          /\ global'.outbound = global.outbound - b
      BY <1>5, ReleaseEffect
    <2>2. \A d \in Conns : Charge(1, d)' = Charge(1, d) /\ Charge(2, d)' = Charge(2, d)
      BY <1>1, <1>5
    <2>3. ConnBudget'
      BY <2>1, <2>2 DEF Budgets, ConnBudget
    <2>4. OutboundBudget' /\ EntriesUsed' /\ OpenBudget' /\ ReadBudget' /\ GlobalReadBudget'
      BY <2>1, <2>2, IPsUntouched, OtherBudgets
    <2>5. Charge(3, c)' = Charge(3, c) - b /\ \A d \in Conns \ {c} : Charge(3, d)' = Charge(3, d)
      BY <1>1, <1>5
    <2>6. /\ global'.outbound <= GlobalLimit
          /\ global'.outbound - Charge(3, c)' = global.outbound - Charge(3, c)
      <3>1. global.outbound \in Int /\ global.outbound <= GlobalLimit
        BY DEF Types, Budgets, GlobalBudget
      <3> QED
        BY <1>1, <1>2, <2>1, <2>5, <3>1, Limits
    <2>7. GlobalBudget'
      BY <1>1, <2>5, <2>6, GlobalTouched
    <2> QED
      BY <2>3, <2>4, <2>7 DEF Budgets
  <1> QED
    BY <1>3, <1>4, <1>5 DEF Levels
----------------------------------------------------------------------------
(* The steps of a sender.                                                  *)

(* What a sender's step does to the slots held and the bytes charged.      *)
LEMMA SenderHolders ==
  ASSUME NEW t \in Senders, \A u \in Senders \ {t} : sender'[u] = sender[u],
         UNCHANGED <<writer, closer>>, NEW d \in Conns
  PROVE  /\ t \in SlotHolders(d) <=> sender[t].conn = d /\ sender[t].stage \in Holding
         /\ ~(sender'[t].conn = d /\ sender'[t].stage \in Holding) =>
                SlotHolders(d)' = SlotHolders(d) \ {t}
         /\ (sender'[t].conn = d /\ sender'[t].stage \in Holding) =>
                SlotHolders(d)' = SlotHolders(d) \cup {t}
  <1>1. t # "writer" /\ t # "closer"
    BY Limits
  <1>2. OthersHolding(d)' = OthersHolding(d) /\ t \notin OthersHolding(d)
    BY <1>1 DEF OthersHolding
  <1>3. \A u : u \in SendersHolding(d) <=>
                  u \in Senders /\ sender[u].conn = d /\ sender[u].stage \in Holding
    BY DEF SendersHolding
  <1>4. \A u : u \in SendersHolding(d)' <=>
                  u \in Senders /\ sender'[u].conn = d /\ sender'[u].stage \in Holding
    BY DEF SendersHolding
  <1>5. /\ SlotHolders(d) = SendersHolding(d) \cup OthersHolding(d)
        /\ SlotHolders(d)' = SendersHolding(d)' \cup OthersHolding(d)
    BY <1>2, Holders
  <1>6. t \in SlotHolders(d) <=> sender[t].conn = d /\ sender[t].stage \in Holding
    BY <1>2, <1>3, <1>5
  <1>7. ASSUME ~(sender'[t].conn = d /\ sender'[t].stage \in Holding)
        PROVE  SlotHolders(d)' = SlotHolders(d) \ {t}
    BY <1>2, <1>3, <1>4, <1>5, <1>7
  <1>8. ASSUME sender'[t].conn = d /\ sender'[t].stage \in Holding
        PROVE  SlotHolders(d)' = SlotHolders(d) \cup {t}
    BY <1>2, <1>3, <1>4, <1>5, <1>8
  <1> QED
    BY <1>6, <1>7, <1>8

LEMMA SendingStays ==
  ASSUME NEW t, \A u \in Senders \ {t} : sender'[u] = sender[u], NEW d \in Conns,
         queueMu'[d] = queueMu[d], queueMu[d] # t
  PROVE  \A level \in Levels : Sending(level, d)' = Sending(level, d)
  BY DEF Sending

LEMMA ChargeStays ==
  ASSUME NEW d \in Conns, NEW level \in Levels, queue'[d] = queue[d], writer'[d] = writer[d],
         closer'[d] = closer[d], Sending(level, d)' = Sending(level, d)
  PROVE  Charge(level, d)' = Charge(level, d)
  BY DEF Charge

(* The other connections of a sender's step.                               *)
LEMMA SenderElsewhere ==
  ASSUME Shape, NEW t \in Senders, NEW c \in Conns,
         \A u \in Senders \ {t} : sender'[u] = sender[u], UNCHANGED <<writer, closer>>,
         \A d \in Conns \ {c} : queueMu'[d] = queueMu[d] /\ queue'[d] = queue[d],
         sender[t].stage \in Critical => sender[t].conn = c
  PROVE  \A level \in Levels : \A d \in Conns \ {c} : Charge(level, d)' = Charge(level, d)
  <1> SUFFICES ASSUME NEW level \in Levels, NEW d \in Conns \ {c}
               PROVE  Charge(level, d)' = Charge(level, d)
    OBVIOUS
  <1>1. queueMu[d] # t
    BY DEF Shape, MutexOK
  <1>2. Sending(level, d)' = Sending(level, d)
    BY <1>1, SendingStays
  <1> QED
    BY <1>2, ChargeStays

LEMMA StartSendKeeps ==
  ASSUME TransportInv, NEW t \in Senders, NEW c \in Conns, NEW b \in Sizes, StartSend(t, c, b)
  PROVE  TransportInv'
  <1> DEFINE s == At("slot", c, b, 0)
  <1>1. /\ Shape /\ SlotsConserved /\ Budgets /\ Types /\ sender[t].stage = "idle"
        /\ phase[c] \in Known /\ sender' = [sender EXCEPT ![t] = s]
        /\ UNCHANGED <<phase, ip, slots, queue, closed, queueMu, connUsed, usage, global, writer,
                       closer, reader>>
    BY DEF TransportInv, Shape, StartSend, budgetVars, Known
  <1>2. s \in SenderStates /\ s.stage = "slot" /\ s.conn = c /\ s.bytes = b
    BY Limits DEF At, SenderStates
  <1> HIDE DEF s
  <1>3. sender'[t] = s /\ \A u \in Senders \ {t} : sender'[u] = sender[u]
    BY <1>1 DEF Types
  <1>4. Types'
    BY <1>1, <1>2 DEF Types
  <1>5. \A d \in Conns : queueMu[d] # t
    BY <1>1 DEF Shape, MutexOK, Critical
  <1>6. MutexOK' /\ ClosersOK'
    BY <1>1, <1>3, <1>5 DEF Shape, MutexOK, ClosersOK
  <1>7. Shape'
    <2>1. s.stage \notin Critical
      BY <1>2 DEF Critical
    <2> QED
      BY <1>1, <1>2, <1>3, <1>4, <1>6, <2>1, SenderShape
  <1>8. SlotsConserved'
    <2>1. \A d \in Conns : t \notin SlotHolders(d) /\ SlotHolders(d)' = SlotHolders(d) \ {t}
      BY <1>1, <1>2, <1>3, SenderHolders DEF Holding
    <2>2. \A d \in Conns : SlotHolders(d)' = SlotHolders(d)
      BY <2>1
    <2> QED
      BY <1>1, <2>2 DEF SlotsConserved
  <1>9. \A level \in Levels, d \in Conns : Charge(level, d)' = Charge(level, d)
    BY <1>1, <1>3, <1>5, SendingStays, ChargeStays
  <1>10. Budgets'
    BY <1>1, <1>9, BudgetsFrame
  <1> QED
    BY <1>7, <1>8, <1>10 DEF TransportInv

LEMMA GiveUpKeeps ==
  ASSUME TransportInv, NEW t \in Senders, GiveUp(t)
  PROVE  TransportInv'
  <1>1. /\ Shape /\ SlotsConserved /\ Budgets /\ Types /\ sender[t].stage = "slot"
        /\ sender' = [sender EXCEPT ![t] = Idle]
        /\ UNCHANGED <<phase, ip, slots, queue, closed, queueMu, connUsed, usage, global, writer,
                       closer, reader>>
    BY DEF TransportInv, Shape, GiveUp, budgetVars
  <1>3. sender'[t] = Idle /\ \A u \in Senders \ {t} : sender'[u] = sender[u]
    BY <1>1 DEF Types
  <1>4. Types'
    BY <1>1, IdleTyped DEF Types
  <1>5. \A d \in Conns : queueMu[d] # t
    BY <1>1 DEF Shape, MutexOK, Critical
  <1>6. MutexOK' /\ ClosersOK'
    BY <1>1, <1>3, <1>5 DEF Shape, MutexOK, ClosersOK
  <1>7. Shape'
    <2>1. sender'[t].stage = "idle" /\ sender'[t].stage \notin Critical
      BY <1>3, IdleTyped DEF Critical
    <2> QED
      BY <1>1, <1>3, <1>4, <1>6, <2>1, SenderShape
  <1>8. SlotsConserved'
    <2>1. \A d \in Conns : t \notin SlotHolders(d) /\ SlotHolders(d)' = SlotHolders(d) \ {t}
      BY <1>1, <1>3, IdleTyped, SenderHolders DEF Holding
    <2>2. \A d \in Conns : SlotHolders(d)' = SlotHolders(d)
      BY <2>1
    <2> QED
      BY <1>1, <2>2 DEF SlotsConserved
  <1>9. \A level \in Levels, d \in Conns : Charge(level, d)' = Charge(level, d)
    BY <1>1, <1>3, <1>5, SendingStays, ChargeStays
  <1>10. Budgets'
    BY <1>1, <1>9, BudgetsFrame
  <1> QED
    BY <1>7, <1>8, <1>10 DEF TransportInv

LEMMA TakeSlotKeeps ==
  ASSUME TransportInv, NEW t \in Senders, TakeSlot(t)
  PROVE  TransportInv'
  <1> DEFINE s == [sender[t] EXCEPT !.stage = "lock"]
  <1>0. sender[t].conn \in Conns
    BY DEF TransportInv, Shape, SendersOK, TakeSlot
  <1> PICK c \in Conns : c = sender[t].conn
    BY <1>0
  <1>1. /\ Shape /\ SlotsConserved /\ Budgets /\ Types /\ sender[t].stage = "slot"
        /\ slots[c] > 0 /\ slots' = [slots EXCEPT ![c] = @ - 1]
        /\ sender' = [sender EXCEPT ![t] = s]
        /\ UNCHANGED <<phase, ip, queue, closed, queueMu, connUsed, usage, global, writer,
                       closer, reader>>
    BY DEF TransportInv, Shape, TakeSlot, budgetVars
  <1>2. /\ c \in Conns /\ sender[t].bytes \in Sizes /\ phase[c] \in Known
        /\ sender[t] \in SenderStates
    BY <1>1 DEF Shape, SendersOK, Types
  <1>3. s \in SenderStates /\ s.stage = "lock" /\ s.conn = c /\ s.bytes = sender[t].bytes
    BY <1>2 DEF SenderStates
  <1> HIDE DEF s
  <1>4. sender'[t] = s /\ \A u \in Senders \ {t} : sender'[u] = sender[u]
    BY <1>1 DEF Types
  <1>5. /\ slots[c] \in Nat /\ slots'[c] = slots[c] - 1 /\ slots'[c] \in Nat
        /\ \A d \in Conns \ {c} : slots'[d] = slots[d]
    BY <1>1, <1>2 DEF Types
  <1>6. Types'
    BY <1>1, <1>3, <1>5 DEF Types
  <1>7. \A d \in Conns : queueMu[d] # t
    BY <1>1 DEF Shape, MutexOK, Critical
  <1>8. MutexOK' /\ ClosersOK'
    BY <1>1, <1>4, <1>7 DEF Shape, MutexOK, ClosersOK
  <1>9. Shape'
    <2>1. s.stage \notin Critical
      BY <1>3 DEF Critical
    <2> QED
      BY <1>1, <1>2, <1>3, <1>4, <1>6, <1>8, <2>1, SenderShape
  <1>10. SlotsConserved'
    <2>1. \A d \in Conns : t \notin SlotHolders(d)
      BY <1>1, <1>4, SenderHolders DEF Holding
    <2>2. \A d \in Conns \ {c} : SlotHolders(d)' = SlotHolders(d) \ {t}
      BY <1>1, <1>3, <1>4, SenderHolders
    <2>3. SlotHolders(c)' = SlotHolders(c) \cup {t}
      BY <1>1, <1>2, <1>3, <1>4, SenderHolders DEF Holding
    <2>4. \A d \in Conns \ {c} : SlotHolders(d)' = SlotHolders(d)
      BY <2>1, <2>2
    <2>5. slots'[c] + Len(queue'[c]) + 1 = slots[c] + Len(queue[c])
      <3>1. Len(queue[c]) \in Nat
        BY <1>1, <1>2 DEF Types
      <3> QED
        BY <1>1, <1>5, <3>1
    <2> QED
      BY <1>1, <1>2, <1>5, <1>6, <2>1, <2>3, <2>4, <2>5, SlotTaken
  <1>11. \A level \in Levels, d \in Conns : Charge(level, d)' = Charge(level, d)
    BY <1>1, <1>4, <1>7, SendingStays, ChargeStays
  <1>12. Budgets'
    BY <1>1, <1>11, BudgetsFrame
  <1> QED
    BY <1>9, <1>10, <1>12 DEF TransportInv

(* A sender goes idle, giving its slot back or to the frame it enqueues.   *)
LEMMA SenderEnds ==
  ASSUME Shape, SlotsConserved, Types', NEW t \in Senders, NEW c \in Conns,
         sender[t].conn = c, sender[t].stage \in Holding,
         sender' = [sender EXCEPT ![t] = Idle],
         UNCHANGED <<phase, ip, closed, writer, closer, reader>>,
         \A d \in Conns \ {c} : /\ slots'[d] = slots[d] /\ queue'[d] = queue[d]
                                /\ queueMu'[d] = queueMu[d],
         queueMu'[c] = Nil, queueMu[c] \in {t, Nil}, queue'[c] = queue[c] \/ c \notin closed,
         slots'[c] + Len(queue'[c]) = slots[c] + Len(queue[c]) + 1
  PROVE  Shape' /\ SlotsConserved'
  <1>1. sender'[t] = Idle /\ \A u \in Senders \ {t} : sender'[u] = sender[u]
    BY DEF Shape, Types
  <1>2. \A d \in Conns \ {c} : queueMu[d] # t
    BY DEF Shape, MutexOK
  <1>3. queueMu'[c] \notin Senders /\ queueMu'[c] # "closer" /\ queueMu[c] # "closer"
    BY Limits
  <1>4. MutexOK'
    BY <1>1, <1>2, <1>3 DEF Shape, MutexOK
  <1>5. ClosersOK'
    <2>1. closer[c].stage # "idle" => queue'[c] = queue[c]
      BY DEF Shape, MutexOK
    <2> QED
      BY <2>1 DEF Shape, ClosersOK
  <1>6. Shape'
    <2>1. sender'[t].stage = "idle" /\ sender'[t].stage \notin Critical
      BY <1>1, IdleTyped DEF Critical
    <2>2. phase[c] \in Known
      BY DEF Shape, SendersOK, Holding
    <2>3. \A d \in Conns : queueMu'[d] # queueMu[d] => queueMu[d] \in {t, Nil}
      OBVIOUS
    <2>4. \A d \in Conns : queue'[d] # queue[d] => phase[d] \in Known
      BY <2>2
    <2> QED
      BY <1>1, <1>4, <1>5, <2>1, <2>3, <2>4, SenderShape
  <1>7. SlotsConserved'
    <2>1. \A d \in Conns : SlotHolders(d)' = SlotHolders(d) \ {t}
      BY <1>1, IdleTyped, SenderHolders DEF Holding
    <2>2. \A d \in Conns \ {c} : t \notin SlotHolders(d)
      BY <1>1, SenderHolders
    <2>3. t \in SlotHolders(c)
      BY <1>1, SenderHolders
    <2>4. ASSUME NEW d \in Conns \ {c} PROVE SlotHolders(d)' = SlotHolders(d)
      <3>1. SlotHolders(d)' = SlotHolders(d) \ {t} /\ t \notin SlotHolders(d)
        BY <2>1, <2>2
      <3> QED
        BY <3>1
    <2>5. Types
      BY DEF Shape
    <2> QED
      BY <2>1, <2>3, <2>4, <2>5, SlotGiven
  <1> QED
    BY <1>6, <1>7

(* A sender keeps its slot and works on under queueMu.                     *)
LEMMA SenderWorks ==
  ASSUME Shape, SlotsConserved, Types', NEW t \in Senders, NEW c \in Conns, NEW s,
         sender[t].conn = c, sender[t].stage \in Holding,
         sender' = [sender EXCEPT ![t] = s], s.conn = c, s.bytes = sender[t].bytes,
         s.stage \in Critical, s.stage = "reserve" => s.level \in 1 .. 3,
         s.stage = "rollback" => s.level \in 1 .. 2,
         UNCHANGED <<phase, ip, slots, queue, closed, writer, closer, reader>>,
         \A d \in Conns \ {c} : queueMu'[d] = queueMu[d],
         queueMu'[c] = t, queueMu[c] \in {t, Nil}, c \notin closed
  PROVE  Shape' /\ SlotsConserved'
  <1>1. sender'[t] = s /\ \A u \in Senders \ {t} : sender'[u] = sender[u]
    BY DEF Shape, Types
  <1>2. \A d \in Conns \ {c} : queueMu[d] # t
    BY DEF Shape, MutexOK
  <1>3. queueMu'[c] # "closer" /\ queueMu[c] # "closer"
    BY Limits
  <1>4. MutexOK'
    BY <1>1, <1>2, <1>3 DEF Shape, MutexOK
  <1>5. ClosersOK'
    BY DEF Shape, ClosersOK
  <1>6. Shape'
    <2>1. phase[c] \in Known /\ sender[t].bytes \in Sizes
      BY DEF Shape, SendersOK, Holding
    <2>2. \A d \in Conns : queueMu'[d] # queueMu[d] => queueMu[d] \in {t, Nil}
      OBVIOUS
    <2> QED
      BY <1>1, <1>4, <1>5, <2>1, <2>2, SenderShape
  <1>7. SlotsConserved'
    <2>1. Critical \subseteq Holding
      BY DEF Critical, Holding
    <2>2. ASSUME NEW d \in Conns PROVE SlotHolders(d)' = SlotHolders(d)
      <3>1. CASE d = c
        <4>1. t \in SlotHolders(d) /\ SlotHolders(d)' = SlotHolders(d) \cup {t}
          BY <1>1, <2>1, <3>1, SenderHolders
        <4> QED
          BY <4>1
      <3>2. CASE d # c
        <4>1. t \notin SlotHolders(d) /\ SlotHolders(d)' = SlotHolders(d) \ {t}
          BY <1>1, <3>2, SenderHolders
        <4> QED
          BY <4>1
      <3> QED
        BY <3>1, <3>2
    <2> QED
      BY <2>2 DEF SlotsConserved
  <1> QED
    BY <1>6, <1>7

Moved(r, g, l) == [r EXCEPT !.stage = g, !.level = l]

LEMMA SenderMoves ==
  ASSUME NEW r \in SenderStates, NEW g \in Critical, NEW l \in 0 .. 4
  PROVE  /\ Moved(r, g, l) \in SenderStates
         /\ Moved(r, g, l).stage = g /\ Moved(r, g, l).level = l
         /\ Moved(r, g, l).conn = r.conn /\ Moved(r, g, l).bytes = r.bytes
  <1> DEFINE v == [r EXCEPT !.stage = g]
             w == [v EXCEPT !.level = l]
  <1>1. /\ v \in SenderStates /\ v.stage = g /\ v.conn = r.conn /\ v.bytes = r.bytes
        /\ v.level = r.level
    BY DEF SenderStates
  <1> HIDE DEF v
  <1>2. /\ w \in SenderStates /\ w.stage = v.stage /\ w.conn = v.conn /\ w.bytes = v.bytes
        /\ w.level = l
    BY <1>1 DEF SenderStates
  <1>3. Moved(r, g, l) = w
    BY DEF v, Moved
  <1> HIDE DEF w
  <1> QED
    BY <1>1, <1>2, <1>3

LEMMA SenderMovesNow ==
  ASSUME Types, NEW t \in Senders, NEW g \in Critical, NEW l \in 0 .. 4
  PROVE  /\ Moved(sender[t], g, l) \in SenderStates
         /\ Moved(sender[t], g, l).stage = g /\ Moved(sender[t], g, l).level = l
         /\ Moved(sender[t], g, l).conn = sender[t].conn
         /\ Moved(sender[t], g, l).bytes = sender[t].bytes
  <1>1. PICK r \in SenderStates : r = sender[t]
    BY DEF Types
  <1>2. /\ Moved(r, g, l) \in SenderStates
        /\ Moved(r, g, l).stage = g /\ Moved(r, g, l).level = l
        /\ Moved(r, g, l).conn = r.conn /\ Moved(r, g, l).bytes = r.bytes
    BY ONLY r \in SenderStates, g \in Critical, l \in 0 .. 4, SenderMoves
  <1> QED
    BY <1>1, <1>2

LEMMA LockQueueKeeps ==
  ASSUME TransportInv, NEW t \in Senders, LockQueue(t)
  PROVE  TransportInv'
  <1>0. sender[t].conn \in Conns
    BY DEF TransportInv, Shape, SendersOK, LockQueue
  <1> PICK c \in Conns : c = sender[t].conn
    BY <1>0
  <1>1. /\ Shape /\ SlotsConserved /\ Budgets /\ Types /\ sender[t].stage = "lock"
        /\ queueMu[c] = Nil
        /\ UNCHANGED <<phase, ip, queue, closed, connUsed, usage, global, writer, closer, reader>>
    BY DEF TransportInv, Shape, LockQueue, budgetVars
  <1>2. sender[t].stage \in Holding /\ sender[t].stage \notin Critical /\ sender[t] \in SenderStates
    BY <1>1 DEF Holding, Critical, Types
  <1>3. \A d \in Conns : queueMu[d] # t
    BY <1>1, <1>2 DEF Shape, MutexOK
  <1>4. CASE c \in closed
    <2>1. slots' = [slots EXCEPT ![c] = @ + 1] /\ sender' = [sender EXCEPT ![t] = Idle]
          /\ UNCHANGED queueMu
      BY <1>4 DEF LockQueue
    <2>2. /\ slots'[c] = slots[c] + 1 /\ slots[c] \in Nat
          /\ \A d \in Conns \ {c} : slots'[d] = slots[d]
      BY <1>1, <2>1 DEF Types
    <2>3. Types'
      BY <1>1, <2>1, <2>2, IdleTyped DEF Types
    <2>4. slots'[c] + Len(queue'[c]) = slots[c] + Len(queue[c]) + 1
      <3>1. Len(queue[c]) \in Nat
        BY <1>1 DEF Types
      <3> QED
        BY <1>1, <2>2, <3>1
    <2>5. Shape' /\ SlotsConserved'
      BY <1>1, <1>2, <2>1, <2>2, <2>3, <2>4, SenderEnds
    <2>6. \A u \in Senders \ {t} : sender'[u] = sender[u]
      BY <1>1, <2>1 DEF Types
    <2>7. \A level \in Levels, d \in Conns : Charge(level, d)' = Charge(level, d)
      BY <1>1, <1>3, <2>1, <2>6, SendingStays, ChargeStays
    <2>8. Budgets'
      BY <1>1, <2>7, BudgetsFrame
    <2> QED
      BY <2>5, <2>8 DEF TransportInv
  <1>5. CASE c \notin closed
    <2> DEFINE s == Moved(sender[t], "reserve", 1)
    <2>1. /\ queueMu' = [queueMu EXCEPT ![c] = t] /\ sender' = [sender EXCEPT ![t] = s]
          /\ UNCHANGED slots
      BY <1>1, <1>2, <1>5 DEF LockQueue, Types, Moved
    <2>2. /\ s \in SenderStates /\ s.stage = "reserve" /\ s.level = 1 /\ s.conn = c
          /\ s.bytes = sender[t].bytes
      <3>1. "reserve" \in Critical /\ 1 \in 0 .. 4
        BY DEF Critical
      <3> QED
        BY <1>1, <3>1, SenderMovesNow
    <2> HIDE DEF s
    <2>3. /\ sender'[t] = s /\ \A u \in Senders \ {t} : sender'[u] = sender[u]
          /\ queueMu'[c] = t /\ \A d \in Conns \ {c} : queueMu'[d] = queueMu[d]
      BY <1>1, <2>1 DEF Types
    <2>4. Types'
      BY <1>1, <2>1, <2>2 DEF Types
    <2>5. s.stage \in Critical /\ s.level \in 1 .. 3 /\ s.stage # "rollback"
      BY <2>2 DEF Critical
    <2>6. Shape' /\ SlotsConserved'
      BY <1>1, <1>2, <1>5, <2>1, <2>2, <2>3, <2>4, <2>5, SenderWorks
    <2>7. \A level \in Levels : Sending(level, c)' = Sending(level, c)
      <3> SUFFICES ASSUME NEW level \in Levels PROVE Sending(level, c)' = Sending(level, c)
        OBVIOUS
      <3>1. Reserved(level, s) = 0
        BY <2>2 DEF Reserved, Levels
      <3>2. Sending(level, c)' = 0
        BY <2>3, <3>1 DEF Sending
      <3> QED
        BY <1>1, <3>2, Limits DEF Sending
    <2>8. \A level \in Levels, d \in Conns : Charge(level, d)' = Charge(level, d)
      BY <1>1, <1>3, <2>1, <2>3, <2>7, SendingStays, ChargeStays
    <2>9. Budgets'
      BY <1>1, <2>8, BudgetsFrame
    <2> QED
      BY <2>6, <2>9 DEF TransportInv
  <1> QED
    BY <1>4, <1>5

LEMMA AbortKeeps ==
  ASSUME TransportInv, NEW t \in Senders, Abort(t)
  PROVE  TransportInv'
  <1>0. sender[t].conn \in Conns
    BY DEF TransportInv, Shape, SendersOK, Abort
  <1> PICK c \in Conns : c = sender[t].conn
    BY <1>0
  <1>1. /\ Shape /\ SlotsConserved /\ Budgets /\ Types /\ sender[t].stage = "abort"
        /\ slots' = [slots EXCEPT ![c] = @ + 1] /\ queueMu' = [queueMu EXCEPT ![c] = Nil]
        /\ sender' = [sender EXCEPT ![t] = Idle]
        /\ UNCHANGED <<phase, ip, queue, closed, connUsed, usage, global, writer, closer, reader>>
    BY DEF TransportInv, Shape, Abort, budgetVars
  <1>2. sender[t].stage \in Holding /\ sender[t].stage \in Critical
    BY <1>1 DEF Holding, Critical
  <1>3. queueMu[c] = t
    BY <1>1, <1>2 DEF Shape, SendersOK
  <1>4. /\ slots'[c] = slots[c] + 1 /\ slots[c] \in Nat
        /\ \A d \in Conns \ {c} : slots'[d] = slots[d] /\ queueMu'[d] = queueMu[d]
        /\ queueMu'[c] = Nil
    BY <1>1 DEF Types
  <1>5. Types'
    BY <1>1, <1>4, IdleTyped DEF Types
  <1>6. slots'[c] + Len(queue'[c]) = slots[c] + Len(queue[c]) + 1
    <2>1. Len(queue[c]) \in Nat
      BY <1>1 DEF Types
    <2> QED
      BY <1>1, <1>4, <2>1
  <1>7. Shape' /\ SlotsConserved'
    BY <1>1, <1>2, <1>3, <1>4, <1>5, <1>6, SenderEnds
  <1>8. \A u \in Senders \ {t} : sender'[u] = sender[u]
    BY <1>1 DEF Types
  <1>9. \A level \in Levels : \A d \in Conns \ {c} : Charge(level, d)' = Charge(level, d)
    BY <1>1, <1>4, <1>8, SenderElsewhere
  <1>10. \A level \in Levels : Sending(level, c)' = Sending(level, c)
    BY <1>1, <1>3, <1>4, Limits DEF Sending, Reserved
  <1>11. \A level \in Levels, d \in Conns : Charge(level, d)' = Charge(level, d)
    BY <1>1, <1>9, <1>10, ChargeStays
  <1>12. Budgets'
    BY <1>1, <1>11, BudgetsFrame
  <1> QED
    BY <1>7, <1>12 DEF TransportInv

(* The holder of queueMu carries what it has reserved.                     *)
LEMMA SenderCharges ==
  ASSUME Shape, Types', NEW t \in Senders, NEW c \in Conns, NEW s, sender[t].conn = c,
         queueMu[c] = t, sender' = [sender EXCEPT ![t] = s],
         UNCHANGED <<queueMu, queue, writer, closer>>, NEW l \in Levels
  PROVE  /\ \A d \in Conns \ {c} : Charge(l, d)' = Charge(l, d)
         /\ Charge(l, c)' = Charge(l, c) - Reserved(l, sender[t]) + Reserved(l, s)
         /\ Reserved(l, sender[t]) <= Charge(l, c)
  <1>1. sender'[t] = s /\ \A u \in Senders \ {t} : sender'[u] = sender[u]
    BY DEF Shape, Types
  <1>2. \A d \in Conns \ {c} : Charge(l, d)' = Charge(l, d)
    BY <1>1, SenderElsewhere
  <1>3. Sending(l, c) = Reserved(l, sender[t]) /\ Sending(l, c)' = Reserved(l, s)
    BY <1>1 DEF Sending
  <1>4. Charge(l, c)' \in Nat
    BY ChargeNatNext
  <1>5. s \in SenderStates
    BY <1>1 DEF Types
  <1>6. Reserved(l, s) \in Nat
    BY <1>5 DEF Reserved, SenderStates
  <1>7. /\ Charge(l, c) \in Nat /\ Sum(queue[c]) \in Nat
        /\ Returning(l, writer[c]) \in Nat /\ Returning(l, closer[c]) \in Nat
        /\ Sending(l, c) \in Nat
    BY ChargeNat DEF Shape
  <1>8. /\ Charge(l, c) = Sum(queue[c]) + Returning(l, writer[c]) + Returning(l, closer[c])
                            + Sending(l, c)
        /\ Charge(l, c)' = Sum(queue[c]) + Returning(l, writer[c]) + Returning(l, closer[c])
                            + Sending(l, c)'
    BY DEF Charge
  <1> QED
    BY <1>2, <1>3, <1>6, <1>7, <1>8

LEMMA ReserveBytesKeeps ==
  ASSUME TransportInv, NEW t \in Senders, ReserveBytes(t)
  PROVE  TransportInv'
  <1>0. sender[t].conn \in Conns /\ sender[t].level \in Levels /\ sender[t].bytes \in Sizes
    BY DEF TransportInv, Shape, SendersOK, ReserveBytes, Levels
  <1> PICK c \in Conns : c = sender[t].conn
    BY <1>0
  <1> PICK k \in Levels : k = sender[t].level
    BY <1>0
  <1> PICK b \in Sizes : b = sender[t].bytes
    BY <1>0
  <1>1. /\ Shape /\ SlotsConserved /\ Budgets /\ Types /\ sender[t].stage = "reserve"
        /\ UNCHANGED <<phase, ip, slots, queue, closed, queueMu, writer, closer, reader>>
    BY DEF TransportInv, Shape, ReserveBytes
  <1>2. sender[t].stage \in Holding /\ sender[t].stage \in Critical /\ sender[t] \in SenderStates
    BY <1>1 DEF Holding, Critical, Types
  <1>3. queueMu[c] = t /\ c \notin closed /\ phase[c] \in Known
    BY <1>1, <1>2 DEF Shape, SendersOK
  <1>4. ip[c] \in IPs /\ b \in Nat
    BY <1>1, <1>3, Limits DEF Shape, ConnsOK
  <1>5. k \in 1 .. 3
    BY DEF Levels
  <1>6. CASE TryReserve(c, k, b)
             /\ sender' = [sender EXCEPT ![t].stage = IF k = 3 THEN "enqueue" ELSE @,
                                         ![t].level = @ + 1]
    <2> DEFINE g == IF k = 3 THEN "enqueue" ELSE "reserve"
               s == Moved(sender[t], g, k + 1)
    <2>1. sender' = [sender EXCEPT ![t] = s]
      BY <1>1, <1>2, <1>6 DEF Moved, Types
    <2>2. g \in Critical /\ k + 1 \in 0 .. 4 /\ (g = "reserve" => k \in 1 .. 2)
          /\ (k = 3 => g = "enqueue") /\ (k # 3 => g = "reserve")
      BY <1>5 DEF Critical
    <2> HIDE DEF g
    <2>3. /\ s \in SenderStates /\ s.stage = g /\ s.level = k + 1 /\ s.conn = c /\ s.bytes = b
      BY <1>1, <2>2, SenderMovesNow
    <2> HIDE DEF s
    <2>4. Types'
      <3>1. BudgetTypes'
        BY <1>1, <1>4, <1>6, ReserveEffect
      <3>2. sender' \in [Senders -> SenderStates]
        BY <1>1, <2>1, <2>3 DEF Types
      <3> QED
        BY <1>1, <3>1, <3>2 DEF Types, BudgetTypes
    <2>5. s.stage = "reserve" => s.level \in 1 .. 3
      BY <1>5, <2>2, <2>3
    <2>6. s.stage # "rollback"
      BY <2>2, <2>3
    <2>7. Shape' /\ SlotsConserved'
      BY <1>1, <1>2, <1>3, <2>1, <2>2, <2>3, <2>4, <2>5, <2>6, SenderWorks
    <2>8. \A l \in Levels : /\ \A d \in Conns \ {c} : Charge(l, d)' = Charge(l, d)
                            /\ Charge(l, c)' = Charge(l, c) - Reserved(l, sender[t]) + Reserved(l, s)
      <3>1. UNCHANGED <<queueMu, queue, writer, closer>> /\ sender[t].conn = c
        BY <1>1
      <3>2. ASSUME NEW l \in Levels
            PROVE  /\ \A d \in Conns \ {c} : Charge(l, d)' = Charge(l, d)
                   /\ Charge(l, c)' = Charge(l, c) - Reserved(l, sender[t]) + Reserved(l, s)
        BY <1>1, <1>3, <2>1, <2>4, <3>1, SenderCharges
      <3> QED
        BY <3>2
    <2>9. \A l \in Levels : Charge(l, c)' = IF l = k THEN Charge(l, c) + b ELSE Charge(l, c)
      <3> SUFFICES ASSUME NEW l \in Levels
                   PROVE  Charge(l, c)' = IF l = k THEN Charge(l, c) + b ELSE Charge(l, c)
        OBVIOUS
      <3>1. l \in 1 .. 3
        BY DEF Levels
      <3>2. Reserved(l, sender[t]) = IF l < k THEN b ELSE 0
        BY <1>1 DEF Reserved
      <3>3. Reserved(l, s) = IF l < k + 1 THEN b ELSE 0
        BY <1>5, <2>2, <2>3, <3>1 DEF Reserved
      <3>4. Charge(l, c) \in Nat
        BY <1>1, ChargeNat
      <3> QED
        BY <1>4, <1>5, <2>8, <3>1, <3>2, <3>3, <3>4
    <2>10. \A l \in Levels, d \in Conns :
             Charge(l, d)' = IF l = k /\ d = c THEN Charge(l, d) + b ELSE Charge(l, d)
      BY <2>8, <2>9
    <2>11. Budgets'
      BY <1>1, <1>4, <1>6, <2>4, <2>10, ReserveBudgets
    <2> QED
      BY <2>7, <2>11 DEF TransportInv
  <1>7. CASE UNCHANGED budgetVars
             /\ sender' = [sender EXCEPT ![t].stage = IF k = 1 THEN "abort" ELSE "rollback",
                                         ![t].level = @ - 1]
    <2> DEFINE g == IF k = 1 THEN "abort" ELSE "rollback"
               s == Moved(sender[t], g, k - 1)
    <2>1. sender' = [sender EXCEPT ![t] = s]
      BY <1>1, <1>2, <1>7 DEF Moved, Types
    <2>2. g \in Critical /\ k - 1 \in 0 .. 4 /\ (g = "rollback" => k \in 2 .. 3)
          /\ (k = 1 => g = "abort") /\ (k # 1 => g = "rollback") /\ g # "reserve"
      BY <1>5 DEF Critical
    <2> HIDE DEF g
    <2>3. /\ s \in SenderStates /\ s.stage = g /\ s.level = k - 1 /\ s.conn = c /\ s.bytes = b
      BY <1>1, <2>2, SenderMovesNow
    <2> HIDE DEF s
    <2>4. Types' /\ UNCHANGED <<connUsed, usage, global>>
      BY <1>1, <1>7, <2>1, <2>3 DEF Types, budgetVars
    <2>5. s.stage = "rollback" => s.level \in 1 .. 2
      BY <1>5, <2>2, <2>3
    <2>6. s.stage # "reserve"
      BY <2>2, <2>3
    <2>7. Shape' /\ SlotsConserved'
      BY <1>1, <1>2, <1>3, <2>1, <2>2, <2>3, <2>4, <2>5, <2>6, SenderWorks
    <2>8. \A l \in Levels : /\ \A d \in Conns \ {c} : Charge(l, d)' = Charge(l, d)
                            /\ Charge(l, c)' = Charge(l, c) - Reserved(l, sender[t]) + Reserved(l, s)
      <3>1. UNCHANGED <<queueMu, queue, writer, closer>> /\ sender[t].conn = c
        BY <1>1
      <3>2. ASSUME NEW l \in Levels
            PROVE  /\ \A d \in Conns \ {c} : Charge(l, d)' = Charge(l, d)
                   /\ Charge(l, c)' = Charge(l, c) - Reserved(l, sender[t]) + Reserved(l, s)
        BY <1>1, <1>3, <2>1, <2>4, <3>1, SenderCharges
      <3> QED
        BY <3>2
    <2>9. \A l \in Levels : Charge(l, c)' = Charge(l, c)
      <3> SUFFICES ASSUME NEW l \in Levels PROVE Charge(l, c)' = Charge(l, c)
        OBVIOUS
      <3>1. l \in 1 .. 3
        BY DEF Levels
      <3>2. Reserved(l, sender[t]) = IF l < k THEN b ELSE 0
        BY <1>1 DEF Reserved
      <3>3. Reserved(l, s) = IF l < k THEN b ELSE 0
        BY <1>5, <2>2, <2>3, <3>1 DEF Reserved
      <3>4. Charge(l, c) \in Nat
        BY <1>1, ChargeNat
      <3> QED
        BY <1>4, <2>8, <3>2, <3>3, <3>4
    <2>10. \A l \in Levels, d \in Conns : Charge(l, d)' = Charge(l, d)
      BY <2>8, <2>9
    <2>11. Budgets'
      BY <1>1, <2>4, <2>10, BudgetsFrame
    <2> QED
      BY <2>7, <2>11 DEF TransportInv
  <1> QED
    BY <1>6, <1>7 DEF ReserveBytes

LEMMA RollBackKeeps ==
  ASSUME TransportInv, NEW t \in Senders, RollBack(t)
  PROVE  TransportInv'
  <1>0. sender[t].conn \in Conns /\ sender[t].level \in 1 .. 2 /\ sender[t].bytes \in Sizes
    BY DEF TransportInv, Shape, SendersOK, RollBack
  <1> PICK c \in Conns : c = sender[t].conn
    BY <1>0
  <1> PICK k \in 1 .. 2 : k = sender[t].level
    BY <1>0
  <1> PICK b \in Sizes : b = sender[t].bytes
    BY <1>0
  <1> DEFINE g == IF k = 1 THEN "abort" ELSE "rollback"
             s == Moved(sender[t], g, k - 1)
  <1>1. /\ Shape /\ SlotsConserved /\ Budgets /\ Types /\ sender[t].stage = "rollback"
        /\ Release(c, k, b)
        /\ sender' = [sender EXCEPT ![t].stage = IF k = 1 THEN "abort" ELSE @,
                                    ![t].level = @ - 1]
        /\ UNCHANGED <<phase, ip, slots, queue, closed, queueMu, writer, closer, reader>>
    BY DEF TransportInv, Shape, RollBack
  <1>2. sender[t].stage \in Holding /\ sender[t].stage \in Critical /\ sender[t] \in SenderStates
    BY <1>1 DEF Holding, Critical, Types
  <1>3. queueMu[c] = t /\ c \notin closed /\ phase[c] \in Known
    BY <1>1, <1>2 DEF Shape, SendersOK
  <1>4. ip[c] \in IPs /\ b \in Nat /\ b > 0 /\ k \in Levels
    BY <1>1, <1>3, Limits DEF Shape, ConnsOK, Levels
  <1>5. sender' = [sender EXCEPT ![t] = s]
    BY <1>1, <1>2 DEF Moved, Types
  <1>6. g \in Critical /\ k - 1 \in 0 .. 4 /\ (g = "rollback" => k = 2)
        /\ (k = 1 => g = "abort") /\ (k # 1 => g = "rollback") /\ g # "reserve"
    BY DEF Critical
  <1> HIDE DEF g
  <1>7. /\ s \in SenderStates /\ s.stage = g /\ s.level = k - 1 /\ s.conn = c /\ s.bytes = b
    BY <1>1, <1>6, SenderMovesNow
  <1> HIDE DEF s
  <1>8. \A l \in Levels : /\ Reserved(l, sender[t]) = IF l <= k THEN b ELSE 0
                          /\ Reserved(l, s) = IF l < k THEN b ELSE 0
    <2> SUFFICES ASSUME NEW l \in Levels
                 PROVE  /\ Reserved(l, sender[t]) = IF l <= k THEN b ELSE 0
                        /\ Reserved(l, s) = IF l < k THEN b ELSE 0
      OBVIOUS
    <2>1. l \in 1 .. 3
      BY DEF Levels
    <2> QED
      BY <1>1, <1>6, <1>7, <2>1 DEF Reserved
  <1>9. b <= Charge(k, c)
    <2>1. Sending(k, c) = b
      BY <1>3, <1>4, <1>8 DEF Sending
    <2>2. /\ Sum(queue[c]) \in Nat /\ Returning(k, writer[c]) \in Nat
          /\ Returning(k, closer[c]) \in Nat
      BY <1>1, <1>4, ChargeNat
    <2> QED
      BY <1>4, <2>1, <2>2 DEF Charge
  <1>10. Types'
    <2>1. BudgetTypes'
      BY <1>1, <1>4, <1>9, ReleaseEffect
    <2>2. sender' \in [Senders -> SenderStates]
      BY <1>1, <1>5, <1>7 DEF Types
    <2> QED
      BY <1>1, <2>1, <2>2 DEF Types, BudgetTypes
  <1>11. Shape' /\ SlotsConserved'
    <2>1. (s.stage = "rollback" => s.level \in 1 .. 2) /\ s.stage # "reserve"
      BY <1>6, <1>7
    <2> QED
      BY <1>1, <1>2, <1>3, <1>5, <1>6, <1>7, <1>10, <2>1, SenderWorks
  <1>12. ASSUME NEW l \in Levels
         PROVE  /\ \A d \in Conns \ {c} : Charge(l, d)' = Charge(l, d)
                /\ Charge(l, c)' = IF l = k THEN Charge(l, c) - b ELSE Charge(l, c)
    <2>1. /\ \A d \in Conns \ {c} : Charge(l, d)' = Charge(l, d)
          /\ Charge(l, c)' = Charge(l, c) - Reserved(l, sender[t]) + Reserved(l, s)
      <3>1. UNCHANGED <<queueMu, queue, writer, closer>> /\ sender[t].conn = c /\ Shape
        BY <1>1
      <3> QED
        BY <1>3, <1>5, <1>10, <3>1, SenderCharges
    <2>2. Charge(l, c) \in Nat /\ l \in 1 .. 3
      BY <1>1, ChargeNat DEF Levels
    <2> QED
      BY <1>4, <1>8, <2>1, <2>2
  <1>13. \A l \in Levels, d \in Conns :
            Charge(l, d)' = IF l = k /\ d = c THEN Charge(l, d) - b ELSE Charge(l, d)
    BY <1>12
  <1>14. Budgets'
    BY <1>1, <1>4, <1>9, <1>10, <1>13, ReleaseBudgets
  <1> QED
    BY <1>11, <1>14 DEF TransportInv

LEMMA EnqueueKeeps ==
  ASSUME TransportInv, NEW t \in Senders, Enqueue(t)
  PROVE  TransportInv'
  <1>0. sender[t].conn \in Conns /\ sender[t].bytes \in Sizes
    BY DEF TransportInv, Shape, SendersOK, Enqueue
  <1> PICK c \in Conns : c = sender[t].conn
    BY <1>0
  <1> PICK b \in Sizes : b = sender[t].bytes
    BY <1>0
  <1>1. /\ Shape /\ SlotsConserved /\ Budgets /\ Types /\ sender[t].stage = "enqueue"
        /\ queue' = [queue EXCEPT ![c] = Append(@, b)] /\ queueMu' = [queueMu EXCEPT ![c] = Nil]
        /\ sender' = [sender EXCEPT ![t] = Idle]
        /\ UNCHANGED <<phase, ip, slots, closed, connUsed, usage, global, writer, closer, reader>>
    BY DEF TransportInv, Shape, Enqueue, budgetVars
  <1>2. sender[t].stage \in Holding /\ sender[t].stage \in Critical
    BY <1>1 DEF Holding, Critical
  <1>3. queueMu[c] = t /\ c \notin closed
    BY <1>1, <1>2 DEF Shape, SendersOK
  <1>4. /\ queue'[c] = Append(queue[c], b) /\ queueMu'[c] = Nil /\ queue[c] \in Seq(Sizes)
        /\ \A d \in Conns \ {c} : queue'[d] = queue[d] /\ queueMu'[d] = queueMu[d]
    BY <1>1 DEF Types
  <1>5. Types'
    <2>1. queue' \in [Conns -> Seq(Sizes)]
      BY <1>1, <1>4 DEF Types
    <2>2. queueMu' \in [Conns -> Senders \cup {"closer", Nil}]
      BY <1>1 DEF Types
    <2> QED
      BY <1>1, <2>1, <2>2, IdleTyped DEF Types
  <1>6. slots'[c] + Len(queue'[c]) = slots[c] + Len(queue[c]) + 1
    <2>1. slots[c] \in Nat /\ Len(queue[c]) \in Nat /\ Len(queue'[c]) = Len(queue[c]) + 1
      BY <1>1, <1>4 DEF Types
    <2> QED
      BY <1>1, <2>1
  <1>7. Shape' /\ SlotsConserved'
    <2>1. \A d \in Conns \ {c} : slots'[d] = slots[d]
      BY <1>1
    <2> QED
      BY <1>1, <1>2, <1>3, <1>4, <1>5, <1>6, <2>1, SenderEnds
  <1>8. \A u \in Senders \ {t} : sender'[u] = sender[u]
    BY <1>1 DEF Types
  <1>9. \A level \in Levels : \A d \in Conns \ {c} : Charge(level, d)' = Charge(level, d)
    BY <1>1, <1>4, <1>8, SenderElsewhere
  <1>10. ASSUME NEW l \in Levels PROVE Charge(l, c)' = Charge(l, c)
    <2>1. Sending(l, c) = b /\ Sending(l, c)' = 0
      BY <1>1, <1>3, <1>4, Limits DEF Sending, Reserved
    <2>2. Sum(queue'[c]) = Sum(queue[c]) + b /\ b \in Nat
      <3>1. queue[c] \in Seq(Nat) /\ b \in Nat
        BY <1>4, QueueSum, Limits
      <3> QED
        BY <1>4, <3>1, SumAppend
    <2>3. /\ Sum(queue[c]) \in Nat
          /\ Returning(l, writer[c]) \in Nat /\ Returning(l, closer[c]) \in Nat
      BY <1>1, ChargeNat
    <2>4. /\ Charge(l, c) = Sum(queue[c]) + Returning(l, writer[c]) + Returning(l, closer[c])
                              + Sending(l, c)
          /\ Charge(l, c)' = Sum(queue'[c]) + Returning(l, writer[c]) + Returning(l, closer[c])
                              + Sending(l, c)'
      BY <1>1 DEF Charge
    <2> QED
      BY <2>1, <2>2, <2>3, <2>4
  <1>11. \A level \in Levels, d \in Conns : Charge(level, d)' = Charge(level, d)
    BY <1>9, <1>10
  <1>12. Budgets'
    BY <1>1, <1>11, BudgetsFrame
  <1> QED
    BY <1>7, <1>12 DEF TransportInv
----------------------------------------------------------------------------
(* The steps of a writer and of a closer.                                  *)

(* The shape of a writer's step: it may take a frame from the queue.       *)
LEMMA WriterShape ==
  ASSUME Shape, Types', NEW c \in Conns, NEW w, writer' = [writer EXCEPT ![c] = w],
         UNCHANGED <<phase, ip, closed, queueMu, sender, closer, reader>>,
         \A d \in Conns \ {c} : queue'[d] = queue[d],
         queue'[c] # queue[c] => queue[c] # <<>>, writer[c].stage # "idle",
         w.stage \in {"select", "slotBack", "write", "complete", "fail", "exit", "gone"},
         w.stage \in {"slotBack", "write"} => w.level = 3,
         w.stage \in {"complete", "fail"} => w.level \in 1 .. 3,
         w.stage \in {"slotBack", "write", "complete", "fail"} => w.bytes \in Sizes,
         w.stage = "gone" => closer[c].stage = "done"
  PROVE  Shape'
  <1>1. writer'[c] = w /\ \A d \in Conns \ {c} : writer'[d] = writer[d]
    BY DEF Shape, Types
  <1>2. SendersOK' /\ MutexOK'
    BY DEF Shape, SendersOK, MutexOK
  <1>3. ClosersOK'
    <2> SUFFICES ASSUME NEW d \in Conns, closer[d].stage = "done" PROVE queue'[d] = <<>>
      BY DEF Shape, ClosersOK
    <2>1. queue[d] = <<>>
      BY DEF Shape, ClosersOK
    <2> QED
      BY <2>1
  <1>4. WritersOK'
    BY <1>1 DEF Shape, WritersOK
  <1>5. ConnsOK'
    <2>1. phase[c] \in Known
      BY DEF Shape, ConnsOK
    <2> QED
      BY <1>1, <2>1 DEF Shape, ConnsOK
  <1> QED
    BY <1>2, <1>3, <1>4, <1>5 DEF Shape

(* What a writer's or closer's step does to the slots held.                *)
LEMMA WriterHolders ==
  ASSUME Types, NEW c \in Conns, NEW w, writer' = [writer EXCEPT ![c] = w],
         UNCHANGED <<sender, closer>>
  PROVE  /\ \A d \in Conns \ {c} : SlotHolders(d)' = SlotHolders(d)
         /\ "writer" \in SlotHolders(c) <=> writer[c].stage = "slotBack"
         /\ w.stage = "slotBack" => SlotHolders(c)' = SlotHolders(c) \cup {"writer"}
         /\ w.stage # "slotBack" => SlotHolders(c)' = SlotHolders(c) \ {"writer"}
  <1>1. writer'[c] = w /\ \A d \in Conns \ {c} : writer'[d] = writer[d]
    BY DEF Types
  <1>2. \A d \in Conns : SendersHolding(d)' = SendersHolding(d) /\ "writer" \notin SendersHolding(d)
    BY Limits DEF SendersHolding
  <1>3. \A d \in Conns : /\ SlotHolders(d) = SendersHolding(d) \cup OthersHolding(d)
                         /\ SlotHolders(d)' = SendersHolding(d) \cup OthersHolding(d)'
    BY <1>2, Holders
  <1>4. \A d \in Conns \ {c} : OthersHolding(d)' = OthersHolding(d)
    BY <1>1 DEF OthersHolding
  <1>5. "writer" \in OthersHolding(c) <=> writer[c].stage = "slotBack"
    BY DEF OthersHolding
  <1>6. w.stage = "slotBack" => OthersHolding(c)' = OthersHolding(c) \cup {"writer"}
    BY <1>1 DEF OthersHolding
  <1>7. w.stage # "slotBack" => OthersHolding(c)' = OthersHolding(c) \ {"writer"}
    BY <1>1 DEF OthersHolding
  <1>8. \A d \in Conns \ {c} : SlotHolders(d)' = SlotHolders(d)
    BY <1>3, <1>4
  <1>9. "writer" \in SlotHolders(c) <=> writer[c].stage = "slotBack"
    BY <1>2, <1>3, <1>5
  <1>10. w.stage = "slotBack" => SlotHolders(c)' = SlotHolders(c) \cup {"writer"}
    BY <1>3, <1>6
  <1>11. w.stage # "slotBack" => SlotHolders(c)' = SlotHolders(c) \ {"writer"}
    BY <1>2, <1>3, <1>7
  <1> QED
    BY <1>8, <1>9, <1>10, <1>11

(* The bytes a writer still has to return are part of its connection's     *)
(* charge.                                                                 *)
LEMMA WriterCharges ==
  ASSUME Types, Types', NEW c \in Conns, NEW w, writer' = [writer EXCEPT ![c] = w],
         UNCHANGED <<sender, closer, queueMu>>,
         \A d \in Conns \ {c} : queue'[d] = queue[d], NEW l \in Levels
  PROVE  /\ \A d \in Conns \ {c} : Charge(l, d)' = Charge(l, d)
         /\ Charge(l, c)' = Charge(l, c) - (Sum(queue[c]) + Returning(l, writer[c]))
                                         + (Sum(queue'[c]) + Returning(l, w))
         /\ Sum(queue[c]) \in Nat /\ Sum(queue'[c]) \in Nat
         /\ Returning(l, writer[c]) \in Nat /\ Returning(l, w) \in Nat
         /\ Returning(l, writer[c]) <= Charge(l, c) /\ Charge(l, c) \in Nat
  <1>1. writer'[c] = w /\ \A d \in Conns \ {c} : writer'[d] = writer[d]
    BY DEF Types
  <1>2. \A d \in Conns : Sending(l, d)' = Sending(l, d)
    BY DEF Sending
  <1>3. \A d \in Conns \ {c} : Charge(l, d)' = Charge(l, d)
    BY <1>1, <1>2 DEF Charge
  <1>4. /\ Charge(l, c) \in Nat /\ Sum(queue[c]) \in Nat
        /\ Returning(l, writer[c]) \in Nat /\ Returning(l, closer[c]) \in Nat
        /\ Sending(l, c) \in Nat
    BY ChargeNat
  <1>5. Sum(queue'[c]) \in Nat /\ Returning(l, w) \in Nat
    <2>1. queue'[c] \in Seq(Sizes) /\ w \in States
      BY <1>1 DEF Types
    <2> QED
      BY <2>1, QueueSum DEF Returning, States
  <1>6. /\ Charge(l, c) = Sum(queue[c]) + Returning(l, writer[c]) + Returning(l, closer[c])
                            + Sending(l, c)
        /\ Charge(l, c)' = Sum(queue'[c]) + Returning(l, w) + Returning(l, closer[c])
                            + Sending(l, c)
    BY <1>1, <1>2 DEF Charge
  <1> QED
    BY <1>3, <1>4, <1>5, <1>6

Stages == {"idle", "select", "slotBack", "write", "complete", "fail", "exit", "gone",
           "drain", "release", "done", "process", "body", "releaseIP"}

LEMMA StageMoves ==
  ASSUME NEW r \in States, NEW g \in Stages, NEW w, w = [r EXCEPT !.stage = g]
  PROVE  w \in States /\ w.stage = g /\ w.bytes = r.bytes /\ w.level = r.level
  BY DEF States, Stages

LEMMA LevelMoves ==
  ASSUME NEW r \in States, NEW l \in 0 .. 3, NEW w, w = [r EXCEPT !.level = l]
  PROVE  w \in States /\ w.stage = r.stage /\ w.bytes = r.bytes /\ w.level = l
  BY DEF States

LEMMA AtTyped ==
  ASSUME NEW g \in Stages, NEW c \in Conns, NEW b \in Nat, NEW l \in 0 .. 3, NEW w,
         w = At(g, c, b, l)
  PROVE  w \in States /\ w.stage = g /\ w.bytes = b /\ w.level = l
  BY DEF States, Stages, At

LEMMA WriterTakeKeeps ==
  ASSUME TransportInv, NEW c \in Conns, WriterTake(c)
  PROVE  TransportInv'
  <1>0. /\ writer' = [writer EXCEPT ![c] = At("slotBack", c, Head(queue[c]), 3)]
        /\ queue' = [queue EXCEPT ![c] = Tail(@)]
    BY DEF WriterTake
  <1>1. /\ Shape /\ SlotsConserved /\ Budgets /\ Types /\ writer[c].stage = "select"
        /\ queue[c] # <<>>
        /\ UNCHANGED <<phase, ip, slots, closed, queueMu, connUsed, usage, global, sender,
                       closer, reader>>
    BY DEF TransportInv, Shape, WriterTake, budgetVars
  <1>2. /\ queue[c] \in Seq(Sizes) /\ Head(queue[c]) \in Sizes /\ Tail(queue[c]) \in Seq(Sizes)
        /\ Len(queue[c]) \in Nat /\ Len(Tail(queue[c])) = Len(queue[c]) - 1
    BY <1>1 DEF Types
  <1>b. PICK b \in Sizes : b = Head(queue[c])
    BY <1>2
  <1>w. PICK w : w = At("slotBack", c, b, 3)
    OBVIOUS
  <1>3. b \in Nat
    BY Limits
  <1>4. w \in States /\ w.stage = "slotBack" /\ w.bytes = b /\ w.level = 3
    BY <1>3, <1>w, AtTyped DEF Stages
  <1>5. writer' = [writer EXCEPT ![c] = w] /\ queue'[c] = Tail(queue[c])
        /\ \A d \in Conns \ {c} : queue'[d] = queue[d]
    BY <1>0, <1>1, <1>b, <1>w DEF Types
  <1>6. Types'
    BY <1>0, <1>1, <1>2, <1>4, <1>5 DEF Types
  <1>7. Shape'
    BY <1>1, <1>4, <1>5, <1>6, WriterShape
  <1>8. SlotsConserved'
    <2>1. /\ \A d \in Conns \ {c} : SlotHolders(d)' = SlotHolders(d)
          /\ "writer" \notin SlotHolders(c)
          /\ SlotHolders(c)' = SlotHolders(c) \cup {"writer"}
      BY <1>1, <1>4, <1>5, WriterHolders
    <2>2. slots'[c] + Len(queue'[c]) + 1 = slots[c] + Len(queue[c])
          /\ \A d \in Conns \ {c} : slots'[d] = slots[d]
      <3>1. slots[c] \in Nat
        BY <1>1 DEF Types
      <3> QED
        BY <1>1, <1>2, <1>5, <3>1
    <2> QED
      BY <1>1, <1>5, <1>6, <2>1, <2>2, SlotTaken
  <1>9. ASSUME NEW l \in Levels
        PROVE  \A d \in Conns : Charge(l, d)' = Charge(l, d)
    <2>1. UNCHANGED <<sender, closer, queueMu>>
      BY <1>1
    <2>2. /\ \A d \in Conns \ {c} : Charge(l, d)' = Charge(l, d)
          /\ Charge(l, c)' = Charge(l, c) - (Sum(queue[c]) + Returning(l, writer[c]))
                                          + (Sum(queue'[c]) + Returning(l, w))
          /\ Sum(queue[c]) \in Nat /\ Sum(queue'[c]) \in Nat /\ Charge(l, c) \in Nat
      BY <1>1, <1>5, <1>6, <2>1, WriterCharges
    <2>3. Returning(l, writer[c]) = 0 /\ Returning(l, w) = b
      BY <1>1, <1>4 DEF Returning, Levels
    <2>4. Sum(queue[c]) = Sum(queue'[c]) + b
      <3>1. queue[c] \in Seq(Nat)
        BY <1>2, QueueSum
      <3> QED
        BY <1>1, <1>5, <1>b, <3>1, SumTail
    <2>5. Charge(l, c)' = Charge(l, c)
      BY <1>3, <2>2, <2>3, <2>4
    <2> QED
      BY <2>2, <2>5
  <1>10. Budgets'
    BY <1>1, <1>9, BudgetsFrame
  <1> QED
    BY <1>7, <1>8, <1>10 DEF TransportInv

LEMMA WriterSlotBackKeeps ==
  ASSUME TransportInv, NEW c \in Conns, WriterSlotBack(c)
  PROVE  TransportInv'
  <1>g. PICK g \in {"fail", "write"} : g = IF c \in closed THEN "fail" ELSE "write"
    OBVIOUS
  <1>w. PICK w : w = [writer[c] EXCEPT !.stage = g]
    OBVIOUS
  <1>0. slots' = [slots EXCEPT ![c] = @ + 1]
    BY DEF WriterSlotBack
  <1>1. /\ Shape /\ SlotsConserved /\ Budgets /\ Types /\ writer[c].stage = "slotBack"
        /\ writer' = [writer EXCEPT ![c] = w]
        /\ UNCHANGED <<phase, ip, queue, closed, queueMu, connUsed, usage, global, sender,
                       closer, reader>>
    BY <1>g, <1>w DEF TransportInv, Shape, WriterSlotBack, budgetVars
  <1>2. writer[c] \in States /\ writer[c].level = 3 /\ writer[c].bytes \in Sizes
    BY <1>1 DEF Shape, WritersOK, Types
  <1>3. w \in States /\ w.stage = g /\ w.bytes = writer[c].bytes /\ w.level = 3
    BY <1>2, <1>w, StageMoves DEF Stages
  <1>4. slots[c] \in Nat /\ slots'[c] = slots[c] + 1 /\ \A d \in Conns \ {c} : slots'[d] = slots[d]
    BY <1>0, <1>1 DEF Types
  <1>5. Types'
    BY <1>0, <1>1, <1>3, <1>4 DEF Types
  <1>6. Shape'
    <2>1. /\ w.stage \in {"select", "slotBack", "write", "complete", "fail", "exit", "gone"}
          /\ w.level = 3 /\ w.level \in 1 .. 3 /\ w.bytes \in Sizes /\ w.stage # "gone"
          /\ writer[c].stage # "idle"
      BY <1>1, <1>2, <1>3
    <2>2. \A d \in Conns : queue'[d] = queue[d]
      BY <1>1
    <2> QED
      BY <1>1, <1>5, <2>1, <2>2, WriterShape
  <1>7. SlotsConserved'
    <2>1. /\ \A d \in Conns \ {c} : SlotHolders(d)' = SlotHolders(d)
          /\ "writer" \in SlotHolders(c)
          /\ SlotHolders(c)' = SlotHolders(c) \ {"writer"}
      BY <1>1, <1>3, WriterHolders
    <2>2. slots'[c] + Len(queue'[c]) = slots[c] + Len(queue[c]) + 1
          /\ \A d \in Conns \ {c} : queue'[d] = queue[d]
      <3>1. Len(queue[c]) \in Nat
        BY <1>1 DEF Types
      <3> QED
        BY <1>1, <1>4, <3>1
    <2> QED
      BY <1>1, <1>4, <1>5, <2>1, <2>2, SlotGiven
  <1>8. ASSUME NEW l \in Levels
        PROVE  \A d \in Conns : Charge(l, d)' = Charge(l, d)
    <2>1. UNCHANGED <<sender, closer, queueMu, queue>>
      BY <1>1
    <2>2. /\ \A d \in Conns \ {c} : Charge(l, d)' = Charge(l, d)
          /\ Charge(l, c)' = Charge(l, c) - (Sum(queue[c]) + Returning(l, writer[c]))
                                          + (Sum(queue'[c]) + Returning(l, w))
          /\ Sum(queue[c]) \in Nat /\ Returning(l, w) \in Nat /\ Charge(l, c) \in Nat
      BY <1>1, <1>5, <2>1, WriterCharges
    <2>3. Returning(l, writer[c]) = Returning(l, w)
      BY <1>1, <1>2, <1>3 DEF Returning
    <2>4. Charge(l, c)' = Charge(l, c)
      BY <2>1, <2>2, <2>3
    <2> QED
      BY <2>2, <2>4
  <1>9. Budgets'
    BY <1>1, <1>8, BudgetsFrame
  <1> QED
    BY <1>6, <1>7, <1>9 DEF TransportInv

(* The steps of a writer that touch neither slots nor budgets.             *)
LEMMA WriterIdles ==
  ASSUME TransportInv, NEW c \in Conns, NEW w \in States, writer' = [writer EXCEPT ![c] = w],
         UNCHANGED <<phase, ip, slots, queue, closed, queueMu, connUsed, usage, global, sender,
                     closer, reader>>,
         writer[c].stage \notin {"idle", "slotBack"},
         w.stage \in {"select", "write", "complete", "fail", "exit", "gone"},
         w.stage = "write" => w.level = 3,
         w.stage \in {"complete", "fail"} => w.level \in 1 .. 3,
         w.stage \in {"write", "complete", "fail"} => w.bytes \in Sizes,
         w.stage = "gone" => closer[c].stage = "done",
         \A l \in Levels : Returning(l, w) = Returning(l, writer[c])
  PROVE  TransportInv'
  <1>1. Shape /\ SlotsConserved /\ Budgets /\ Types
    BY DEF TransportInv, Shape
  <1>2. Types'
    BY <1>1 DEF Types
  <1>3. Shape'
    BY <1>1, <1>2, WriterShape
  <1>4. SlotsConserved'
    <2>1. /\ \A d \in Conns \ {c} : SlotHolders(d)' = SlotHolders(d)
          /\ "writer" \notin SlotHolders(c)
          /\ SlotHolders(c)' = SlotHolders(c) \ {"writer"}
      BY <1>1, WriterHolders
    <2>2. SlotHolders(c)' = SlotHolders(c)
      BY <2>1
    <2> QED
      BY <1>1, <1>2, <2>1, <2>2 DEF SlotsConserved
  <1>5. ASSUME NEW l \in Levels
        PROVE  \A d \in Conns : Charge(l, d)' = Charge(l, d)
    <2>1. UNCHANGED <<sender, closer, queueMu, queue>>
      OBVIOUS
    <2>2. /\ \A d \in Conns \ {c} : Charge(l, d)' = Charge(l, d)
          /\ Charge(l, c)' = Charge(l, c) - (Sum(queue[c]) + Returning(l, writer[c]))
                                          + (Sum(queue'[c]) + Returning(l, w))
          /\ Sum(queue[c]) \in Nat /\ Returning(l, w) \in Nat /\ Charge(l, c) \in Nat
      BY <1>1, <1>2, <2>1, WriterCharges
    <2>3. Charge(l, c)' = Charge(l, c)
      BY <2>1, <2>2
    <2> QED
      BY <2>2, <2>3
  <1>6. Budgets'
    BY <1>1, <1>5, BudgetsFrame
  <1> QED
    BY <1>3, <1>4, <1>6 DEF TransportInv

LEMMA WriterWriteKeeps ==
  ASSUME TransportInv, NEW c \in Conns, WriterWrite(c)
  PROVE  TransportInv'
  <1>g. PICK g \in {"complete", "fail"} : writer' = [writer EXCEPT ![c].stage = g]
    BY DEF WriterWrite
  <1>w. PICK w : w = [writer[c] EXCEPT !.stage = g]
    OBVIOUS
  <1>1. /\ writer[c].stage = "write" /\ writer' = [writer EXCEPT ![c] = w]
        /\ UNCHANGED <<phase, ip, slots, queue, closed, queueMu, connUsed, usage, global, sender,
                       closer, reader>>
    BY <1>g, <1>w DEF WriterWrite, budgetVars
  <1>2. writer[c] \in States /\ writer[c].level = 3 /\ writer[c].bytes \in Sizes
    BY <1>1 DEF TransportInv, Shape, WritersOK, Types
  <1>3. w \in States /\ w.stage = g /\ w.bytes = writer[c].bytes /\ w.level = 3
    BY <1>2, <1>w, StageMoves DEF Stages
  <1>4. \A l \in Levels : Returning(l, w) = Returning(l, writer[c])
    BY <1>1, <1>2, <1>3 DEF Returning
  <1>5. /\ w.stage \in {"select", "write", "complete", "fail", "exit", "gone"}
        /\ w.stage # "write" /\ w.stage # "gone" /\ w.level \in 1 .. 3 /\ w.bytes \in Sizes
        /\ writer[c].stage \notin {"idle", "slotBack"}
    BY <1>1, <1>2, <1>3
  <1> QED
    BY <1>1, <1>3, <1>4, <1>5, WriterIdles

LEMMA StopWritingKeeps ==
  ASSUME TransportInv, NEW c \in Conns, StopWriting(c)
  PROVE  TransportInv'
  <1>w. PICK w : w = [writer[c] EXCEPT !.stage = "exit"]
    OBVIOUS
  <1>1. /\ writer[c].stage = "select" /\ writer' = [writer EXCEPT ![c] = w]
        /\ UNCHANGED <<phase, ip, slots, queue, closed, queueMu, connUsed, usage, global, sender,
                       closer, reader>>
    BY <1>w DEF StopWriting, budgetVars
  <1>2. writer[c] \in States
    BY DEF TransportInv, Shape, Types
  <1>3. w \in States /\ w.stage = "exit"
    BY <1>2, <1>w, StageMoves DEF Stages
  <1>4. \A l \in Levels : Returning(l, w) = Returning(l, writer[c])
    BY <1>1, <1>3 DEF Returning
  <1> QED
    BY <1>1, <1>3, <1>4, WriterIdles

LEMMA WriterExitKeeps ==
  ASSUME TransportInv, NEW c \in Conns, WriterExit(c)
  PROVE  TransportInv'
  <1>w. PICK w : w = [writer[c] EXCEPT !.stage = "gone"]
    OBVIOUS
  <1>1. /\ writer[c].stage = "exit" /\ closer[c].stage = "done" /\ writer' = [writer EXCEPT ![c] = w]
        /\ UNCHANGED <<phase, ip, slots, queue, closed, queueMu, connUsed, usage, global, sender,
                       closer, reader>>
    BY <1>w DEF WriterExit, budgetVars
  <1>2. writer[c] \in States
    BY DEF TransportInv, Shape, Types
  <1>3. w \in States /\ w.stage = "gone"
    BY <1>2, <1>w, StageMoves DEF Stages
  <1>4. \A l \in Levels : Returning(l, w) = Returning(l, writer[c])
    BY <1>1, <1>3 DEF Returning
  <1> QED
    BY <1>1, <1>3, <1>4, WriterIdles

LEMMA WriterReleaseKeeps ==
  ASSUME TransportInv, NEW c \in Conns, WriterRelease(c)
  PROVE  TransportInv'
  <1>0. writer[c].level \in 1 .. 3 /\ writer[c].bytes \in Sizes
    BY DEF TransportInv, Shape, WritersOK, WriterRelease
  <1>k. PICK k \in 1 .. 3 : k = writer[c].level
    BY <1>0
  <1>b. PICK b \in Sizes : b = writer[c].bytes
    BY <1>0
  <1>g. PICK g \in {"exit", "select"} : g = IF writer[c].stage = "fail" THEN "exit" ELSE "select"
    OBVIOUS
  <1>w. PICK w : w = IF k > 1 THEN [writer[c] EXCEPT !.level = k - 1] ELSE At(g, c, 0, 0)
    OBVIOUS
  <1>1. /\ Shape /\ SlotsConserved /\ Budgets /\ Types
        /\ writer[c].stage \in {"complete", "fail"} /\ Release(c, k, b)
        /\ UNCHANGED <<phase, ip, slots, queue, closed, queueMu, sender, closer, reader>>
    BY <1>k, <1>b DEF TransportInv, Shape, WriterRelease
  <1>2. writer' = [writer EXCEPT ![c] = w]
    BY <1>k, <1>g, <1>w DEF WriterRelease
  <1>3. writer[c] \in States /\ phase[c] \in Known
    BY <1>1 DEF Shape, Types, ConnsOK
  <1>4. ip[c] \in IPs /\ b \in Nat /\ b > 0 /\ k \in Levels
    BY <1>1, <1>3, Limits DEF Shape, ConnsOK, Levels
  <1>5. /\ w \in States /\ w.stage \in {"select", "exit", "complete", "fail"}
        /\ w.stage \in {"complete", "fail"} => w.level \in 1 .. 3 /\ w.bytes \in Sizes
        /\ \A l \in Levels : /\ Returning(l, writer[c]) = IF l <= k THEN b ELSE 0
                             /\ Returning(l, w) = IF l < k THEN b ELSE 0
    <2>1. \A l \in Levels : Returning(l, writer[c]) = IF l <= k THEN b ELSE 0
      BY <1>1, <1>k, <1>b DEF Returning, Levels
    <2>2. CASE k > 1
      <3>1. k - 1 \in 0 .. 3 /\ w = [writer[c] EXCEPT !.level = k - 1]
        BY <2>2, <1>w
      <3>2. w \in States /\ w.stage = writer[c].stage /\ w.bytes = b /\ w.level = k - 1
        BY <1>3, <1>b, <3>1, LevelMoves
      <3>3. \A l \in Levels : Returning(l, w) = IF l < k THEN b ELSE 0
        BY <1>1, <3>2 DEF Returning, Levels
      <3>4. w.stage \in {"complete", "fail"} /\ w.level \in 1 .. 3
        BY <1>1, <2>2, <3>2
      <3> QED
        BY <2>1, <3>2, <3>3, <3>4
    <2>3. CASE k = 1
      <3>1. w = At(g, c, 0, 0) /\ g \in Stages
        BY <2>3, <1>w DEF Stages
      <3>2. w \in States /\ w.stage = g
        BY <3>1, AtTyped
      <3>3. \A l \in Levels : Returning(l, w) = IF l < k THEN b ELSE 0
        BY <2>3, <3>2 DEF Returning, Levels
      <3> QED
        BY <2>1, <3>2, <3>3
    <2> QED
      BY <2>2, <2>3
  <1>6. Types' /\ b <= Charge(k, c)
    <2>1. b <= Charge(k, c)
      <3>1. Returning(k, writer[c]) = b
        BY <1>4, <1>5
      <3>2. /\ Sum(queue[c]) \in Nat /\ Sending(k, c) \in Nat
            /\ Returning(k, closer[c]) \in Nat
        BY <1>1, <1>4, ChargeNat
      <3> QED
        BY <1>4, <3>1, <3>2 DEF Charge
    <2>2. BudgetTypes'
      BY <1>1, <1>4, <2>1, ReleaseEffect
    <2>3. writer' \in [Conns -> States]
      BY <1>1, <1>2, <1>5 DEF Types
    <2> QED
      BY <1>1, <2>1, <2>2, <2>3 DEF Types, BudgetTypes
  <1>7. Shape'
    <2>1. \A d \in Conns : queue'[d] = queue[d]
      BY <1>1
    <2>2. /\ w.stage \in {"select", "slotBack", "write", "complete", "fail", "exit", "gone"}
          /\ w.stage \notin {"slotBack", "write", "gone"} /\ writer[c].stage # "idle"
      BY <1>1, <1>5
    <2> QED
      BY <1>1, <1>2, <1>5, <1>6, <2>1, <2>2, WriterShape
  <1>8. SlotsConserved'
    <2>1. writer[c].stage # "slotBack" /\ w.stage # "slotBack" /\ UNCHANGED <<sender, closer>>
      BY <1>1, <1>5
    <2>2. /\ \A d \in Conns \ {c} : SlotHolders(d)' = SlotHolders(d)
          /\ "writer" \notin SlotHolders(c)
          /\ SlotHolders(c)' = SlotHolders(c) \ {"writer"}
      BY <1>1, <1>2, <2>1, WriterHolders
    <2>3. SlotHolders(c)' = SlotHolders(c)
      BY <2>2
    <2> QED
      BY <1>1, <2>2, <2>3 DEF SlotsConserved
  <1>9. ASSUME NEW l \in Levels
        PROVE  /\ \A d \in Conns \ {c} : Charge(l, d)' = Charge(l, d)
               /\ Charge(l, c)' = IF l = k THEN Charge(l, c) - b ELSE Charge(l, c)
    <2>1. UNCHANGED <<sender, closer, queueMu, queue>>
      BY <1>1
    <2>2. /\ \A d \in Conns \ {c} : Charge(l, d)' = Charge(l, d)
          /\ Charge(l, c)' = Charge(l, c) - (Sum(queue[c]) + Returning(l, writer[c]))
                                          + (Sum(queue'[c]) + Returning(l, w))
          /\ Sum(queue[c]) \in Nat /\ Charge(l, c) \in Nat
      BY <1>1, <1>2, <1>6, <2>1, WriterCharges
    <2>3. l \in 1 .. 3
      BY DEF Levels
    <2> QED
      BY <1>4, <1>5, <2>1, <2>2, <2>3
  <1>10. \A l \in Levels, d \in Conns :
            Charge(l, d)' = IF l = k /\ d = c THEN Charge(l, d) - b ELSE Charge(l, d)
    BY <1>9
  <1>11. Budgets'
    BY <1>1, <1>4, <1>6, <1>10, ReleaseBudgets
  <1> QED
    BY <1>7, <1>8, <1>11 DEF TransportInv

LEMMA CloseStartKeeps ==
  ASSUME TransportInv, NEW c \in Conns, CloseStart(c)
  PROVE  TransportInv'
  <1>k. PICK k : k = At("drain", c, 0, 0)
    OBVIOUS
  <1>0. queueMu' = [queueMu EXCEPT ![c] = "closer"] /\ closed' = closed \cup {c}
    BY DEF CloseStart
  <1>1. /\ Shape /\ SlotsConserved /\ Budgets /\ Types /\ phase[c] = "open"
        /\ closer[c].stage = "idle" /\ queueMu[c] = Nil /\ closer' = [closer EXCEPT ![c] = k]
        /\ UNCHANGED <<phase, ip, slots, queue, connUsed, usage, global, sender, writer, reader>>
    BY <1>k DEF TransportInv, Shape, CloseStart, budgetVars
  <1>2. k \in States /\ k.stage = "drain"
    BY <1>k, AtTyped DEF Stages
  <1>3. /\ closer'[c] = k /\ \A d \in Conns \ {c} : closer'[d] = closer[d]
        /\ queueMu'[c] = "closer" /\ \A d \in Conns \ {c} : queueMu'[d] = queueMu[d]
    BY <1>0, <1>1 DEF Types
  <1>4. Types'
    BY <1>0, <1>1, <1>2 DEF Types
  <1>5. SendersOK'
    <2>1. \A t \in Senders : sender[t].stage \in Critical => sender[t].conn \in Conns
      BY <1>1 DEF Shape, SendersOK, Critical
    <2>2. \A t \in Senders : sender[t].stage \in Critical => sender[t].conn # c
      BY <1>1, Limits DEF Shape, SendersOK
    <2>3. \A t \in Senders : sender[t].stage \in Critical =>
                queueMu'[sender[t].conn] = t /\ sender[t].conn \notin closed'
      BY <1>0, <1>1, <1>3, <2>1, <2>2 DEF Shape, SendersOK
    <2> QED
      BY <1>1, <2>3 DEF Shape, SendersOK
  <1>6. MutexOK'
    BY <1>0, <1>1, <1>2, <1>3, Limits DEF Shape, MutexOK
  <1>7. ClosersOK' /\ WritersOK' /\ ConnsOK'
    BY <1>1, <1>2, <1>3 DEF Shape, ClosersOK, WritersOK, ConnsOK, Known
  <1>8. Shape'
    BY <1>4, <1>5, <1>6, <1>7 DEF Shape
  <1>9. SlotsConserved'
    <2>1. \A d \in Conns : SendersHolding(d)' = SendersHolding(d)
      BY <1>1 DEF SendersHolding
    <2>2. \A d \in Conns : OthersHolding(d)' = OthersHolding(d)
      BY <1>1, <1>2, <1>3 DEF OthersHolding
    <2>3. \A d \in Conns : SlotHolders(d)' = SlotHolders(d)
      BY <2>1, <2>2, Holders
    <2> QED
      BY <1>1, <2>3 DEF SlotsConserved
  <1>10. ASSUME NEW l \in Levels, NEW d \in Conns PROVE Charge(l, d)' = Charge(l, d)
    <2>1. Sending(l, d)' = Sending(l, d)
      BY <1>1, <1>3, Limits DEF Sending
    <2>2. Returning(l, closer'[d]) = Returning(l, closer[d])
      BY <1>1, <1>2, <1>3 DEF Returning
    <2> QED
      BY <1>1, <2>1, <2>2 DEF Charge
  <1>11. Budgets'
    BY <1>1, <1>10, BudgetsFrame
  <1> QED
    BY <1>8, <1>9, <1>11 DEF TransportInv

(* The shape of a closer's step: it holds queueMu until it is done.        *)
LEMMA CloserShape ==
  ASSUME Shape, Types', NEW c \in Conns, NEW k, closer' = [closer EXCEPT ![c] = k],
         UNCHANGED <<phase, ip, closed, sender, writer, reader>>,
         closer[c].stage \in {"drain", "slotBack", "release"},
         k.stage \in {"drain", "slotBack", "release", "done"},
         \A d \in Conns \ {c} : queue'[d] = queue[d] /\ queueMu'[d] = queueMu[d],
         k.stage # "done" => queueMu'[c] = queueMu[c],
         k.stage = "done" => queueMu'[c] = Nil /\ queue'[c] = <<>>,
         k.stage = "slotBack" => k.level = 3, k.stage = "release" => k.level \in 1 .. 3,
         k.stage \in {"slotBack", "release"} => k.bytes \in Sizes
  PROVE  Shape'
  <1>1. closer'[c] = k /\ \A d \in Conns \ {c} : closer'[d] = closer[d]
    BY DEF Shape, Types
  <1>2. queueMu[c] = "closer" /\ phase[c] = "open"
    BY DEF Shape, MutexOK, ClosersOK
  <1>3. SendersOK'
    <2>1. \A t \in Senders : sender[t].stage \in Critical =>
             sender[t].conn \in Conns /\ queueMu[sender[t].conn] = t
      BY DEF Shape, SendersOK, Critical
    <2>2. \A t \in Senders : sender[t].stage \in Critical => sender[t].conn # c
      BY <1>2, <2>1, Limits
    <2>3. \A t \in Senders : sender[t].stage \in Critical => queueMu'[sender[t].conn] = t
      BY <2>1, <2>2
    <2> QED
      BY <2>3 DEF Shape, SendersOK
  <1>4. MutexOK'
    <2>1. queueMu'[c] = "closer" <=> k.stage \in {"drain", "slotBack", "release"}
      BY <1>2, Limits
    <2>2. queueMu'[c] \notin Senders
      BY <1>2, Limits
    <2>3. c \in closed /\ k.stage # "idle"
      BY DEF Shape, MutexOK
    <2> QED
      BY <1>1, <2>1, <2>2, <2>3 DEF Shape, MutexOK
  <1>5. ClosersOK'
    <2> SUFFICES ASSUME NEW d \in Conns
                 PROVE  /\ closer'[d].stage \in {"idle", "drain", "slotBack", "release", "done"}
                        /\ closer'[d].stage \in {"drain", "slotBack", "release"} => phase[d] = "open"
                        /\ closer'[d].stage = "done" => queue'[d] = <<>>
                        /\ closer'[d].stage = "slotBack" => closer'[d].level = 3
                        /\ closer'[d].stage = "release" => closer'[d].level \in 1 .. 3
                        /\ closer'[d].stage \in {"slotBack", "release"} => closer'[d].bytes \in Sizes
                        /\ phase[d] = "released" => closer'[d].stage = "done"
      BY DEF ClosersOK
    <2>1. CASE d = c
      BY <1>1, <1>2, <2>1
    <2>2. CASE d # c
      BY <1>1, <2>2 DEF Shape, ClosersOK
    <2> QED
      BY <2>1, <2>2
  <1>6. WritersOK'
    BY <1>1 DEF Shape, WritersOK
  <1>7. ConnsOK'
    BY <1>1, <1>2 DEF Shape, ConnsOK, Known
  <1> QED
    BY <1>3, <1>4, <1>5, <1>6, <1>7 DEF Shape

LEMMA CloserHolders ==
  ASSUME Types, NEW c \in Conns, NEW k, closer' = [closer EXCEPT ![c] = k],
         UNCHANGED <<sender, writer>>
  PROVE  /\ \A d \in Conns \ {c} : SlotHolders(d)' = SlotHolders(d)
         /\ "closer" \in SlotHolders(c) <=> closer[c].stage = "slotBack"
         /\ k.stage = "slotBack" => SlotHolders(c)' = SlotHolders(c) \cup {"closer"}
         /\ k.stage # "slotBack" => SlotHolders(c)' = SlotHolders(c) \ {"closer"}
  <1>1. closer'[c] = k /\ \A d \in Conns \ {c} : closer'[d] = closer[d]
    BY DEF Types
  <1>2. \A d \in Conns : SendersHolding(d)' = SendersHolding(d) /\ "closer" \notin SendersHolding(d)
    BY Limits DEF SendersHolding
  <1>3. \A d \in Conns : /\ SlotHolders(d) = SendersHolding(d) \cup OthersHolding(d)
                         /\ SlotHolders(d)' = SendersHolding(d) \cup OthersHolding(d)'
    BY <1>2, Holders
  <1>4. \A d \in Conns \ {c} : OthersHolding(d)' = OthersHolding(d)
    BY <1>1 DEF OthersHolding
  <1>5. "closer" \in OthersHolding(c) <=> closer[c].stage = "slotBack"
    BY DEF OthersHolding
  <1>6. k.stage = "slotBack" => OthersHolding(c)' = OthersHolding(c) \cup {"closer"}
    BY <1>1 DEF OthersHolding
  <1>7. k.stage # "slotBack" => OthersHolding(c)' = OthersHolding(c) \ {"closer"}
    BY <1>1 DEF OthersHolding
  <1>8. \A d \in Conns \ {c} : SlotHolders(d)' = SlotHolders(d)
    BY <1>3, <1>4
  <1>9. "closer" \in SlotHolders(c) <=> closer[c].stage = "slotBack"
    BY <1>2, <1>3, <1>5
  <1>10. k.stage = "slotBack" => SlotHolders(c)' = SlotHolders(c) \cup {"closer"}
    BY <1>3, <1>6
  <1>11. k.stage # "slotBack" => SlotHolders(c)' = SlotHolders(c) \ {"closer"}
    BY <1>2, <1>3, <1>7
  <1> QED
    BY <1>8, <1>9, <1>10, <1>11

LEMMA CloserCharges ==
  ASSUME Types, Types', NEW c \in Conns, NEW k, closer' = [closer EXCEPT ![c] = k],
         UNCHANGED <<sender, writer>>, queueMu[c] \notin Senders, queueMu'[c] \notin Senders,
         \A d \in Conns \ {c} : queue'[d] = queue[d] /\ queueMu'[d] = queueMu[d], NEW l \in Levels
  PROVE  /\ \A d \in Conns \ {c} : Charge(l, d)' = Charge(l, d)
         /\ Charge(l, c)' = Charge(l, c) - (Sum(queue[c]) + Returning(l, closer[c]))
                                         + (Sum(queue'[c]) + Returning(l, k))
         /\ Sum(queue[c]) \in Nat /\ Sum(queue'[c]) \in Nat
         /\ Returning(l, closer[c]) \in Nat /\ Returning(l, k) \in Nat
         /\ Returning(l, closer[c]) <= Charge(l, c) /\ Charge(l, c) \in Nat
  <1>1. closer'[c] = k /\ \A d \in Conns \ {c} : closer'[d] = closer[d]
    BY DEF Types
  <1>2. \A d \in Conns : Sending(l, d)' = Sending(l, d)
    BY DEF Sending
  <1>3. \A d \in Conns \ {c} : Charge(l, d)' = Charge(l, d)
    BY <1>1, <1>2 DEF Charge
  <1>4. /\ Charge(l, c) \in Nat /\ Sum(queue[c]) \in Nat
        /\ Returning(l, writer[c]) \in Nat /\ Returning(l, closer[c]) \in Nat
        /\ Sending(l, c) \in Nat
    BY ChargeNat
  <1>5. Sum(queue'[c]) \in Nat /\ Returning(l, k) \in Nat
    <2>1. queue'[c] \in Seq(Sizes) /\ k \in States
      BY <1>1 DEF Types
    <2> QED
      BY <2>1, QueueSum DEF Returning, States
  <1>6. /\ Charge(l, c) = Sum(queue[c]) + Returning(l, writer[c]) + Returning(l, closer[c])
                            + Sending(l, c)
        /\ Charge(l, c)' = Sum(queue'[c]) + Returning(l, writer[c]) + Returning(l, k)
                            + Sending(l, c)
    BY <1>1, <1>2 DEF Charge
  <1> QED
    BY <1>3, <1>4, <1>5, <1>6

LEMMA CloseDrainKeeps ==
  ASSUME TransportInv, NEW c \in Conns, CloseDrain(c)
  PROVE  TransportInv'
  <1>0. /\ closer' = [closer EXCEPT ![c] = At("slotBack", c, Head(queue[c]), 3)]
        /\ queue' = [queue EXCEPT ![c] = Tail(@)]
    BY DEF CloseDrain
  <1>1. /\ Shape /\ SlotsConserved /\ Budgets /\ Types /\ closer[c].stage = "drain"
        /\ queue[c] # <<>>
        /\ UNCHANGED <<phase, ip, slots, closed, queueMu, connUsed, usage, global, sender,
                       writer, reader>>
    BY DEF TransportInv, Shape, CloseDrain, budgetVars
  <1>2. /\ queue[c] \in Seq(Sizes) /\ Head(queue[c]) \in Sizes /\ Tail(queue[c]) \in Seq(Sizes)
        /\ Len(queue[c]) \in Nat /\ Len(Tail(queue[c])) = Len(queue[c]) - 1
    BY <1>1 DEF Types
  <1>b. PICK b \in Sizes : b = Head(queue[c])
    BY <1>2
  <1>k. PICK k : k = At("slotBack", c, b, 3)
    OBVIOUS
  <1>3. b \in Nat
    BY Limits
  <1>4. k \in States /\ k.stage = "slotBack" /\ k.bytes = b /\ k.level = 3
    BY <1>3, <1>k, AtTyped DEF Stages
  <1>5. closer' = [closer EXCEPT ![c] = k] /\ queue'[c] = Tail(queue[c])
        /\ \A d \in Conns \ {c} : queue'[d] = queue[d]
    BY <1>0, <1>1, <1>b, <1>k DEF Types
  <1>6. Types'
    BY <1>0, <1>1, <1>2, <1>4, <1>5 DEF Types
  <1>7. Shape'
    BY <1>1, <1>4, <1>5, <1>6, CloserShape
  <1>8. SlotsConserved'
    <2>1. /\ \A d \in Conns \ {c} : SlotHolders(d)' = SlotHolders(d)
          /\ "closer" \notin SlotHolders(c)
          /\ SlotHolders(c)' = SlotHolders(c) \cup {"closer"}
      BY <1>1, <1>4, <1>5, CloserHolders
    <2>2. slots'[c] + Len(queue'[c]) + 1 = slots[c] + Len(queue[c])
          /\ \A d \in Conns \ {c} : slots'[d] = slots[d]
      <3>1. slots[c] \in Nat
        BY <1>1 DEF Types
      <3> QED
        BY <1>1, <1>2, <1>5, <3>1
    <2> QED
      BY <1>1, <1>5, <1>6, <2>1, <2>2, SlotTaken
  <1>9. queueMu[c] \notin Senders /\ queueMu'[c] \notin Senders
    BY <1>1, Limits DEF Shape, MutexOK
  <1>10. ASSUME NEW l \in Levels
         PROVE  \A d \in Conns : Charge(l, d)' = Charge(l, d)
    <2>1. UNCHANGED <<sender, writer>> /\ \A d \in Conns \ {c} : queueMu'[d] = queueMu[d]
      BY <1>1
    <2>2. /\ \A d \in Conns \ {c} : Charge(l, d)' = Charge(l, d)
          /\ Charge(l, c)' = Charge(l, c) - (Sum(queue[c]) + Returning(l, closer[c]))
                                          + (Sum(queue'[c]) + Returning(l, k))
          /\ Sum(queue[c]) \in Nat /\ Sum(queue'[c]) \in Nat /\ Charge(l, c) \in Nat
      BY <1>1, <1>5, <1>6, <1>9, <2>1, CloserCharges
    <2>3. Returning(l, closer[c]) = 0 /\ Returning(l, k) = b
      BY <1>1, <1>4 DEF Returning, Levels
    <2>4. Sum(queue[c]) = Sum(queue'[c]) + b
      <3>1. queue[c] \in Seq(Nat)
        BY <1>2, QueueSum
      <3> QED
        BY <1>1, <1>5, <1>b, <3>1, SumTail
    <2>5. Charge(l, c)' = Charge(l, c)
      BY <1>3, <2>2, <2>3, <2>4
    <2> QED
      BY <2>2, <2>5
  <1>11. Budgets'
    BY <1>1, <1>10, BudgetsFrame
  <1> QED
    BY <1>7, <1>8, <1>11 DEF TransportInv

LEMMA CloseSlotBackKeeps ==
  ASSUME TransportInv, NEW c \in Conns, CloseSlotBack(c)
  PROVE  TransportInv'
  <1>k. PICK k : k = [closer[c] EXCEPT !.stage = "release"]
    OBVIOUS
  <1>0. slots' = [slots EXCEPT ![c] = @ + 1]
    BY DEF CloseSlotBack
  <1>1. /\ Shape /\ SlotsConserved /\ Budgets /\ Types /\ closer[c].stage = "slotBack"
        /\ closer' = [closer EXCEPT ![c] = k]
        /\ UNCHANGED <<phase, ip, queue, closed, queueMu, connUsed, usage, global, sender,
                       writer, reader>>
    BY <1>k DEF TransportInv, Shape, CloseSlotBack, budgetVars
  <1>2. closer[c] \in States /\ closer[c].level = 3 /\ closer[c].bytes \in Sizes
    BY <1>1 DEF Shape, ClosersOK, Types
  <1>3. k \in States /\ k.stage = "release" /\ k.bytes = closer[c].bytes /\ k.level = 3
    BY <1>2, <1>k, StageMoves DEF Stages
  <1>4. slots[c] \in Nat /\ slots'[c] = slots[c] + 1 /\ \A d \in Conns \ {c} : slots'[d] = slots[d]
    BY <1>0, <1>1 DEF Types
  <1>5. Types'
    BY <1>0, <1>1, <1>3, <1>4 DEF Types
  <1>6. Shape'
    <2>1. /\ k.stage \in {"drain", "slotBack", "release", "done"} /\ k.stage # "done"
          /\ k.level \in 1 .. 3 /\ k.stage # "slotBack" /\ k.bytes \in Sizes
          /\ closer[c].stage \in {"drain", "slotBack", "release"}
      BY <1>1, <1>2, <1>3
    <2>2. \A d \in Conns : queue'[d] = queue[d] /\ queueMu'[d] = queueMu[d]
      BY <1>1
    <2> QED
      BY <1>1, <1>5, <2>1, <2>2, CloserShape
  <1>7. SlotsConserved'
    <2>1. /\ \A d \in Conns \ {c} : SlotHolders(d)' = SlotHolders(d)
          /\ "closer" \in SlotHolders(c)
          /\ SlotHolders(c)' = SlotHolders(c) \ {"closer"}
      BY <1>1, <1>3, CloserHolders
    <2>2. slots'[c] + Len(queue'[c]) = slots[c] + Len(queue[c]) + 1
          /\ \A d \in Conns \ {c} : queue'[d] = queue[d]
      <3>1. Len(queue[c]) \in Nat
        BY <1>1 DEF Types
      <3> QED
        BY <1>1, <1>4, <3>1
    <2> QED
      BY <1>1, <1>4, <1>5, <2>1, <2>2, SlotGiven
  <1>8. queueMu[c] \notin Senders /\ queueMu'[c] \notin Senders
    BY <1>1, Limits DEF Shape, MutexOK
  <1>9. ASSUME NEW l \in Levels
        PROVE  \A d \in Conns : Charge(l, d)' = Charge(l, d)
    <2>1. UNCHANGED <<sender, writer, queue>> /\ \A d \in Conns \ {c} : queueMu'[d] = queueMu[d]
      BY <1>1
    <2>2. /\ \A d \in Conns \ {c} : Charge(l, d)' = Charge(l, d)
          /\ Charge(l, c)' = Charge(l, c) - (Sum(queue[c]) + Returning(l, closer[c]))
                                          + (Sum(queue'[c]) + Returning(l, k))
          /\ Sum(queue[c]) \in Nat /\ Returning(l, k) \in Nat /\ Charge(l, c) \in Nat
      BY <1>1, <1>5, <1>8, <2>1, CloserCharges
    <2>3. Returning(l, closer[c]) = Returning(l, k)
      BY <1>1, <1>2, <1>3 DEF Returning
    <2>4. Charge(l, c)' = Charge(l, c)
      BY <2>1, <2>2, <2>3
    <2> QED
      BY <2>2, <2>4
  <1>10. Budgets'
    BY <1>1, <1>9, BudgetsFrame
  <1> QED
    BY <1>6, <1>7, <1>10 DEF TransportInv

LEMMA CloseReleaseKeeps ==
  ASSUME TransportInv, NEW c \in Conns, CloseRelease(c)
  PROVE  TransportInv'
  <1>0. closer[c].level \in 1 .. 3 /\ closer[c].bytes \in Sizes
    BY DEF TransportInv, Shape, ClosersOK, CloseRelease
  <1>n. PICK n \in 1 .. 3 : n = closer[c].level
    BY <1>0
  <1>b. PICK b \in Sizes : b = closer[c].bytes
    BY <1>0
  <1>k. PICK k : k = IF n > 1 THEN [closer[c] EXCEPT !.level = n - 1] ELSE At("drain", c, 0, 0)
    OBVIOUS
  <1>1. /\ Shape /\ SlotsConserved /\ Budgets /\ Types
        /\ closer[c].stage = "release" /\ Release(c, n, b)
        /\ UNCHANGED <<phase, ip, slots, queue, closed, queueMu, sender, writer, reader>>
    BY <1>n, <1>b DEF TransportInv, Shape, CloseRelease
  <1>2. closer' = [closer EXCEPT ![c] = k]
    BY <1>n, <1>k DEF CloseRelease
  <1>3. closer[c] \in States /\ phase[c] \in Known
    BY <1>1 DEF Shape, Types, ClosersOK, Known
  <1>4. ip[c] \in IPs /\ b \in Nat /\ b > 0 /\ n \in Levels
    BY <1>1, <1>3, Limits DEF Shape, ConnsOK, Levels
  <1>5. /\ k \in States /\ k.stage \in {"drain", "release"}
        /\ k.stage = "release" => k.level \in 1 .. 3 /\ k.bytes \in Sizes
        /\ \A l \in Levels : /\ Returning(l, closer[c]) = IF l <= n THEN b ELSE 0
                             /\ Returning(l, k) = IF l < n THEN b ELSE 0
    <2>1. \A l \in Levels : Returning(l, closer[c]) = IF l <= n THEN b ELSE 0
      BY <1>1, <1>n, <1>b DEF Returning, Levels
    <2>2. CASE n > 1
      <3>1. n - 1 \in 0 .. 3 /\ k = [closer[c] EXCEPT !.level = n - 1]
        BY <2>2, <1>k
      <3>2. k \in States /\ k.stage = closer[c].stage /\ k.bytes = b /\ k.level = n - 1
        BY <1>3, <1>b, <3>1, LevelMoves
      <3>3. \A l \in Levels : Returning(l, k) = IF l < n THEN b ELSE 0
        BY <1>1, <3>2 DEF Returning, Levels
      <3>4. k.stage = "release" /\ k.level \in 1 .. 3
        BY <1>1, <2>2, <3>2
      <3> QED
        BY <2>1, <3>2, <3>3, <3>4
    <2>3. CASE n = 1
      <3>1. k = At("drain", c, 0, 0)
        BY <2>3, <1>k
      <3>2. k \in States /\ k.stage = "drain"
        BY <3>1, AtTyped DEF Stages
      <3>3. \A l \in Levels : Returning(l, k) = IF l < n THEN b ELSE 0
        BY <2>3, <3>2 DEF Returning, Levels
      <3> QED
        BY <2>1, <3>2, <3>3
    <2> QED
      BY <2>2, <2>3
  <1>6. Types' /\ b <= Charge(n, c)
    <2>1. b <= Charge(n, c)
      <3>1. Returning(n, closer[c]) = b
        BY <1>4, <1>5
      <3>2. /\ Sum(queue[c]) \in Nat /\ Sending(n, c) \in Nat
            /\ Returning(n, writer[c]) \in Nat
        BY <1>1, <1>4, ChargeNat
      <3> QED
        BY <1>4, <3>1, <3>2 DEF Charge
    <2>2. BudgetTypes'
      BY <1>1, <1>4, <2>1, ReleaseEffect
    <2>3. closer' \in [Conns -> States]
      BY <1>1, <1>2, <1>5 DEF Types
    <2> QED
      BY <1>1, <2>1, <2>2, <2>3 DEF Types, BudgetTypes
  <1>7. Shape'
    <2>1. /\ k.stage \in {"drain", "slotBack", "release", "done"}
          /\ k.stage \notin {"slotBack", "done"}
          /\ closer[c].stage \in {"drain", "slotBack", "release"}
      BY <1>1, <1>5
    <2>2. \A d \in Conns : queue'[d] = queue[d] /\ queueMu'[d] = queueMu[d]
      BY <1>1
    <2> QED
      BY <1>1, <1>2, <1>5, <1>6, <2>1, <2>2, CloserShape
  <1>8. SlotsConserved'
    <2>1. closer[c].stage # "slotBack" /\ k.stage # "slotBack" /\ UNCHANGED <<sender, writer>>
      BY <1>1, <1>5
    <2>2. /\ \A d \in Conns \ {c} : SlotHolders(d)' = SlotHolders(d)
          /\ "closer" \notin SlotHolders(c)
          /\ SlotHolders(c)' = SlotHolders(c) \ {"closer"}
      BY <1>1, <1>2, <2>1, CloserHolders
    <2>3. SlotHolders(c)' = SlotHolders(c)
      BY <2>2
    <2> QED
      BY <1>1, <2>2, <2>3 DEF SlotsConserved
  <1>9. queueMu[c] \notin Senders /\ queueMu'[c] \notin Senders
    BY <1>1, Limits DEF Shape, MutexOK
  <1>10. ASSUME NEW l \in Levels
         PROVE  /\ \A d \in Conns \ {c} : Charge(l, d)' = Charge(l, d)
                /\ Charge(l, c)' = IF l = n THEN Charge(l, c) - b ELSE Charge(l, c)
    <2>1. UNCHANGED <<sender, writer, queue>> /\ \A d \in Conns \ {c} : queueMu'[d] = queueMu[d]
      BY <1>1
    <2>2. /\ \A d \in Conns \ {c} : Charge(l, d)' = Charge(l, d)
          /\ Charge(l, c)' = Charge(l, c) - (Sum(queue[c]) + Returning(l, closer[c]))
                                          + (Sum(queue'[c]) + Returning(l, k))
          /\ Sum(queue[c]) \in Nat /\ Charge(l, c) \in Nat
      BY <1>1, <1>2, <1>6, <1>9, <2>1, CloserCharges
    <2>3. l \in 1 .. 3
      BY DEF Levels
    <2> QED
      BY <1>4, <1>5, <2>1, <2>2, <2>3
  <1>11. \A l \in Levels, d \in Conns :
            Charge(l, d)' = IF l = n /\ d = c THEN Charge(l, d) - b ELSE Charge(l, d)
    BY <1>10
  <1>12. Budgets'
    BY <1>1, <1>4, <1>6, <1>11, ReleaseBudgets
  <1> QED
    BY <1>7, <1>8, <1>12 DEF TransportInv

LEMMA CloseDoneKeeps ==
  ASSUME TransportInv, NEW c \in Conns, CloseDone(c)
  PROVE  TransportInv'
  <1>k. PICK k : k = [closer[c] EXCEPT !.stage = "done"]
    OBVIOUS
  <1>0. queueMu' = [queueMu EXCEPT ![c] = Nil]
    BY DEF CloseDone
  <1>1. /\ Shape /\ SlotsConserved /\ Budgets /\ Types /\ closer[c].stage = "drain"
        /\ queue[c] = <<>> /\ closer' = [closer EXCEPT ![c] = k]
        /\ UNCHANGED <<phase, ip, slots, queue, closed, connUsed, usage, global, sender,
                       writer, reader>>
    BY <1>k DEF TransportInv, Shape, CloseDone, budgetVars
  <1>2. closer[c] \in States
    BY <1>1 DEF Types
  <1>3. k \in States /\ k.stage = "done"
    BY <1>2, <1>k, StageMoves DEF Stages
  <1>4. queueMu'[c] = Nil /\ \A d \in Conns \ {c} : queueMu'[d] = queueMu[d]
    BY <1>0, <1>1 DEF Types
  <1>5. Types'
    BY <1>0, <1>1, <1>3 DEF Types
  <1>6. Shape'
    <2>1. \A d \in Conns : queue'[d] = queue[d]
      BY <1>1
    <2> QED
      BY <1>1, <1>3, <1>4, <1>5, <2>1, CloserShape
  <1>7. SlotsConserved'
    <2>1. /\ \A d \in Conns \ {c} : SlotHolders(d)' = SlotHolders(d)
          /\ "closer" \notin SlotHolders(c)
          /\ SlotHolders(c)' = SlotHolders(c) \ {"closer"}
      BY <1>1, <1>3, CloserHolders
    <2>2. SlotHolders(c)' = SlotHolders(c)
      BY <2>1
    <2> QED
      BY <1>1, <2>1, <2>2 DEF SlotsConserved
  <1>8. queueMu[c] \notin Senders /\ queueMu'[c] \notin Senders
    BY <1>1, <1>4, Limits DEF Shape, MutexOK
  <1>9. ASSUME NEW l \in Levels
        PROVE  \A d \in Conns : Charge(l, d)' = Charge(l, d)
    <2>1. UNCHANGED <<sender, writer, queue>>
      BY <1>1
    <2>2. /\ \A d \in Conns \ {c} : Charge(l, d)' = Charge(l, d)
          /\ Charge(l, c)' = Charge(l, c) - (Sum(queue[c]) + Returning(l, closer[c]))
                                          + (Sum(queue'[c]) + Returning(l, k))
          /\ Sum(queue[c]) \in Nat /\ Returning(l, k) \in Nat /\ Charge(l, c) \in Nat
      BY <1>1, <1>4, <1>5, <1>8, <2>1, CloserCharges
    <2>3. Returning(l, closer[c]) = 0 /\ Returning(l, k) = 0
      BY <1>1, <1>3 DEF Returning
    <2>4. Charge(l, c)' = Charge(l, c)
      BY <2>1, <2>2, <2>3
    <2> QED
      BY <2>2, <2>4
  <1>10. Budgets'
    BY <1>1, <1>9, BudgetsFrame
  <1> QED
    BY <1>6, <1>7, <1>10 DEF TransportInv
----------------------------------------------------------------------------
(* Reads, and the handler's acquire and release of its source IP.          *)

(* The sums move with the part of the one connection that changes.         *)
LEMMA SumsMove ==
  ASSUME Types, Types', NEW c \in Conns,
         \A d \in Conns \ {c} : ip'[d] = ip[d] /\ phase'[d] = phase[d] /\ reader'[d] = reader[d],
         \A d \in Conns : Charge(2, d)' = Charge(2, d), NEW a
  PROVE  /\ Sum(OutboundOf(a))' - OutboundOf(a)'[c] = Sum(OutboundOf(a)) - OutboundOf(a)[c]
         /\ Sum(OpenOf(a))' - OpenOf(a)'[c] = Sum(OpenOf(a)) - OpenOf(a)[c]
         /\ Sum(ReadOf(a))' - ReadOf(a)'[c] = Sum(ReadOf(a)) - ReadOf(a)[c]
         /\ Sum(ReadAll)' - ReadAll'[c] = Sum(ReadAll) - ReadAll[c]
         /\ Sum(OutboundOf(a))' \in Nat /\ Sum(OpenOf(a))' \in Nat /\ Sum(ReadOf(a))' \in Nat
         /\ Sum(ReadAll)' \in Nat
         /\ OutboundOf(a)[c] \in Nat /\ OpenOf(a)[c] \in Nat /\ ReadOf(a)[c] \in Nat
         /\ ReadAll[c] \in Nat
         /\ OutboundOf(a)'[c] \in Nat /\ OpenOf(a)'[c] \in Nat /\ ReadOf(a)'[c] \in Nat
         /\ ReadAll'[c] \in Nat
  <1> DEFINE f1 == OutboundOf(a)  g1 == OutboundOf(a)'
             f2 == OpenOf(a)      g2 == OpenOf(a)'
             f3 == ReadOf(a)      g3 == ReadOf(a)'
             f4 == ReadAll        g4 == ReadAll'
  <1>1. /\ f1 \in [Conns -> Nat] /\ f2 \in [Conns -> Nat] /\ f3 \in [Conns -> Nat]
        /\ f4 \in [Conns -> Nat]
    BY SumsTyped
  <1>2. /\ g1 \in [Conns -> Nat] /\ g2 \in [Conns -> Nat] /\ g3 \in [Conns -> Nat]
        /\ g4 \in [Conns -> Nat]
    BY SumsTypedNext
  <1>3. /\ \A d \in Conns \ {c} : g1[d] = f1[d]
        /\ \A d \in Conns \ {c} : g2[d] = f2[d]
        /\ \A d \in Conns \ {c} : g3[d] = f3[d]
        /\ \A d \in Conns \ {c} : g4[d] = f4[d]
    BY DEF OutboundOf, OpenOf, ReadOf, ReadAll
  <1>4. /\ Sum(OutboundOf(a))' = Sum(g1) /\ Sum(OpenOf(a))' = Sum(g2)
        /\ Sum(ReadOf(a))' = Sum(g3) /\ Sum(ReadAll)' = Sum(g4)
    BY DEF Sum, Area, Column
  <1>5. /\ OutboundOf(a) = f1 /\ OpenOf(a) = f2 /\ ReadOf(a) = f3 /\ ReadAll = f4
        /\ OutboundOf(a)' = g1 /\ OpenOf(a)' = g2 /\ ReadOf(a)' = g3 /\ ReadAll' = g4
    OBVIOUS
  <1> HIDE DEF f1, g1, f2, g2, f3, g3, f4, g4
  <1>6. Sum(g1) \in Nat /\ Sum(g1) - g1[c] = Sum(f1) - f1[c]
    <2>1. f1 \in [Conns -> Nat] /\ g1 \in [Conns -> Nat] /\ \A d \in Conns \ {c} : g1[d] = f1[d]
      BY <1>1, <1>2, <1>3
    <2> QED
      BY ONLY <2>1, Limits, SumUpdate, c \in Conns
  <1>7. Sum(g2) \in Nat /\ Sum(g2) - g2[c] = Sum(f2) - f2[c]
    <2>1. f2 \in [Conns -> Nat] /\ g2 \in [Conns -> Nat] /\ \A d \in Conns \ {c} : g2[d] = f2[d]
      BY <1>1, <1>2, <1>3
    <2> QED
      BY ONLY <2>1, Limits, SumUpdate, c \in Conns
  <1>8. Sum(g3) \in Nat /\ Sum(g3) - g3[c] = Sum(f3) - f3[c]
    <2>1. f3 \in [Conns -> Nat] /\ g3 \in [Conns -> Nat] /\ \A d \in Conns \ {c} : g3[d] = f3[d]
      BY <1>1, <1>2, <1>3
    <2> QED
      BY ONLY <2>1, Limits, SumUpdate, c \in Conns
  <1>9. Sum(g4) \in Nat /\ Sum(g4) - g4[c] = Sum(f4) - f4[c]
    <2>1. f4 \in [Conns -> Nat] /\ g4 \in [Conns -> Nat] /\ \A d \in Conns \ {c} : g4[d] = f4[d]
      BY <1>1, <1>2, <1>3
    <2> QED
      BY ONLY <2>1, Limits, SumUpdate, c \in Conns
  <1>10. /\ f1[c] \in Nat /\ f2[c] \in Nat /\ f3[c] \in Nat /\ f4[c] \in Nat
         /\ g1[c] \in Nat /\ g2[c] \in Nat /\ g3[c] \in Nat /\ g4[c] \in Nat
    BY <1>1, <1>2
  <1>11. Sum(OutboundOf(a))' - OutboundOf(a)'[c] = Sum(OutboundOf(a)) - OutboundOf(a)[c]
    BY <1>4, <1>5, <1>6
  <1>12. Sum(OpenOf(a))' - OpenOf(a)'[c] = Sum(OpenOf(a)) - OpenOf(a)[c]
    BY <1>4, <1>5, <1>7
  <1>13. Sum(ReadOf(a))' - ReadOf(a)'[c] = Sum(ReadOf(a)) - ReadOf(a)[c]
    BY <1>4, <1>5, <1>8
  <1>14. Sum(ReadAll)' - ReadAll'[c] = Sum(ReadAll) - ReadAll[c]
    BY <1>4, <1>5, <1>9
  <1>15. /\ Sum(OutboundOf(a))' \in Nat /\ Sum(OpenOf(a))' \in Nat /\ Sum(ReadOf(a))' \in Nat
         /\ Sum(ReadAll)' \in Nat
    BY <1>4, <1>6, <1>7, <1>8, <1>9
  <1>16. /\ OutboundOf(a)[c] \in Nat /\ OpenOf(a)[c] \in Nat /\ ReadOf(a)[c] \in Nat
         /\ ReadAll[c] \in Nat
         /\ OutboundOf(a)'[c] \in Nat /\ OpenOf(a)'[c] \in Nat /\ ReadOf(a)'[c] \in Nat
         /\ ReadAll'[c] \in Nat
    BY <1>5, <1>10
  <1> QED
    BY <1>11, <1>12, <1>13, <1>14, <1>15, <1>16

LEMMA BudgetsMove ==
  ASSUME Types, Types', Budgets, NEW c \in Conns,
         \A d \in Conns \ {c} : ip'[d] = ip[d] /\ phase'[d] = phase[d] /\ reader'[d] = reader[d],
         \A l \in Levels, d \in Conns : Charge(l, d)' = Charge(l, d),
         UNCHANGED connUsed, global'.outbound = global.outbound,
         \A a \in IPs :
            /\ UsageOf(a)'.outbound - OutboundOf(a)'[c] = UsageOf(a).outbound - OutboundOf(a)[c]
            /\ UsageOf(a)'.connections - OpenOf(a)'[c] = UsageOf(a).connections - OpenOf(a)[c]
            /\ UsageOf(a)'.read - ReadOf(a)'[c] = UsageOf(a).read - ReadOf(a)[c]
            /\ UsageOf(a)'.outbound <= IPLimit /\ UsageOf(a)'.read <= IPReadLimit
            /\ UsageOf(a)'.connections <= MaxConnectionsPerIP,
         global'.read - ReadAll'[c] = global.read - ReadAll[c],
         global'.read <= GlobalReadLimit, EntriesUsed'
  PROVE  Budgets'
  <1>1. 1 \in Levels /\ 2 \in Levels /\ 3 \in Levels
    BY DEF Levels
  <1>2. ConnBudget'
    BY <1>1 DEF Budgets, ConnBudget
  <1>3. GlobalBudget'
    <2>1. Outbound' = Outbound
      BY <1>1 DEF Outbound
    <2> QED
      BY <2>1 DEF Budgets, GlobalBudget
  <1>4. ASSUME NEW a \in IPs
        PROVE  /\ UsageOf(a)'.outbound = Sum(OutboundOf(a))'
               /\ UsageOf(a)'.connections = Sum(OpenOf(a))'
               /\ UsageOf(a)'.read = Sum(ReadOf(a))'
    <2>1. UsageOf(a)' \in Usages
      BY FreshFields DEF Types, UsageOf
    <2>2. /\ UsageOf(a)'.outbound \in Int /\ UsageOf(a)'.connections \in Int
          /\ UsageOf(a)'.read \in Int
      BY <2>1 DEF Usages
    <2>3. /\ UsageOf(a).outbound = Sum(OutboundOf(a)) /\ UsageOf(a).connections = Sum(OpenOf(a))
          /\ UsageOf(a).read = Sum(ReadOf(a))
      BY DEF Budgets, OutboundBudget, OpenBudget, ReadBudget
    <2>4. /\ Sum(OutboundOf(a)) \in Nat /\ Sum(OpenOf(a)) \in Nat /\ Sum(ReadOf(a)) \in Nat
      BY SumFacts
    <2>5. /\ Sum(OutboundOf(a))' - OutboundOf(a)'[c] = Sum(OutboundOf(a)) - OutboundOf(a)[c]
          /\ Sum(OpenOf(a))' - OpenOf(a)'[c] = Sum(OpenOf(a)) - OpenOf(a)[c]
          /\ Sum(ReadOf(a))' - ReadOf(a)'[c] = Sum(ReadOf(a)) - ReadOf(a)[c]
          /\ Sum(OutboundOf(a))' \in Nat /\ Sum(OpenOf(a))' \in Nat /\ Sum(ReadOf(a))' \in Nat
          /\ OutboundOf(a)[c] \in Nat /\ OpenOf(a)[c] \in Nat /\ ReadOf(a)[c] \in Nat
          /\ OutboundOf(a)'[c] \in Nat /\ OpenOf(a)'[c] \in Nat /\ ReadOf(a)'[c] \in Nat
      BY <1>1, SumsMove
    <2>6. UsageOf(a)'.outbound - OutboundOf(a)'[c] = UsageOf(a).outbound - OutboundOf(a)[c]
      OBVIOUS
    <2>7. UsageOf(a)'.connections - OpenOf(a)'[c] = UsageOf(a).connections - OpenOf(a)[c]
      OBVIOUS
    <2>8. UsageOf(a)'.read - ReadOf(a)'[c] = UsageOf(a).read - ReadOf(a)[c]
      OBVIOUS
    <2>9. UsageOf(a)'.outbound = Sum(OutboundOf(a))'
      <3>1. /\ UsageOf(a)'.outbound \in Int /\ UsageOf(a).outbound = Sum(OutboundOf(a))
            /\ Sum(OutboundOf(a)) \in Nat /\ Sum(OutboundOf(a))' \in Nat
            /\ OutboundOf(a)[c] \in Nat /\ OutboundOf(a)'[c] \in Nat
            /\ Sum(OutboundOf(a))' - OutboundOf(a)'[c] = Sum(OutboundOf(a)) - OutboundOf(a)[c]
        BY <2>2, <2>3, <2>4, <2>5
      <3> QED
        BY ONLY <2>6, <3>1
    <2>10. UsageOf(a)'.connections = Sum(OpenOf(a))'
      <3>1. /\ UsageOf(a)'.connections \in Int /\ UsageOf(a).connections = Sum(OpenOf(a))
            /\ Sum(OpenOf(a)) \in Nat /\ Sum(OpenOf(a))' \in Nat
            /\ OpenOf(a)[c] \in Nat /\ OpenOf(a)'[c] \in Nat
            /\ Sum(OpenOf(a))' - OpenOf(a)'[c] = Sum(OpenOf(a)) - OpenOf(a)[c]
        BY <2>2, <2>3, <2>4, <2>5
      <3> QED
        BY ONLY <2>7, <3>1
    <2>11. UsageOf(a)'.read = Sum(ReadOf(a))'
      <3>1. /\ UsageOf(a)'.read \in Int /\ UsageOf(a).read = Sum(ReadOf(a))
            /\ Sum(ReadOf(a)) \in Nat /\ Sum(ReadOf(a))' \in Nat
            /\ ReadOf(a)[c] \in Nat /\ ReadOf(a)'[c] \in Nat
            /\ Sum(ReadOf(a))' - ReadOf(a)'[c] = Sum(ReadOf(a)) - ReadOf(a)[c]
        BY <2>2, <2>3, <2>4, <2>5
      <3> QED
        BY ONLY <2>8, <3>1
    <2> QED
      BY <2>9, <2>10, <2>11
  <1>5. OutboundBudget' /\ OpenBudget' /\ ReadBudget'
    <2>1. OutboundBudget'
      BY <1>4 DEF OutboundBudget
    <2>2. OpenBudget'
      BY <1>4 DEF OpenBudget
    <2>3. ReadBudget'
      BY <1>4 DEF ReadBudget
    <2> QED
      BY <2>1, <2>2, <2>3
  <1>6. GlobalReadBudget'
    <2>1. global.read \in Int /\ global'.read \in Int
      BY DEF Types
    <2>2. global.read = Sum(ReadAll) /\ Sum(ReadAll) \in Nat
      BY SumFacts DEF Budgets, GlobalReadBudget
    <2>3. /\ Sum(ReadAll)' - ReadAll'[c] = Sum(ReadAll) - ReadAll[c]
          /\ Sum(ReadAll)' \in Nat /\ ReadAll[c] \in Nat /\ ReadAll'[c] \in Nat
      BY <1>1, SumsMove
    <2>4. global'.read - ReadAll'[c] = global.read - ReadAll[c]
      OBVIOUS
    <2>5. ASSUME NEW u \in Int, NEW v \in Int, NEW x \in Nat, NEW y \in Nat,
                 NEW m \in Nat, NEW n \in Nat,
                 u - x = v - y, v = m, n - x = m - y
          PROVE  u = n
      BY ONLY <2>5
    <2>6. global'.read = Sum(ReadAll)'
      BY <2>1, <2>2, <2>3, <2>4, <2>5
    <2> QED
      BY <2>6 DEF GlobalReadBudget
  <1> QED
    BY <1>2, <1>3, <1>5, <1>6 DEF Budgets

LEMMA ReaderShape ==
  ASSUME Shape, SlotsConserved, Types', NEW c \in Conns, NEW r,
         reader' = [reader EXCEPT ![c] = r], UNCHANGED readVars, phase[c] = "open",
         r.stage \in {"idle", "process", "body", "releaseIP"}
  PROVE  /\ Shape' /\ SlotsConserved'
         /\ \A l \in Levels, d \in Conns : Charge(l, d)' = Charge(l, d)
  <1>1. reader'[c] = r /\ \A d \in Conns \ {c} : reader'[d] = reader[d]
    BY DEF Shape, Types
  <1>2. UNCHANGED <<phase, ip, slots, queue, closed, queueMu, connUsed, sender, writer, closer>>
    BY DEF readVars
  <1>3. SendersOK' /\ MutexOK'
    BY <1>2 DEF Shape, SendersOK, MutexOK
  <1>4. ClosersOK' /\ WritersOK'
    BY <1>2 DEF Shape, ClosersOK, WritersOK
  <1>5. ConnsOK'
    BY <1>1, <1>2 DEF Shape, ConnsOK
  <1>6. \A d \in Conns : SlotHolders(d)' = SlotHolders(d)
    BY <1>2 DEF SlotHolders
  <1>7. SlotsConserved'
    BY <1>2, <1>6 DEF SlotsConserved
  <1>8. \A l \in Levels, d \in Conns : Charge(l, d)' = Charge(l, d)
    BY <1>2 DEF Charge, Sending
  <1> QED
    BY <1>3, <1>4, <1>5, <1>7, <1>8 DEF Shape

ReadHeld(r) == IF r.stage # "idle" THEN ReadSize ELSE 0
ReadBody(r) == IF r.stage = "body" THEN ReadSize ELSE 0

LEMMA ReaderBudgets ==
  ASSUME Types, Types', Budgets, NEW c \in Conns, NEW r, ip[c] \in IPs,
         reader' = [reader EXCEPT ![c] = r], UNCHANGED readVars,
         \A l \in Levels, d \in Conns : Charge(l, d)' = Charge(l, d),
         \A a \in IPs : /\ UsageOf(a)'.outbound = UsageOf(a).outbound
                        /\ UsageOf(a)'.connections = UsageOf(a).connections,
         \A a \in IPs \ {ip[c]} : UsageOf(a)'.read = UsageOf(a).read,
         UsageOf(ip[c])'.read - ReadHeld(r) = UsageOf(ip[c]).read - ReadHeld(reader[c]),
         UsageOf(ip[c])'.read <= IPReadLimit, global'.outbound = global.outbound,
         global'.read - ReadBody(r) = global.read - ReadBody(reader[c]),
         global'.read <= GlobalReadLimit, EntriesUsed'
  PROVE  Budgets'
  <1>1. reader'[c] = r /\ \A d \in Conns \ {c} : reader'[d] = reader[d]
    BY DEF Types
  <1>2. UNCHANGED <<phase, ip, connUsed>>
    BY DEF readVars
  <1>3. 2 \in Levels
    BY DEF Levels
  <1>4. ReadAll'[c] = ReadBody(r) /\ ReadAll[c] = ReadBody(reader[c])
    BY <1>1 DEF ReadAll, ReadBody
  <1>5. ASSUME NEW a \in IPs
        PROVE  /\ UsageOf(a)'.outbound - OutboundOf(a)'[c] = UsageOf(a).outbound - OutboundOf(a)[c]
               /\ UsageOf(a)'.connections - OpenOf(a)'[c] = UsageOf(a).connections - OpenOf(a)[c]
               /\ UsageOf(a)'.read - ReadOf(a)'[c] = UsageOf(a).read - ReadOf(a)[c]
               /\ UsageOf(a)'.outbound <= IPLimit /\ UsageOf(a)'.read <= IPReadLimit
               /\ UsageOf(a)'.connections <= MaxConnectionsPerIP
    <2>1. OutboundOf(a)'[c] = OutboundOf(a)[c] /\ OpenOf(a)'[c] = OpenOf(a)[c]
      BY <1>2, <1>3 DEF OutboundOf, OpenOf
    <2>2. /\ UsageOf(a).outbound <= IPLimit /\ UsageOf(a).connections <= MaxConnectionsPerIP
          /\ UsageOf(a).read <= IPReadLimit
      BY DEF Budgets, OutboundBudget, OpenBudget, ReadBudget
    <2>3. /\ UsageOf(a)'.outbound = UsageOf(a).outbound
          /\ UsageOf(a)'.connections = UsageOf(a).connections
      OBVIOUS
    <2>4. CASE a # ip[c]
      <3>1. ReadOf(a)'[c] = 0 /\ ReadOf(a)[c] = 0
        BY <1>2, <2>4 DEF ReadOf
      <3>2. UsageOf(a)'.read = UsageOf(a).read
        BY <2>4
      <3> QED
        BY <2>1, <2>2, <2>3, <3>1, <3>2
    <2>5. CASE a = ip[c]
      <3>1. ReadOf(a)'[c] = ReadHeld(r) /\ ReadOf(a)[c] = ReadHeld(reader[c])
        BY <1>1, <1>2, <2>5 DEF ReadOf, ReadHeld
      <3>2. UsageOf(a)' = UsageOf(ip[c])' /\ UsageOf(a) = UsageOf(ip[c])
        BY <1>2, <2>5 DEF UsageOf
      <3>3. UsageOf(a)'.read - ReadOf(a)'[c] = UsageOf(a).read - ReadOf(a)[c]
        BY <3>1, <3>2
      <3> QED
        BY <2>1, <2>2, <2>3, <3>2, <3>3
    <2> QED
      BY <2>4, <2>5
  <1>6. \A d \in Conns \ {c} : ip'[d] = ip[d] /\ phase'[d] = phase[d] /\ reader'[d] = reader[d]
    BY <1>1, <1>2
  <1>7. global'.read - ReadAll'[c] = global.read - ReadAll[c]
    BY <1>4
  <1>8. UNCHANGED connUsed
    BY <1>2
  <1> QED
    BY <1>5, <1>6, <1>7, <1>8, BudgetsMove

LEMMA ReadReserveIPKeeps ==
  ASSUME TransportInv, NEW c \in Conns, ReadReserveIP(c)
  PROVE  TransportInv'
  <1>0. ip[c] \in IPs
    BY DEF TransportInv, Shape, ConnsOK, ReadReserveIP, Known
  <1>i. PICK i \in IPs : i = ip[c]
    BY <1>0
  <1>r. PICK r : r = At("process", c, ReadSize, 0)
    OBVIOUS
  <1>1. /\ Shape /\ SlotsConserved /\ Budgets /\ Types /\ phase[c] = "open"
        /\ reader[c].stage = "idle" /\ reader' = [reader EXCEPT ![c] = r]
        /\ usage[i] # Nil /\ ReadSize <= IPReadLimit - usage[i].read
        /\ UNCHANGED <<global, readVars>>
    BY <1>i, <1>r DEF TransportInv, Shape, ReadReserveIP
  <1>2. r \in States /\ r.stage = "process"
    BY <1>r, Limits, AtTyped DEF Stages
  <1>v. PICK v : v = [usage[i] EXCEPT !.read = usage[i].read + ReadSize]
    OBVIOUS
  <1>3. usage' = [usage EXCEPT ![i] = v]
    BY <1>i, <1>v DEF ReadReserveIP
  <1>4. usage[i] \in Usages
    BY <1>1 DEF Types
  <1>5. /\ v \in Usages /\ v.connections = usage[i].connections
        /\ v.outbound = usage[i].outbound /\ v.read = usage[i].read + ReadSize
    BY <1>4, <1>v, Limits DEF Usages
  <1>6. v # Nil
    BY <1>5, Limits
  <1>7. usage'[i] = v /\ \A a \in IPs \ {i} : usage'[a] = usage[a]
    BY <1>1, <1>3 DEF Types
  <1>8. Types'
    BY <1>1, <1>2, <1>3, <1>5 DEF Types, readVars
  <1>9. /\ Shape' /\ SlotsConserved'
        /\ \A l \in Levels, d \in Conns : Charge(l, d)' = Charge(l, d)
    BY <1>1, <1>2, <1>8, ReaderShape
  <1>10. UsageOf(i) = usage[i] /\ UsageOf(i)' = v
    BY <1>1, <1>6, <1>7 DEF UsageOf
  <1>11. /\ UsageOf(i).connections \in Nat /\ UsageOf(i).outbound \in Nat /\ UsageOf(i).read \in Nat
    BY <1>1, UsageFields
  <1>12. \A a \in IPs \ {i} : UsageOf(a)' = UsageOf(a)
    BY <1>7 DEF UsageOf
  <1>13. \A a \in IPs : /\ UsageOf(a)'.outbound = UsageOf(a).outbound
                        /\ UsageOf(a)'.connections = UsageOf(a).connections
    BY <1>5, <1>10, <1>12
  <1>14. /\ UsageOf(i)'.read - ReadHeld(r) = UsageOf(i).read - ReadHeld(reader[c])
         /\ UsageOf(i)'.read <= IPReadLimit
    <2>1. ReadHeld(r) = ReadSize /\ ReadHeld(reader[c]) = 0
      BY <1>1, <1>2 DEF ReadHeld
    <2> QED
      BY <1>1, <1>5, <1>10, <1>11, <2>1, Limits
  <1>15. EntriesUsed'
    <2> SUFFICES ASSUME NEW a \in IPs, usage'[a] # Nil
                 PROVE  usage'[a].connections + usage'[a].outbound + usage'[a].read > 0
      BY DEF EntriesUsed
    <2>1. CASE a # i
      BY <1>1, <1>7, <2>1 DEF Budgets, EntriesUsed
    <2>2. CASE a = i
      <3>1. usage[i].connections + usage[i].outbound + usage[i].read > 0
        BY <1>1 DEF Budgets, EntriesUsed
      <3> QED
        BY <1>5, <1>7, <1>10, <1>11, <2>2, <3>1, Limits
    <2> QED
      BY <2>1, <2>2
  <1>16. /\ global'.read - ReadBody(r) = global.read - ReadBody(reader[c])
         /\ global'.read <= GlobalReadLimit /\ global'.outbound = global.outbound
    <2>1. ReadBody(r) = 0 /\ ReadBody(reader[c]) = 0
      BY <1>1, <1>2 DEF ReadBody
    <2> QED
      BY <1>1, <2>1 DEF Budgets, GlobalReadBudget
  <1>17. Budgets'
    <2>1. UNCHANGED readVars /\ \A a \in IPs \ {i} : UsageOf(a)'.read = UsageOf(a).read
      BY <1>1, <1>12
    <2>2. /\ UsageOf(ip[c])' = UsageOf(i)' /\ UsageOf(ip[c]) = UsageOf(i)
      BY <1>1, <1>i DEF UsageOf, readVars
    <2>3. /\ UsageOf(ip[c])'.read - ReadHeld(r) = UsageOf(ip[c]).read - ReadHeld(reader[c])
          /\ UsageOf(ip[c])'.read <= IPReadLimit
      BY <1>14, <2>2
    <2>4. \A a \in IPs \ {ip[c]} : UsageOf(a)'.read = UsageOf(a).read
      BY <1>i, <2>1
    <2> QED
      BY <1>0, <1>1, <1>8, <1>9, <1>13, <1>15, <1>16, <2>1, <2>3, <2>4, ReaderBudgets
  <1> QED
    BY <1>9, <1>17 DEF TransportInv

(* The source IP of an open connection has an entry that counts it.        *)
LEMMA OpenEntry ==
  ASSUME Types, Budgets, NEW c \in Conns, ip[c] \in IPs, phase[c] = "open"
  PROVE  /\ usage[ip[c]] # Nil /\ usage[ip[c]] \in Usages /\ UsageOf(ip[c]) = usage[ip[c]]
         /\ usage[ip[c]].connections >= 1
         /\ reader[c].stage # "idle" => ReadSize <= usage[ip[c]].read
         /\ usage[ip[c]].connections \in Nat /\ usage[ip[c]].outbound \in Nat
         /\ usage[ip[c]].read \in Nat
  <1>1. OpenOf(ip[c])[c] = 1
    BY DEF OpenOf
  <1>2. 1 <= Sum(OpenOf(ip[c])) /\ Sum(OpenOf(ip[c])) \in Nat
    BY <1>1, SumFacts
  <1>3. UsageOf(ip[c]).connections >= 1
    BY <1>2 DEF Budgets, OpenBudget
  <1>4. usage[ip[c]] # Nil
    BY <1>3, FreshFields DEF UsageOf
  <1>5. UsageOf(ip[c]) = usage[ip[c]] /\ usage[ip[c]] \in Usages
    BY <1>4 DEF UsageOf, Types
  <1>6. reader[c].stage # "idle" => ReadSize <= UsageOf(ip[c]).read
    <2> HAVE reader[c].stage # "idle"
    <2>1. ReadOf(ip[c])[c] = ReadSize
      BY DEF ReadOf
    <2> QED
      BY <2>1, SumFacts DEF Budgets, ReadBudget
  <1>7. /\ UsageOf(ip[c]).connections \in Nat /\ UsageOf(ip[c]).outbound \in Nat
        /\ UsageOf(ip[c]).read \in Nat
    BY UsageFields
  <1> QED
    BY <1>3, <1>4, <1>5, <1>6, <1>7

(* The steps of a read that touch the process-wide budget only.            *)
LEMMA ReadGlobalKeeps ==
  ASSUME TransportInv, NEW c \in Conns, NEW r \in States, reader' = [reader EXCEPT ![c] = r],
         reader[c].stage # "idle", r.stage \in {"process", "body", "releaseIP"},
         UNCHANGED <<usage, readVars>>, global' \in [outbound : Int, read : Int],
         global'.outbound = global.outbound, global'.read <= GlobalReadLimit,
         global'.read - ReadBody(r) = global.read - ReadBody(reader[c])
  PROVE  TransportInv'
  <1>1. Shape /\ SlotsConserved /\ Budgets /\ Types /\ phase[c] = "open" /\ ip[c] \in IPs
    BY DEF TransportInv, Shape, ConnsOK, Known
  <1>2. Types'
    BY <1>1 DEF Types, readVars
  <1>3. /\ Shape' /\ SlotsConserved'
        /\ \A l \in Levels, d \in Conns : Charge(l, d)' = Charge(l, d)
    BY <1>1, <1>2, ReaderShape
  <1>4. (\A a : UsageOf(a)' = UsageOf(a)) /\ EntriesUsed'
    BY <1>1 DEF UsageOf, Budgets, EntriesUsed
  <1>5. ReadHeld(r) = ReadSize /\ ReadHeld(reader[c]) = ReadSize
    BY DEF ReadHeld
  <1>6. UsageOf(ip[c])' = UsageOf(ip[c])
    BY DEF UsageOf, readVars
  <1>7. /\ UsageOf(ip[c])'.read - ReadHeld(r) = UsageOf(ip[c]).read - ReadHeld(reader[c])
        /\ UsageOf(ip[c])'.read <= IPReadLimit
    BY <1>1, <1>5, <1>6 DEF Budgets, ReadBudget
  <1>8. UNCHANGED readVars
    OBVIOUS
  <1>9. /\ \A a \in IPs : /\ UsageOf(a)'.outbound = UsageOf(a).outbound
                          /\ UsageOf(a)'.connections = UsageOf(a).connections
        /\ \A a \in IPs \ {ip[c]} : UsageOf(a)'.read = UsageOf(a).read
    BY <1>4
  <1>10. Budgets'
    BY <1>1, <1>2, <1>3, <1>4, <1>7, <1>8, <1>9, ReaderBudgets
  <1> QED
    BY <1>3, <1>10 DEF TransportInv

LEMMA ReadReserveGlobalKeeps ==
  ASSUME TransportInv, NEW c \in Conns, ReadReserveGlobal(c)
  PROVE  TransportInv'
  <1>1. /\ Types /\ Budgets /\ reader[c].stage = "process" /\ UNCHANGED <<usage, readVars>>
    BY DEF TransportInv, Shape, ReadReserveGlobal
  <1>2. reader[c] \in States /\ global \in [outbound : Int, read : Int]
    BY <1>1 DEF Types
  <1>3. CASE /\ ReadSize <= GlobalReadLimit - global.read
             /\ global' = [global EXCEPT !.read = @ + ReadSize]
             /\ reader' = [reader EXCEPT ![c].stage = "body"]
    <2>r. PICK r : r = [reader[c] EXCEPT !.stage = "body"]
      OBVIOUS
    <2>1. r \in States /\ r.stage = "body"
      BY <1>2, <2>r, StageMoves DEF Stages
    <2>2. reader' = [reader EXCEPT ![c] = r]
      BY <1>3, <2>r
    <2>3. /\ global' \in [outbound : Int, read : Int] /\ global'.outbound = global.outbound
          /\ global'.read = global.read + ReadSize
      BY <1>2, <1>3, Limits
    <2>4. ReadBody(r) = ReadSize /\ ReadBody(reader[c]) = 0
      BY <1>1, <2>1 DEF ReadBody
    <2>5. /\ global'.read - ReadBody(r) = global.read - ReadBody(reader[c])
          /\ global'.read <= GlobalReadLimit
      BY <1>2, <1>3, <2>3, <2>4, Limits
    <2>6. reader[c].stage # "idle" /\ r.stage \in {"process", "body", "releaseIP"}
      BY <1>1, <2>1
    <2> QED
      BY <1>1, <2>1, <2>2, <2>3, <2>5, <2>6, ReadGlobalKeeps
  <1>4. CASE reader' = [reader EXCEPT ![c].stage = "releaseIP"] /\ UNCHANGED global
    <2>r. PICK r : r = [reader[c] EXCEPT !.stage = "releaseIP"]
      OBVIOUS
    <2>1. r \in States /\ r.stage = "releaseIP"
      BY <1>2, <2>r, StageMoves DEF Stages
    <2>2. reader' = [reader EXCEPT ![c] = r]
      BY <1>4, <2>r
    <2>3. ReadBody(r) = 0 /\ ReadBody(reader[c]) = 0
      BY <1>1, <2>1 DEF ReadBody
    <2>4. /\ global' \in [outbound : Int, read : Int] /\ global'.outbound = global.outbound
          /\ global'.read - ReadBody(r) = global.read - ReadBody(reader[c])
          /\ global'.read <= GlobalReadLimit
      BY <1>1, <1>2, <1>4, <2>3 DEF Budgets, GlobalReadBudget
    <2>5. reader[c].stage # "idle" /\ r.stage \in {"process", "body", "releaseIP"}
      BY <1>1, <2>1
    <2> QED
      BY <1>1, <2>1, <2>2, <2>4, <2>5, ReadGlobalKeeps
  <1> QED
    BY <1>3, <1>4 DEF ReadReserveGlobal

LEMMA ReadReleaseGlobalKeeps ==
  ASSUME TransportInv, NEW c \in Conns, ReadReleaseGlobal(c)
  PROVE  TransportInv'
  <1>1. /\ Types /\ Budgets /\ reader[c].stage = "body" /\ UNCHANGED <<usage, readVars>>
        /\ global' = [global EXCEPT !.read = @ - ReadSize]
    BY DEF TransportInv, Shape, ReadReleaseGlobal
  <1>2. reader[c] \in States /\ global \in [outbound : Int, read : Int]
    BY <1>1 DEF Types
  <1>r. PICK r : r = [reader[c] EXCEPT !.stage = "releaseIP"]
    OBVIOUS
  <1>3. r \in States /\ r.stage = "releaseIP"
    BY <1>2, <1>r, StageMoves DEF Stages
  <1>4. reader' = [reader EXCEPT ![c] = r]
    BY <1>r DEF ReadReleaseGlobal
  <1>5. /\ global' \in [outbound : Int, read : Int] /\ global'.outbound = global.outbound
        /\ global'.read = global.read - ReadSize
    BY <1>1, <1>2, Limits
  <1>6. ReadBody(r) = 0 /\ ReadBody(reader[c]) = ReadSize
    BY <1>1, <1>3 DEF ReadBody
  <1>7. global.read <= GlobalReadLimit
    BY <1>1 DEF Budgets, GlobalReadBudget
  <1>8. /\ global'.read - ReadBody(r) = global.read - ReadBody(reader[c])
        /\ global'.read <= GlobalReadLimit
    BY <1>2, <1>5, <1>6, <1>7, Limits
  <1>9. reader[c].stage # "idle" /\ r.stage \in {"process", "body", "releaseIP"}
    BY <1>1, <1>3
  <1> QED
    BY <1>1, <1>3, <1>4, <1>5, <1>8, <1>9, ReadGlobalKeeps

LEMMA ReadReleaseIPKeeps ==
  ASSUME TransportInv, NEW c \in Conns, ReadReleaseIP(c)
  PROVE  TransportInv'
  <1>0. ip[c] \in IPs /\ phase[c] = "open"
    BY DEF TransportInv, Shape, ConnsOK, ReadReleaseIP, Known
  <1>i. PICK i \in IPs : i = ip[c]
    BY <1>0
  <1>1. /\ Shape /\ SlotsConserved /\ Budgets /\ Types /\ reader[c].stage = "releaseIP"
        /\ reader' = [reader EXCEPT ![c] = Idle] /\ UNCHANGED <<global, readVars>>
    BY DEF TransportInv, Shape, ReadReleaseIP
  <1>2. /\ usage[i] # Nil /\ usage[i] \in Usages /\ UsageOf(i) = usage[i]
        /\ ReadSize <= usage[i].read
        /\ usage[i].connections \in Nat /\ usage[i].outbound \in Nat /\ usage[i].read \in Nat
        /\ usage[i].connections >= 1
    BY <1>0, <1>1, <1>i, OpenEntry
  <1>v. PICK v : v = Less(usage[i], 0, 0, ReadSize)
    OBVIOUS
  <1>3. usage' = [usage EXCEPT ![i] = Settle(v)]
    BY <1>i, <1>v DEF ReadReleaseIP
  <1>4. /\ v \in Usages /\ v.connections = usage[i].connections
        /\ v.outbound = usage[i].outbound /\ v.read = usage[i].read - ReadSize
    BY <1>2, <1>v, Limits DEF Usages, Less
  <1>5. v.connections \in Nat /\ v.outbound \in Nat /\ v.read \in Nat /\ v.connections # 0
    BY <1>2, <1>4, Limits
  <1>6. Settle(v) = v /\ v # Nil
    BY <1>4, <1>5, Limits DEF Settle
  <1>7. usage'[i] = v /\ \A a \in IPs \ {i} : usage'[a] = usage[a]
    BY <1>1, <1>3, <1>6 DEF Types
  <1>8. Types'
    BY <1>1, <1>3, <1>4, <1>6, IdleTyped DEF Types, readVars
  <1>9. /\ Shape' /\ SlotsConserved'
        /\ \A l \in Levels, d \in Conns : Charge(l, d)' = Charge(l, d)
    BY <1>0, <1>1, <1>8, IdleTyped, ReaderShape
  <1>10. UsageOf(i)' = v
    BY <1>6, <1>7 DEF UsageOf
  <1>11. \A a \in IPs \ {i} : UsageOf(a)' = UsageOf(a)
    BY <1>7 DEF UsageOf
  <1>12. /\ \A a \in IPs : /\ UsageOf(a)'.outbound = UsageOf(a).outbound
                           /\ UsageOf(a)'.connections = UsageOf(a).connections
         /\ \A a \in IPs \ {ip[c]} : UsageOf(a)'.read = UsageOf(a).read
    BY <1>2, <1>4, <1>10, <1>11, <1>i
  <1>13. /\ UsageOf(ip[c])'.read - ReadHeld(Idle) = UsageOf(ip[c]).read - ReadHeld(reader[c])
         /\ UsageOf(ip[c])'.read <= IPReadLimit
    <2>1. ReadHeld(Idle) = 0 /\ ReadHeld(reader[c]) = ReadSize
      BY <1>1, IdleTyped DEF ReadHeld
    <2>2. /\ UsageOf(ip[c])' = v /\ UsageOf(ip[c]) = usage[i]
      BY <1>1, <1>2, <1>10, <1>i DEF UsageOf, readVars
    <2>3. UsageOf(i).read <= IPReadLimit
      BY <1>1 DEF Budgets, ReadBudget
    <2> QED
      BY <1>2, <1>4, <2>1, <2>2, <2>3, Limits
  <1>14. EntriesUsed'
    <2> SUFFICES ASSUME NEW a \in IPs, usage'[a] # Nil
                 PROVE  usage'[a].connections + usage'[a].outbound + usage'[a].read > 0
      BY DEF EntriesUsed
    <2>1. CASE a # i
      BY <1>1, <1>7, <2>1 DEF Budgets, EntriesUsed
    <2>2. CASE a = i
      BY <1>5, <1>7, <2>2
    <2> QED
      BY <2>1, <2>2
  <1>15. /\ global'.read - ReadBody(Idle) = global.read - ReadBody(reader[c])
         /\ global'.read <= GlobalReadLimit /\ global'.outbound = global.outbound
    <2>1. ReadBody(Idle) = 0 /\ ReadBody(reader[c]) = 0
      BY <1>1, IdleTyped DEF ReadBody
    <2> QED
      BY <1>1, <2>1 DEF Budgets, GlobalReadBudget
  <1>16. UNCHANGED readVars
    BY <1>1
  <1>17. Budgets'
    BY <1>0, <1>1, <1>8, <1>9, <1>12, <1>13, <1>14, <1>15, <1>16, ReaderBudgets
  <1> QED
    BY <1>9, <1>17 DEF TransportInv

LEMMA releaseIPConnectionKeeps ==
  ASSUME TransportInv, NEW c \in Conns, releaseIPConnection(c)
  PROVE  TransportInv'
  <1>0. ip[c] \in IPs
    BY DEF TransportInv, Shape, ConnsOK, releaseIPConnection, Known
  <1>i. PICK i \in IPs : i = ip[c]
    BY <1>0
  <1>1. /\ Shape /\ SlotsConserved /\ Budgets /\ Types /\ phase[c] = "open"
        /\ reader[c].stage = "idle" /\ phase' = [phase EXCEPT ![c] = "released"]
        /\ UNCHANGED <<ip, slots, queue, closed, queueMu, connUsed, global, sender, writer,
                       closer, reader>>
    BY DEF TransportInv, Shape, releaseIPConnection
  <1>2. /\ usage[i] # Nil /\ usage[i] \in Usages /\ UsageOf(i) = usage[i]
        /\ usage[i].connections \in Nat /\ usage[i].outbound \in Nat /\ usage[i].read \in Nat
        /\ usage[i].connections >= 1
    BY <1>1, <1>i, OpenEntry
  <1>v. PICK v : v = Less(usage[i], 1, 0, 0)
    OBVIOUS
  <1>3. usage' = [usage EXCEPT ![i] = Settle(v)]
    BY <1>i, <1>v DEF releaseIPConnection
  <1>4. /\ v \in Usages /\ v.connections = usage[i].connections - 1
        /\ v.outbound = usage[i].outbound /\ v.read = usage[i].read
    BY <1>2, <1>v DEF Usages, Less
  <1>5. v.connections \in Nat /\ v.outbound \in Nat /\ v.read \in Nat
    BY <1>2, <1>4
  <1>6. /\ Settle(v) \in Usages \cup {Nil}
        /\ Settle(v) # Nil => Settle(v) = v /\ v.connections + v.outbound + v.read > 0
        /\ Settle(v) = Nil => v.connections = 0 /\ v.outbound = 0 /\ v.read = 0
    BY <1>4, <1>5, Settled
  <1>7. usage'[i] = Settle(v) /\ \A a \in IPs \ {i} : usage'[a] = usage[a]
    BY <1>1, <1>3 DEF Types
  <1>8. usage' \in [IPs -> Usages \cup {Nil}]
    BY <1>1, <1>3, <1>6 DEF Types
  <1>9. Shape' /\ Types'
    BY <1>1, <1>8, ReleaseConnShape DEF Shape
  <1>10. SlotsConserved'
    <2>1. \A d \in Conns : SlotHolders(d)' = SlotHolders(d)
      BY <1>1 DEF SlotHolders
    <2> QED
      BY <1>1, <2>1 DEF SlotsConserved
  <1>11. \A l \in Levels, d \in Conns : Charge(l, d)' = Charge(l, d)
    BY <1>1 DEF Charge, Sending
  <1>12. /\ UsageOf(i)'.connections = v.connections
         /\ UsageOf(i)'.read = v.read /\ UsageOf(i)'.outbound = v.outbound
    <2>1. UsageOf(i)' = IF Settle(v) = Nil THEN FreshUsage ELSE Settle(v)
      BY <1>7 DEF UsageOf
    <2>2. CASE Settle(v) = Nil
      BY <1>6, <2>1, <2>2, FreshFields
    <2>3. CASE Settle(v) # Nil
      BY <1>6, <2>1, <2>3
    <2> QED
      BY <2>2, <2>3
  <1>13. \A a \in IPs \ {i} : UsageOf(a)' = UsageOf(a)
    BY <1>7 DEF UsageOf
  <1>14. EntriesUsed'
    <2> SUFFICES ASSUME NEW a \in IPs, usage'[a] # Nil
                 PROVE  usage'[a].connections + usage'[a].outbound + usage'[a].read > 0
      BY DEF EntriesUsed
    <2>1. CASE a # i
      BY <1>1, <1>7, <2>1 DEF Budgets, EntriesUsed
    <2>2. CASE a = i
      BY <1>6, <1>7, <2>2
    <2> QED
      BY <2>1, <2>2
  <1>15. phase'[c] = "released" /\ \A d \in Conns \ {c} : phase'[d] = phase[d]
    BY <1>1 DEF Types
  <1>16. ASSUME NEW a \in IPs
         PROVE  /\ UsageOf(a)'.outbound - OutboundOf(a)'[c] = UsageOf(a).outbound - OutboundOf(a)[c]
                /\ UsageOf(a)'.connections - OpenOf(a)'[c] = UsageOf(a).connections - OpenOf(a)[c]
                /\ UsageOf(a)'.read - ReadOf(a)'[c] = UsageOf(a).read - ReadOf(a)[c]
                /\ UsageOf(a)'.outbound <= IPLimit /\ UsageOf(a)'.read <= IPReadLimit
                /\ UsageOf(a)'.connections <= MaxConnectionsPerIP
    <2>1. OutboundOf(a)'[c] = OutboundOf(a)[c] /\ ReadOf(a)'[c] = ReadOf(a)[c]
      <3>1. Charge(2, c)' = Charge(2, c)
        BY <1>11 DEF Levels
      <3> QED
        BY <1>1, <3>1 DEF OutboundOf, ReadOf
    <2>2. /\ UsageOf(a).outbound <= IPLimit /\ UsageOf(a).connections <= MaxConnectionsPerIP
          /\ UsageOf(a).read <= IPReadLimit
      BY <1>1 DEF Budgets, OutboundBudget, OpenBudget, ReadBudget
    <2>3. CASE a # i
      <3>1. OpenOf(a)'[c] = 0 /\ OpenOf(a)[c] = 0
        BY <1>1, <1>i, <2>3 DEF OpenOf
      <3>2. UsageOf(a)' = UsageOf(a)
        BY <1>13, <2>3
      <3> QED
        BY <2>1, <2>2, <3>1, <3>2
    <2>4. CASE a = i
      <3>1. OpenOf(a)'[c] = 0 /\ OpenOf(a)[c] = 1
        BY <1>1, <1>i, <1>15, <2>4 DEF OpenOf
      <3>2. /\ UsageOf(a)'.outbound = UsageOf(a).outbound /\ UsageOf(a)'.read = UsageOf(a).read
            /\ UsageOf(a)'.connections = UsageOf(a).connections - 1
            /\ UsageOf(a).connections \in Nat
        BY <1>2, <1>4, <1>12, <2>4
      <3>3. UsageOf(a)'.connections - OpenOf(a)'[c] = UsageOf(a).connections - OpenOf(a)[c]
            /\ UsageOf(a)'.connections <= MaxConnectionsPerIP
        BY <2>2, <3>1, <3>2, Limits
      <3> QED
        BY <2>1, <2>2, <3>2, <3>3
    <2> QED
      BY <2>3, <2>4
  <1>17. /\ global'.read - ReadAll'[c] = global.read - ReadAll[c]
         /\ global'.read <= GlobalReadLimit /\ global'.outbound = global.outbound
         /\ UNCHANGED connUsed
    BY <1>1 DEF Budgets, GlobalReadBudget, ReadAll
  <1>18. \A d \in Conns \ {c} : ip'[d] = ip[d] /\ phase'[d] = phase[d] /\ reader'[d] = reader[d]
    BY <1>1, <1>15
  <1>19. Budgets'
    BY <1>1, <1>9, <1>11, <1>14, <1>16, <1>17, <1>18, BudgetsMove
  <1> QED
    BY <1>9, <1>10, <1>19 DEF TransportInv

(* A connection that is not known yet is charged nothing.                  *)
LEMMA NewUncharged ==
  ASSUME Shape, NEW c \in Conns, phase[c] = "new", NEW l \in Levels
  PROVE  Charge(l, c) = 0 /\ queueMu[c] \notin Senders /\ reader[c].stage = "idle"
  <1>1. /\ queue[c] = <<>> /\ writer[c].stage = "idle" /\ closer[c].stage = "idle"
        /\ reader[c].stage = "idle"
    BY DEF Shape, ConnsOK, Known
  <1>2. queueMu[c] \notin Senders
    BY DEF Shape, MutexOK, SendersOK, Critical, Known
  <1>3. Sum(queue[c]) = 0
    BY <1>1, EmptySum
  <1>4. /\ Returning(l, writer[c]) = 0 /\ Returning(l, closer[c]) = 0 /\ Sending(l, c) = 0
    BY <1>1, <1>2 DEF Returning, Sending
  <1> QED
    BY <1>1, <1>2, <1>3, <1>4 DEF Charge

LEMMA acquireIPConnectionKeeps ==
  ASSUME TransportInv, NEW c \in Conns, NEW i \in IPs, acquireIPConnection(c, i)
  PROVE  TransportInv'
  <1>1. /\ Shape /\ SlotsConserved /\ Budgets /\ Types /\ phase[c] = "new"
        /\ UNCHANGED <<slots, queue, closed, queueMu, connUsed, global, sender, closer, reader>>
    BY DEF TransportInv, Shape, acquireIPConnection
  <1>2. /\ UsageOf(i) \in Usages /\ UsageOf(i).connections \in Nat /\ UsageOf(i).outbound \in Nat
        /\ UsageOf(i).read \in Nat
    BY <1>1, UsageFields
  <1>3. reader[c].stage = "idle" /\ writer[c].stage = "idle" /\ queueMu[c] \notin Senders
        /\ \A l \in Levels : Charge(l, c) = 0
    BY <1>1, NewUncharged DEF Shape, ConnsOK, Known, Levels
  <1>4. CASE /\ UsageOf(i).connections >= MaxConnectionsPerIP
             /\ usage' = [usage EXCEPT ![i] = UsageOf(i)]
             /\ phase' = [phase EXCEPT ![c] = "refused"] /\ UNCHANGED <<ip, writer>>
    <2>1. usage[i] # Nil
      BY <1>2, <1>4, Limits, FreshFields DEF UsageOf
    <2>2. UsageOf(i) = usage[i]
      BY <2>1 DEF UsageOf
    <2>3. UNCHANGED usage
      BY <1>1, <1>4, <2>2 DEF Types
    <2>4. Shape' /\ Types'
      <3>1. usage' \in [IPs -> Usages \cup {Nil}]
        BY <1>1, <2>3 DEF Types
      <3> QED
        BY <1>1, <3>1, AcquireShape DEF Shape
    <2>5. SlotsConserved'
      <3>1. \A d \in Conns : SlotHolders(d)' = SlotHolders(d)
        BY <1>1, <1>4 DEF SlotHolders
      <3> QED
        BY <1>1, <3>1 DEF SlotsConserved
    <2>6. phase'[c] = "refused" /\ \A d \in Conns \ {c} : phase'[d] = phase[d]
      BY <1>1, <1>4 DEF Types
    <2>7. \A l \in Levels, d \in Conns : Charge(l, d)' = Charge(l, d)
      BY <1>1, <1>4 DEF Charge, Sending
    <2>8. /\ \A a : /\ OutboundOf(a)' = OutboundOf(a) /\ OpenOf(a)' = OpenOf(a)
                    /\ ReadOf(a)' = ReadOf(a) /\ UsageOf(a)' = UsageOf(a)
          /\ Outbound' = Outbound /\ ReadAll' = ReadAll
      <3>1. 2 \in Levels /\ 3 \in Levels
        BY DEF Levels
      <3>2. \A a : OutboundOf(a)' = OutboundOf(a) /\ ReadOf(a)' = ReadOf(a) /\ UsageOf(a)' = UsageOf(a)
        BY <1>1, <1>4, <2>3, <2>7, <3>1 DEF OutboundOf, ReadOf, UsageOf
      <3>3. Outbound' = Outbound /\ ReadAll' = ReadAll
        BY <1>1, <2>7, <3>1 DEF Outbound, ReadAll
      <3>4. \A d \in Conns : phase'[d] = "open" <=> phase[d] = "open"
        BY <1>1, <2>6
      <3>5. \A a : OpenOf(a)' = OpenOf(a)
        BY <1>4, <3>4 DEF OpenOf
      <3> QED
        BY <3>2, <3>3, <3>5
    <2>9. ConnBudget' /\ EntriesUsed'
      BY <1>1, <2>3, <2>7 DEF Budgets, ConnBudget, EntriesUsed, Levels
    <2>10. OutboundBudget' /\ OpenBudget' /\ ReadBudget' /\ GlobalBudget' /\ GlobalReadBudget'
      BY <1>1, <2>8 DEF Budgets, OutboundBudget, OpenBudget, ReadBudget, GlobalBudget,
                        GlobalReadBudget
    <2> QED
      BY <2>4, <2>5, <2>9, <2>10 DEF TransportInv, Budgets
  <1>5. CASE /\ UsageOf(i).connections < MaxConnectionsPerIP
             /\ usage' = [usage EXCEPT ![i] = [UsageOf(i) EXCEPT !.connections = @ + 1]]
             /\ phase' = [phase EXCEPT ![c] = "open"] /\ ip' = [ip EXCEPT ![c] = i]
             /\ writer' = [writer EXCEPT ![c] = At("select", c, 0, 0)]
    <2>v. PICK v : v = [UsageOf(i) EXCEPT !.connections = UsageOf(i).connections + 1]
      OBVIOUS
    <2>w. PICK w : w = At("select", c, 0, 0)
      OBVIOUS
    <2>1. /\ v \in Usages /\ v.connections = UsageOf(i).connections + 1
          /\ v.outbound = UsageOf(i).outbound /\ v.read = UsageOf(i).read
      BY <1>2, <2>v DEF Usages
    <2>2. v # Nil /\ usage' = [usage EXCEPT ![i] = v] /\ writer' = [writer EXCEPT ![c] = w]
      BY <1>5, <2>1, <2>v, <2>w, Limits
    <2>3. w.stage = "select"
      BY <2>w DEF At
    <2>4. /\ usage'[i] = v /\ \A a \in IPs \ {i} : usage'[a] = usage[a]
          /\ usage' \in [IPs -> Usages \cup {Nil}]
      BY <1>1, <2>1, <2>2 DEF Types
    <2>5. Shape' /\ Types'
      BY <1>1, <2>4, AcquireShape DEF Shape
    <2>6. SlotsConserved'
      <3>1. UNCHANGED <<sender, closer>> /\ w.stage # "slotBack" /\ writer[c].stage # "slotBack"
        BY <1>1, <1>3, <2>3
      <3>2. /\ \A d \in Conns \ {c} : SlotHolders(d)' = SlotHolders(d)
            /\ "writer" \notin SlotHolders(c)
            /\ SlotHolders(c)' = SlotHolders(c) \ {"writer"}
        BY <1>1, <2>2, <3>1, WriterHolders
      <3>3. SlotHolders(c)' = SlotHolders(c)
        BY <3>2
      <3> QED
        BY <1>1, <3>2, <3>3 DEF SlotsConserved
    <2>7. /\ phase'[c] = "open" /\ ip'[c] = i
          /\ \A d \in Conns \ {c} : ip'[d] = ip[d] /\ phase'[d] = phase[d] /\ reader'[d] = reader[d]
      BY <1>1, <1>5 DEF Types
    <2>8. ASSUME NEW l \in Levels PROVE \A d \in Conns : Charge(l, d)' = Charge(l, d)
      <3>1. UNCHANGED <<sender, closer, queueMu, queue>>
        BY <1>1
      <3>2. /\ \A d \in Conns \ {c} : Charge(l, d)' = Charge(l, d)
            /\ Charge(l, c)' = Charge(l, c) - (Sum(queue[c]) + Returning(l, writer[c]))
                                            + (Sum(queue'[c]) + Returning(l, w))
            /\ Sum(queue[c]) \in Nat /\ Charge(l, c) \in Nat
        BY <1>1, <2>2, <2>5, <3>1, WriterCharges
      <3>3. Returning(l, writer[c]) = 0 /\ Returning(l, w) = 0
        BY <1>3, <2>3 DEF Returning
      <3>4. Charge(l, c)' = Charge(l, c)
        BY <3>1, <3>2, <3>3
      <3> QED
        BY <3>2, <3>4
    <2>9. UsageOf(i)' = v /\ \A a \in IPs \ {i} : UsageOf(a)' = UsageOf(a)
      BY <2>2, <2>4 DEF UsageOf
    <2>10. EntriesUsed'
      <3> SUFFICES ASSUME NEW a \in IPs, usage'[a] # Nil
                   PROVE  usage'[a].connections + usage'[a].outbound + usage'[a].read > 0
        BY DEF EntriesUsed
      <3>1. CASE a # i
        BY <1>1, <2>4, <3>1 DEF Budgets, EntriesUsed
      <3>2. CASE a = i
        BY <1>2, <2>1, <2>4, <3>2
      <3> QED
        BY <3>1, <3>2
    <2>11. ASSUME NEW a \in IPs
           PROVE  /\ UsageOf(a)'.outbound - OutboundOf(a)'[c] = UsageOf(a).outbound - OutboundOf(a)[c]
                  /\ UsageOf(a)'.connections - OpenOf(a)'[c] = UsageOf(a).connections - OpenOf(a)[c]
                  /\ UsageOf(a)'.read - ReadOf(a)'[c] = UsageOf(a).read - ReadOf(a)[c]
                  /\ UsageOf(a)'.outbound <= IPLimit /\ UsageOf(a)'.read <= IPReadLimit
                  /\ UsageOf(a)'.connections <= MaxConnectionsPerIP
      <3>1. /\ OutboundOf(a)'[c] = 0 /\ OutboundOf(a)[c] = 0
            /\ ReadOf(a)'[c] = 0 /\ ReadOf(a)[c] = 0 /\ OpenOf(a)[c] = 0
        <4>1. Charge(2, c)' = 0 /\ Charge(2, c) = 0
          BY <1>3, <2>8 DEF Levels
        <4> QED
          BY <1>1, <1>3, <4>1 DEF OutboundOf, ReadOf, OpenOf
      <3>2. /\ UsageOf(a).outbound <= IPLimit /\ UsageOf(a).connections <= MaxConnectionsPerIP
            /\ UsageOf(a).read <= IPReadLimit
        BY <1>1 DEF Budgets, OutboundBudget, OpenBudget, ReadBudget
      <3>3. CASE a # i
        <4>1. OpenOf(a)'[c] = 0
          BY <2>7, <3>3 DEF OpenOf
        <4>2. UsageOf(a)' = UsageOf(a)
          BY <2>9, <3>3
        <4> QED
          BY <3>1, <3>2, <4>1, <4>2
      <3>4. CASE a = i
        <4>1. OpenOf(a)'[c] = 1
          BY <2>7, <3>4 DEF OpenOf
        <4>2. /\ UsageOf(a)'.outbound = UsageOf(a).outbound /\ UsageOf(a)'.read = UsageOf(a).read
              /\ UsageOf(a)'.connections = UsageOf(a).connections + 1
              /\ UsageOf(a).connections \in Nat /\ UsageOf(a).connections < MaxConnectionsPerIP
          BY <1>2, <1>5, <2>1, <2>9, <3>4
        <4>3. UsageOf(a)'.connections - OpenOf(a)'[c] = UsageOf(a).connections - OpenOf(a)[c]
              /\ UsageOf(a)'.connections <= MaxConnectionsPerIP
          BY <3>1, <4>1, <4>2, Limits
        <4> QED
          BY <3>1, <3>2, <4>2, <4>3
      <3> QED
        BY <3>3, <3>4
    <2>12. /\ global'.read - ReadAll'[c] = global.read - ReadAll[c]
           /\ global'.read <= GlobalReadLimit /\ global'.outbound = global.outbound
           /\ UNCHANGED connUsed
      BY <1>1 DEF Budgets, GlobalReadBudget, ReadAll
    <2>13. Budgets'
      BY <1>1, <2>5, <2>7, <2>8, <2>10, <2>11, <2>12, BudgetsMove
    <2> QED
      BY <2>5, <2>6, <2>13 DEF TransportInv
  <1> QED
    BY <1>4, <1>5 DEF acquireIPConnection, UsageOf
----------------------------------------------------------------------------
(* The invariant of the specification.                                     *)

LEMMA ZeroSum ==
  ASSUME NEW S, IsFiniteSet(S), NEW f \in [S -> Nat], \A s \in S : f[s] = 0
  PROVE  Sum(f) = 0
  <1>1. Sum(f) \in Nat
    BY AreaFinite
  <1>2. Sum(f) > 0 => \E s \in S : f[s] > 0
    BY SumBounds
  <1> QED
    BY <1>1, <1>2

LEMMA InitKeeps ==
  ASSUME Init
  PROVE  TransportInv
  <1>1. Types
    <2>1. \A c \in Conns : <<>> \in Seq(Sizes)
      OBVIOUS
    <2>2. closed \in SUBSET Conns /\ queue \in [Conns -> Seq(Sizes)]
      BY <2>1 DEF Init
    <2>3. /\ phase \in [Conns -> {"new", "open", "released", "refused"}]
          /\ ip \in [Conns -> IPs \cup {Nil}] /\ slots \in [Conns -> Nat]
          /\ queueMu \in [Conns -> Senders \cup {"closer", Nil}]
          /\ connUsed \in [Conns -> Int] /\ usage \in [IPs -> Usages \cup {Nil}]
          /\ global \in [outbound : Int, read : Int]
      BY Limits DEF Init
    <2>4. /\ sender \in [Senders -> SenderStates] /\ writer \in [Conns -> States]
          /\ closer \in [Conns -> States] /\ reader \in [Conns -> States]
      BY IdleTyped DEF Init
    <2> QED
      BY <2>2, <2>3, <2>4 DEF Types
  <1>2. /\ \A c \in Conns : /\ phase[c] = "new" /\ queue[c] = <<>> /\ queueMu[c] = Nil
                            /\ writer[c] = Idle /\ closer[c] = Idle /\ reader[c] = Idle
                            /\ connUsed[c] = 0 /\ slots[c] = QueueCapacity /\ c \notin closed
        /\ \A t \in Senders : sender[t] = Idle
        /\ \A a \in IPs : usage[a] = Nil
        /\ global.outbound = 0 /\ global.read = 0
    BY DEF Init
  <1>3. SendersOK /\ MutexOK
    BY <1>2, IdleTyped, Limits DEF SendersOK, MutexOK, Critical
  <1>4. ClosersOK /\ WritersOK /\ ConnsOK
    BY <1>2, IdleTyped DEF ClosersOK, WritersOK, ConnsOK, Known
  <1>5. Shape
    BY <1>1, <1>3, <1>4 DEF Shape
  <1>6. SlotsConserved
    <2> SUFFICES ASSUME NEW c \in Conns
                 PROVE  slots[c] + Len(queue[c]) + Cardinality(SlotHolders(c)) = QueueCapacity
      BY DEF SlotsConserved
    <2>1. SlotHolders(c) = {}
      BY <1>2, IdleTyped DEF SlotHolders
    <2>2. Cardinality(SlotHolders(c)) = 0
      BY <2>1, FS_EmptySet
    <2>3. Len(queue[c]) = 0
      BY <1>2
    <2> QED
      BY <1>2, <2>2, <2>3, Limits
  <1>7. \A l \in Levels, c \in Conns : Charge(l, c) = 0
    BY <1>2, <1>5, NewUncharged
  <1>8. 1 \in Levels /\ 2 \in Levels /\ 3 \in Levels
    BY DEF Levels
  <1>9. ASSUME NEW a
        PROVE  Sum(OutboundOf(a)) = 0 /\ Sum(OpenOf(a)) = 0 /\ Sum(ReadOf(a)) = 0
    <2>1. \A c \in Conns : OutboundOf(a)[c] = 0 /\ OpenOf(a)[c] = 0 /\ ReadOf(a)[c] = 0
      BY <1>2, <1>7, <1>8, IdleTyped DEF OutboundOf, OpenOf, ReadOf
    <2>2. OutboundOf(a) \in [Conns -> Nat] /\ OpenOf(a) \in [Conns -> Nat] /\ ReadOf(a) \in [Conns -> Nat]
      BY <1>1, SumsTyped
    <2> QED
      BY <2>1, <2>2, Limits, ZeroSum
  <1>10. Sum(Outbound) = 0 /\ Sum(ReadAll) = 0
    <2>1. \A c \in Conns : Outbound[c] = 0 /\ ReadAll[c] = 0
      BY <1>2, <1>7, <1>8, IdleTyped DEF Outbound, ReadAll
    <2>2. Outbound \in [Conns -> Nat] /\ ReadAll \in [Conns -> Nat]
      BY <1>1, SumsTyped
    <2> QED
      BY <2>1, <2>2, Limits, ZeroSum
  <1>11. \A a \in IPs : UsageOf(a) = FreshUsage
    BY <1>2 DEF UsageOf
  <1>12. OutboundBudget /\ OpenBudget /\ ReadBudget
    BY <1>9, <1>11, FreshFields, Limits DEF OutboundBudget, OpenBudget, ReadBudget
  <1>13. ConnBudget /\ GlobalBudget /\ GlobalReadBudget /\ EntriesUsed
    BY <1>2, <1>7, <1>8, <1>10, Limits DEF ConnBudget, GlobalBudget, GlobalReadBudget, EntriesUsed
  <1> QED
    BY <1>5, <1>6, <1>12, <1>13 DEF TransportInv, Budgets

LEMMA StutterKeeps ==
  ASSUME TransportInv, UNCHANGED vars
  PROVE  TransportInv'
  <1>1. UNCHANGED <<phase, ip, slots, queue, closed, queueMu, connUsed, usage, global, sender,
                    writer, closer, reader>>
    BY DEF vars
  <1>2. Shape'
    BY <1>1 DEF TransportInv, Shape, Types, SendersOK, MutexOK, ClosersOK, WritersOK, ConnsOK
  <1>3. SlotsConserved'
    <2>1. \A d \in Conns : SlotHolders(d)' = SlotHolders(d)
      BY <1>1 DEF SlotHolders
    <2> QED
      BY <1>1, <2>1 DEF TransportInv, SlotsConserved
  <1>4. \A l \in Levels, d \in Conns : Charge(l, d)' = Charge(l, d)
    BY <1>1 DEF Charge, Sending
  <1>5. Budgets'
    BY <1>1, <1>4, BudgetsFrame DEF TransportInv
  <1> QED
    BY <1>2, <1>3, <1>5 DEF TransportInv

LEMMA NextKeeps ==
  ASSUME TransportInv, Next
  PROVE  TransportInv'
  <1>1. ASSUME NEW t \in Senders, GiveUp(t) \/ SenderStep(t) PROVE TransportInv'
    BY <1>1, GiveUpKeeps, TakeSlotKeeps, LockQueueKeeps, ReserveBytesKeeps, RollBackKeeps,
       AbortKeeps, EnqueueKeeps DEF SenderStep
  <1>2. ASSUME NEW c \in Conns, WriterStep(c) \/ ContextDone(c) PROVE TransportInv'
    BY <1>2, WriterTakeKeeps, WriterSlotBackKeeps, WriterWriteKeeps, WriterReleaseKeeps,
       StopWritingKeeps, WriterExitKeeps DEF WriterStep, WriterStop, ContextDone
  <1>3. ASSUME NEW c \in Conns, CloseStart(c) \/ CloserStep(c) PROVE TransportInv'
    BY <1>3, CloseStartKeeps, CloseDrainKeeps, CloseSlotBackKeeps, CloseReleaseKeeps,
       CloseDoneKeeps DEF CloserStep
  <1>4. ASSUME NEW c \in Conns, ReadReserveIP(c) \/ ReaderStep(c) \/ releaseIPConnection(c)
        PROVE  TransportInv'
    BY <1>4, ReadReserveIPKeeps, ReadReserveGlobalKeeps, ReadReleaseGlobalKeeps,
       ReadReleaseIPKeeps, releaseIPConnectionKeeps DEF ReaderStep
  <1> QED
    BY <1>1, <1>2, <1>3, <1>4, acquireIPConnectionKeeps, StartSendKeeps DEF Next

(* In every reachable state the goroutines respect queueMu and the closed  *)
(* flag, no slot is lost, and every budget of the transport counts exactly *)
(* the bytes, reads and connections somebody still has to give back.       *)
THEOREM TransportInvariant == Spec => []TransportInv
  <1>1. Init => TransportInv
    BY InitKeeps
  <1>2. TransportInv /\ [Next]_vars => TransportInv'
    BY NextKeeps, StutterKeeps
  <1> QED
    BY <1>1, <1>2, PTL DEF Spec

(* Tokens of outboundSlots are conserved by all senders, writers, closers. *)
THEOREM SlotsAreConserved == Spec => []SlotsConserved
  <1>1. TransportInv => SlotsConserved
    BY DEF TransportInv
  <1> QED
    BY <1>1, TransportInvariant, PTL

(* The drained queue of a closed connection stays empty.                   *)
THEOREM ClosedStaysDrained == Spec => []NothingAfterClose
  <1>1. TransportInv => NothingAfterClose
    BY DEF TransportInv, Shape, ClosersOK, NothingAfterClose
  <1> QED
    BY <1>1, TransportInvariant, PTL

(* A sender with queueMu, or a writer or closer with a frame in hand, finds *)
(* room in the channel it sends on.                                        *)
RoomForHolders ==
    /\ \A t \in Senders : sender[t].stage = "enqueue" =>
          Len(queue[sender[t].conn]) < QueueCapacity
    /\ \A c \in Conns : "slotBack" \in {writer[c].stage, closer[c].stage} =>
          slots[c] < QueueCapacity

LEMMA HolderHasRoom ==
  ASSUME TransportInv, NEW c \in Conns, NEW x, x \in SlotHolders(c)
  PROVE  Len(queue[c]) < QueueCapacity /\ slots[c] < QueueCapacity
  <1>1. Cardinality(SlotHolders(c)) \in Nat /\ IsFiniteSet(SlotHolders(c))
    BY HoldersFinite
  <1>2. Cardinality(SlotHolders(c)) # 0
    BY <1>1, FS_EmptySet
  <1>3. /\ slots[c] + Len(queue[c]) + Cardinality(SlotHolders(c)) = QueueCapacity
        /\ slots[c] \in Nat /\ Len(queue[c]) \in Nat
    BY DEF TransportInv, SlotsConserved, Shape, Types
  <1>4. QueueCapacity \in Nat
    BY Limits
  <1> DEFINE n == Cardinality(SlotHolders(c))
  <1> HIDE DEF n
  <1> QED
    BY <1>1, <1>2, <1>3, <1>4 DEF n

(* Neither enqueueing nor handing a slot back can ever block, so the       *)
(* channel operations made with queueMu held cannot deadlock the lock.     *)
THEOREM LockNeverBlocks == Spec => []RoomForHolders
  <1>1. TransportInv => RoomForHolders
    <2> SUFFICES ASSUME TransportInv PROVE RoomForHolders
      OBVIOUS
    <2>1. ASSUME NEW t \in Senders, sender[t].stage = "enqueue"
          PROVE  Len(queue[sender[t].conn]) < QueueCapacity
      <3>1. sender[t].conn \in Conns
        BY <2>1 DEF TransportInv, Shape, SendersOK
      <3>2. t \in SlotHolders(sender[t].conn)
        BY <2>1 DEF SlotHolders
      <3> QED
        BY <3>1, <3>2, HolderHasRoom
    <2>2. ASSUME NEW c \in Conns, "slotBack" \in {writer[c].stage, closer[c].stage}
          PROVE  slots[c] < QueueCapacity
      <3>1. "writer" \in SlotHolders(c) \/ "closer" \in SlotHolders(c)
        BY <2>2 DEF SlotHolders
      <3> QED
        BY <3>1, HolderHasRoom
    <2> QED
      BY <2>1, <2>2 DEF RoomForHolders
  <1> QED
    BY <1>1, TransportInvariant, PTL

(* No Release underflows a budget or meets an entry that is gone.          *)
THEOREM BudgetsNeverPanic == Spec => []NoPanic
  <1>1. TransportInv => NoPanic
    <2> SUFFICES ASSUME TransportInv PROVE NoPanic
      OBVIOUS
    <2>0. Shape /\ Budgets /\ Types
      BY DEF TransportInv, Shape
    <2>1. ASSUME NEW t \in Senders, sender[t].stage = "rollback"
          PROVE  ~WouldPanic(sender[t].conn, sender[t].level, sender[t].bytes)
      <3>1. /\ sender[t].conn \in Conns /\ sender[t].bytes \in Sizes /\ sender[t].level \in 1 .. 2
            /\ phase[sender[t].conn] \in Known /\ queueMu[sender[t].conn] = t
        BY <2>0, <2>1 DEF Shape, SendersOK, Critical
      <3>c. PICK c \in Conns : c = sender[t].conn
        BY <3>1
      <3>l. PICK l \in Levels : l = sender[t].level
        BY <3>1 DEF Levels
      <3>b. PICK b \in Nat : b = sender[t].bytes
        BY <3>1, Limits
      <3>2. b > 0 /\ ip[c] \in IPs
        BY <2>0, <3>1, <3>b, <3>c, Limits DEF Shape, ConnsOK
      <3>3. Sending(l, c) = b
        <4>1. Reserved(l, sender[t]) = b
          BY <2>1, <3>l, <3>b DEF Reserved, Levels
        <4> QED
          BY <3>1, <3>c, <4>1 DEF Sending
      <3>4. b <= Charge(l, c)
        <4>1. /\ Sum(queue[c]) \in Nat /\ Returning(l, writer[c]) \in Nat
              /\ Returning(l, closer[c]) \in Nat
          BY <2>0, ChargeNat
        <4> QED
          BY <3>3, <4>1 DEF Charge
      <3>5. ~WouldPanic(c, l, b)
        BY <2>0, <3>2, <3>4, NoPanicAt
      <3> QED
        BY <3>5, <3>b, <3>c, <3>l
    <2>2. ASSUME NEW c \in Conns, writer[c].stage \in {"complete", "fail"}
          PROVE  ~WouldPanic(c, writer[c].level, writer[c].bytes)
      <3>1. writer[c].bytes \in Sizes /\ writer[c].level \in 1 .. 3 /\ phase[c] \in Known
        BY <2>0, <2>2 DEF Shape, WritersOK, ConnsOK
      <3>l. PICK l \in Levels : l = writer[c].level
        BY <3>1 DEF Levels
      <3>b. PICK b \in Nat : b = writer[c].bytes
        BY <3>1, Limits
      <3>2. b > 0 /\ ip[c] \in IPs
        BY <2>0, <3>1, <3>b, Limits DEF Shape, ConnsOK
      <3>3. Returning(l, writer[c]) = b
        BY <2>2, <3>l, <3>b DEF Returning, Levels
      <3>4. b <= Charge(l, c)
        <4>1. /\ Sum(queue[c]) \in Nat /\ Sending(l, c) \in Nat
              /\ Returning(l, closer[c]) \in Nat
          BY <2>0, ChargeNat
        <4> QED
          BY <3>3, <4>1 DEF Charge
      <3>5. ~WouldPanic(c, l, b)
        BY <2>0, <3>2, <3>4, NoPanicAt
      <3> QED
        BY <3>5, <3>b, <3>l
    <2>3. ASSUME NEW c \in Conns, closer[c].stage = "release"
          PROVE  ~WouldPanic(c, closer[c].level, closer[c].bytes)
      <3>1. closer[c].bytes \in Sizes /\ closer[c].level \in 1 .. 3 /\ phase[c] \in Known
        BY <2>0, <2>3 DEF Shape, ClosersOK, Known
      <3>l. PICK l \in Levels : l = closer[c].level
        BY <3>1 DEF Levels
      <3>b. PICK b \in Nat : b = closer[c].bytes
        BY <3>1, Limits
      <3>2. b > 0 /\ ip[c] \in IPs
        BY <2>0, <3>1, <3>b, Limits DEF Shape, ConnsOK
      <3>3. Returning(l, closer[c]) = b
        BY <2>3, <3>l, <3>b DEF Returning, Levels
      <3>4. b <= Charge(l, c)
        <4>1. /\ Sum(queue[c]) \in Nat /\ Sending(l, c) \in Nat
              /\ Returning(l, writer[c]) \in Nat
          BY <2>0, ChargeNat
        <4> QED
          BY <3>3, <4>1 DEF Charge
      <3>5. ~WouldPanic(c, l, b)
        BY <2>0, <3>2, <3>4, NoPanicAt
      <3> QED
        BY <3>5, <3>b, <3>l
    <2>4. ASSUME NEW c \in Conns, reader[c].stage = "body" PROVE global.read >= ReadSize
      <3>1. ReadAll[c] = ReadSize
        BY <2>4 DEF ReadAll
      <3>2. ReadAll[c] <= Sum(ReadAll) /\ Sum(ReadAll) \in Nat
        BY <2>0, SumFacts
      <3> QED
        BY <2>0, <3>1, <3>2, Limits DEF Budgets, GlobalReadBudget
    <2>5. ASSUME NEW c \in Conns, phase[c] = "open"
          PROVE  /\ usage[ip[c]] # Nil /\ usage[ip[c]].connections > 0
                 /\ reader[c].stage # "idle" => usage[ip[c]].read >= ReadSize
      <3>1. ip[c] \in IPs
        BY <2>0, <2>5 DEF Shape, ConnsOK, Known
      <3>2. /\ usage[ip[c]] # Nil /\ usage[ip[c]].connections >= 1
            /\ usage[ip[c]].connections \in Nat /\ usage[ip[c]].read \in Nat
            /\ reader[c].stage # "idle" => ReadSize <= usage[ip[c]].read
        BY <2>0, <2>5, <3>1, OpenEntry
      <3> QED
        BY <3>2, Limits
    <2>6. \A c \in Conns : reader[c].stage # "idle" => phase[c] = "open"
      BY <2>0 DEF Shape, ConnsOK
    <2> QED
      BY <2>1, <2>2, <2>3, <2>4, <2>5, <2>6 DEF NoPanic
  <1> QED
    BY <1>1, TransportInvariant, PTL

(* No budget exceeds its limit, although the levels are reserved in turn.  *)
THEOREM LimitsHold == Spec => []WithinLimits
  <1>1. TransportInv => WithinLimits
    <2> SUFFICES ASSUME TransportInv PROVE WithinLimits
      OBVIOUS
    <2>0. Shape /\ Budgets /\ Types
      BY DEF TransportInv, Shape
    <2>1. ASSUME NEW c \in Conns PROVE connUsed[c] \in 0 .. ConnLimit
      <3>1. Charge(1, c) \in Nat
        BY <2>0, ChargeNat DEF Levels
      <3> QED
        BY <2>0, <3>1, Limits DEF Budgets, ConnBudget
    <2>2. ASSUME NEW a \in IPs, usage[a] # Nil
          PROVE  /\ usage[a].connections \in 0 .. MaxConnectionsPerIP
                 /\ usage[a].outbound \in 0 .. IPLimit /\ usage[a].read \in 0 .. IPReadLimit
      <3>1. UsageOf(a) = usage[a]
        BY <2>2 DEF UsageOf
      <3>2. UsageOf(a).connections \in Nat /\ UsageOf(a).outbound \in Nat /\ UsageOf(a).read \in Nat
        BY <2>0, UsageFields
      <3>3. /\ UsageOf(a).outbound <= IPLimit /\ UsageOf(a).connections <= MaxConnectionsPerIP
            /\ UsageOf(a).read <= IPReadLimit
        BY <2>0 DEF Budgets, OutboundBudget, OpenBudget, ReadBudget
      <3> QED
        BY <3>1, <3>2, <3>3, Limits
    <2>3. global.outbound \in 0 .. GlobalLimit /\ global.read \in 0 .. GlobalReadLimit
      BY <2>0, SumFacts, Limits DEF Budgets, GlobalBudget, GlobalReadBudget
    <2> QED
      BY <2>1, <2>2, <2>3 DEF WithinLimits
  <1> QED
    BY <1>1, TransportInvariant, PTL

(* A connection whose closer is at rest on an empty queue is charged what  *)
(* its writer and the holder of its lock still hold.                       *)
LEMMA RestingCharge ==
  ASSUME Shape, NEW c \in Conns, queue[c] = <<>>, closer[c].stage \in {"idle", "done"},
         writer[c].stage \in {"idle", "gone"}, NEW l \in Levels
  PROVE  /\ Charge(l, c) = Sending(l, c)
         /\ Sending(l, c) # 0 => \E t \in Senders : sender[t].stage \notin {"idle", "slot"}
  <1>1. Sum(queue[c]) = 0 /\ Returning(l, writer[c]) = 0 /\ Returning(l, closer[c]) = 0
    BY EmptySum DEF Returning
  <1>2. Sending(l, c) \in Nat
    BY ChargeNat DEF Shape
  <1>3. Sending(l, c) # 0 => \E t \in Senders : sender[t].stage \notin {"idle", "slot"}
    BY DEF Sending, Reserved
  <1> QED
    BY <1>1, <1>2, <1>3 DEF Charge

(* What is charged to a source IP, or to the process, is charged for some  *)
(* connection, writer or sender that is still at work.                     *)
THEOREM BudgetsDoNotLeak == Spec => []NothingLeaks
  <1>1. TransportInv => NothingLeaks
    <2> SUFFICES ASSUME TransportInv PROVE NothingLeaks
      OBVIOUS
    <2>0. Shape /\ Budgets /\ Types
      BY DEF TransportInv, Shape
    <2>1. ASSUME NEW a \in IPs, usage[a] # Nil
          PROVE  \/ \E c \in Conns : ip[c] = a /\ phase[c] = "open"
                 \/ \E c \in Conns : ip[c] = a /\ writer[c].stage # "gone"
                 \/ \E t \in Senders : sender[t].stage \notin {"idle", "slot"}
      <3>1. UsageOf(a) = usage[a]
        BY <2>1 DEF UsageOf
      <3>2. UsageOf(a).connections \in Nat /\ UsageOf(a).outbound \in Nat /\ UsageOf(a).read \in Nat
        BY <2>0, UsageFields
      <3>3. UsageOf(a).connections + UsageOf(a).outbound + UsageOf(a).read > 0
        BY <2>0, <2>1, <3>1 DEF Budgets, EntriesUsed
      <3>4. /\ UsageOf(a).outbound = Sum(OutboundOf(a)) /\ UsageOf(a).connections = Sum(OpenOf(a))
            /\ UsageOf(a).read = Sum(ReadOf(a))
        BY <2>0 DEF Budgets, OutboundBudget, OpenBudget, ReadBudget
      <3>5. /\ OutboundOf(a) \in [Conns -> Nat] /\ OpenOf(a) \in [Conns -> Nat]
            /\ ReadOf(a) \in [Conns -> Nat]
        BY <2>0, SumsTyped
      <3>6. CASE Sum(OpenOf(a)) > 0
        <4>1. PICK c \in Conns : OpenOf(a)[c] > 0
          BY <3>5, <3>6, Limits, SumBounds
        <4>2. ip[c] = a /\ phase[c] = "open"
          BY <4>1 DEF OpenOf
        <4> QED
          BY <4>2
      <3>7. CASE Sum(ReadOf(a)) > 0
        <4>1. PICK c \in Conns : ReadOf(a)[c] > 0
          BY <3>5, <3>7, Limits, SumBounds
        <4>2. ip[c] = a /\ reader[c].stage # "idle"
          BY <4>1 DEF ReadOf
        <4> QED
          BY <2>0, <4>2 DEF Shape, ConnsOK
      <3>8. CASE Sum(OutboundOf(a)) > 0
        <4>1. PICK c \in Conns : OutboundOf(a)[c] > 0
          BY <3>5, <3>8, Limits, SumBounds
        <4>2. ip[c] = a /\ Charge(2, c) > 0
          BY <4>1 DEF OutboundOf
        <4>3. CASE writer[c].stage # "gone"
          BY <4>2, <4>3
        <4>4. CASE writer[c].stage = "gone"
          <5>1. closer[c].stage = "done" /\ queue[c] = <<>>
            BY <2>0, <4>4 DEF Shape, WritersOK, ClosersOK
          <5>2. Charge(2, c) = Sending(2, c) /\ (Sending(2, c) # 0 =>
                   \E t \in Senders : sender[t].stage \notin {"idle", "slot"})
            BY <2>0, <4>4, <5>1, RestingCharge DEF Levels
          <5> QED
            BY <4>2, <5>2
        <4> QED
          BY <4>3, <4>4
      <3> QED
        BY <3>2, <3>3, <3>4, <3>6, <3>7, <3>8
    <2>2. ASSUME \A c \in Conns : phase[c] \in {"new", "refused", "released"},
                 \A c \in Conns : writer[c].stage \in {"idle", "gone"},
                 \A t \in Senders : sender[t].stage \in {"idle", "slot"}
          PROVE  global = [outbound |-> 0, read |-> 0]
      <3>1. \A c \in Conns : Outbound[c] = 0
        <4> SUFFICES ASSUME NEW c \in Conns PROVE Outbound[c] = 0
          OBVIOUS
        <4>1. queue[c] = <<>> /\ closer[c].stage \in {"idle", "done"}
          BY <2>0, <2>2 DEF Shape, ConnsOK, ClosersOK, Known
        <4>2. Charge(3, c) = 0
          BY <2>0, <2>2, <4>1, RestingCharge DEF Levels
        <4> QED
          BY <4>2 DEF Outbound
      <3>2. \A c \in Conns : ReadAll[c] = 0
        BY <2>0, <2>2 DEF ReadAll, Shape, ConnsOK
      <3>3. Sum(Outbound) = 0 /\ Sum(ReadAll) = 0
        <4>1. Outbound \in [Conns -> Nat] /\ ReadAll \in [Conns -> Nat]
          BY <2>0, SumsTyped
        <4> QED
          BY <3>1, <3>2, <4>1, Limits, ZeroSum
      <3>4. global.outbound = 0 /\ global.read = 0 /\ global \in [outbound : Int, read : Int]
        BY <2>0, <3>3 DEF Budgets, GlobalBudget, GlobalReadBudget, Types
      <3> QED
        BY <3>4
    <2> QED
      BY <2>1, <2>2 DEF NothingLeaks
  <1> QED
    BY <1>1, TransportInvariant, PTL
=============================================================================
