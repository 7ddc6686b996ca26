-------------------------- MODULE LocalReadProofs --------------------------
(***************************************************************************)
(* Proofs about LocalRead: whatever the number of nodes, the length of the *)
(* log, the elections and the replicas that lag or are halted, what is     *)
(* served as proved was servable at some moment of the call.               *)
(***************************************************************************)
EXTENDS LocalRead, FiniteSetTheorems, WellFoundedInduction, TLAPS

-----------------------------------------------------------------------------
(* The strengthening.                                                      *)

\* Where the query waits for, or holds, an answer of another node.
Asking == {"barrier", "reply", "replied",
           "proxyBarrier", "proxyReply", "proxyReplied", "proxy"}

Steps == Asking \cup Outcomes \cup {"idle", "checked", "refused"}

Replies == [epoch : Nat, available : SUBSET Nat, raft : Nat, index : 0..MaxLog]

Reads == [pc : Steps, node : Readers \cup {NoNode}, gen : 0..MaxLog,
          epoch : Nat, owner : Nodes \cup {NoNode}, to : Nodes \cup {NoNode},
          reply : Replies, unpinned : BOOLEAN, from : 0..MaxLog,
          servable : SUBSET Nat]

\* Every variable has its type, and no replica is ahead of the log.
ReplicasTyped ==
  /\ log \in Seq(Nodes \cup {NoNode}) /\ Len(log) <= MaxLog
  /\ leader \in Nodes \cup {NoNode}
  /\ raft \in [Nodes -> Nat] /\ fsm \in [Nodes -> Nat]
  /\ \A n \in Nodes : fsm[n] <= raft[n] /\ raft[n] <= Len(log)
  /\ expired \subseteq Generations(Len(log))
  /\ blobs \in [Nodes -> SUBSET Indices]
  /\ status \in [Readers -> [leader : Nodes \cup {NoNode},
                             available : SUBSET Nat]]

\* The query names a reader, and asks another node than that reader.
ReadTyped ==
  /\ read \in Reads
  /\ read.from <= Len(log)
  /\ read.pc # "idle" => read.node \in Readers
  /\ read.pc \in Asking => read.to \in Nodes \ {read.node}

\* The leader has executed the whole log, its own acquisition included.
LeaderIsCurrent == leader # NoNode => fsm[leader] = Len(log)

\* A node that has passed the leadership check has executed the log that
\* the query began with, even if it is no longer the leader.
AskedIsCurrent ==
  read.pc \in {"reply", "proxyReply"} => fsm[read.to] >= read.from

\* What is servable of the log the query began with was servable then.
ServableShrinks == Servable(read.from) \subseteq read.servable

\* Servable when the query began, or published since.
Good(g) == g \in read.servable \/ g > read.from

AnswerIsGood ==
  /\ read.pc \in {"replied", "proxyReplied"} =>
       \A g \in read.reply.available : Good(g)
  /\ read.pc \in {"proxy", "proved", "proxied"} => Good(read.gen)

ReadInv ==
  /\ ReplicasTyped
  /\ ReadTyped
  /\ LeaderIsCurrent
  /\ AskedIsCurrent
  /\ ServableShrinks
  /\ AnswerIsGood

-----------------------------------------------------------------------------
(* The latest of a bounded set of indices.                                 *)

\* A nonempty bounded set of naturals has a greatest element, and Max is it.
LEMMA MaxIsGreatest ==
  ASSUME NEW k \in Nat, NEW S \in SUBSET (0..k), S # {}
  PROVE  Max(S) \in S /\ \A x \in S : Max(S) >= x
<1>0. \A x \in S : x \in Nat /\ x <= k
  OBVIOUS
<1> DEFINE D == {k - x : x \in S}
<1>1. D \subseteq Nat /\ D # {}
  <2>1. \A x \in S : k - x \in Nat
    BY <1>0
  <2>2. PICK x : x \in S
    OBVIOUS
  <2>3. k - x \in D
    BY <2>2
  <2> QED BY <2>1, <2>3
<1>2. PICK d \in D : \A e \in D : ~(<<e, d>> \in OpToRel(<, Nat))
  <2> HIDE DEF D
  <2> QED BY <1>1, WFMin, NatLessThanWellFounded
<1>3. ASSUME NEW e \in D
      PROVE  e >= d
  <2> HIDE DEF D
  <2>1. e \in Nat /\ d \in Nat
    BY <1>1, <1>3
  <2>2. <<e, d>> \in OpToRel(<, Nat) <=> e < d
    BY <2>1 DEF OpToRel
  <2>3. ~(e < d)
    BY <1>2, <1>3, <2>2, Zenon
  <2> QED BY <2>1, <2>3
<1>4. PICK m \in S : d = k - m
  OBVIOUS
<1>5. ASSUME NEW x \in S
      PROVE  m >= x
  <2>1. k - x >= k - m
    BY <1>3, <1>4
  <2> QED BY <1>0, <2>1
<1> QED BY <1>5 DEF Max

\* The active generation is the latest one, 0 if there is none.
LEMMA ActiveIsLatest ==
  ASSUME NEW k \in Nat
  PROVE  /\ Active(k) \in Generations(k) \cup {0}
         /\ \A g \in Generations(k) : Active(k) >= g
<1> DEFINE S == Generations(k) \cup {0}
<1>1. S \in SUBSET (0..k) /\ S # {}
  BY DEF Generations
<1> HIDE DEF S
<1>2. Max(S) \in S /\ \A x \in S : Max(S) >= x
  BY <1>1, MaxIsGreatest
<1> QED BY <1>2 DEF S, Active

\* An epoch is a number, since a log has finitely many acquisitions.
LEMMA EpochType ==
  ASSUME NEW k \in Nat
  PROVE  Epoch(k) \in Nat
<1>1. IsFiniteSet(1..k)
  BY FS_Interval
<1>2. IsFiniteSet((1..k) \ Generations(k))
  BY <1>1, FS_Difference
<1> QED BY <1>2, FS_CardinalityType DEF Epoch

\* The owner is a node, or no one before the first acquisition.
LEMMA OwnerType ==
  ASSUME log \in Seq(Nodes \cup {NoNode}), NEW k \in 0..Len(log)
  PROVE  Owner(k) \in Nodes \cup {NoNode}
<1> DEFINE acquired == (1..k) \ Generations(k)
<1>0. k \in Nat
  OBVIOUS
<1>1. CASE acquired = {}
  BY <1>1 DEF Owner
<1>2. CASE acquired # {}
  <2>1. acquired \in SUBSET (0..k)
    OBVIOUS
  <2> HIDE DEF acquired
  <2>2. Max(acquired) \in acquired
    BY <1>0, <1>2, <2>1, MaxIsGreatest
  <2>3. Max(acquired) \in 1..Len(log)
    BY <2>2 DEF acquired
  <2>4. log[Max(acquired)] \in Nodes \cup {NoNode}
    BY <2>3
  <2> QED BY <1>2, <2>4 DEF Owner, acquired
<1> QED BY <1>1, <1>2

\* What is servable of a log, and was in a prefix of it, was servable there.
LEMMA ServableInPrefix ==
  ASSUME NEW k \in Nat, NEW j \in Nat, j <= k, NEW g \in Servable(k), g <= j
  PROVE  g \in Servable(j)
<1>1. g \in Generations(k) /\ (g = Active(k) \/ g \notin expired)
  BY DEF Servable
<1>2. g \in Generations(j) /\ Generations(j) \subseteq Generations(k)
  BY <1>1 DEF Generations
<1>3. CASE g \notin expired
  BY <1>2, <1>3 DEF Servable
<1>4. CASE g = Active(k)
  <2>1. \A h \in Generations(j) : g >= h
    BY <1>2, <1>4, ActiveIsLatest
  <2>2. Active(j) \in Generations(j) \cup {0} /\ Active(j) >= g
    BY <1>2, ActiveIsLatest
  <2>3. g \in Nat \ {0} /\ Active(j) \in Nat
    BY <1>2, <2>2 DEF Generations
  <2>4. Active(j) \in Generations(j)
    BY <2>2, <2>3
  <2>5. g = Active(j)
    BY <2>1, <2>2, <2>3, <2>4
  <2> QED BY <1>2, <2>5 DEF Servable
<1> QED BY <1>1, <1>3, <1>4

-----------------------------------------------------------------------------
(* Steps of the system around a query.                                     *)

\* A longer log means the same up to any entry of the shorter one.
LEMMA PrefixIsKept ==
  ASSUME log \in Seq(Nodes \cup {NoNode}), NEW x \in Nodes \cup {NoNode},
         log' = Append(log, x), NEW k \in 0..Len(log)
  PROVE  Generations(k)' = Generations(k)
BY DEF Generations

\* A query keeps what it has while entries are appended and executed, and
\* pins run out.
LEMMA QueryIsKept ==
  ASSUME ReadInv, read' = read,
         \/ log' = log
         \/ \E x \in Nodes \cup {NoNode} : log' = Append(log, x),
         expired \subseteq expired',
         \A n \in Nodes : fsm'[n] \in Nat /\ fsm'[n] >= fsm[n]
  PROVE  ReadTyped' /\ AskedIsCurrent' /\ ServableShrinks' /\ AnswerIsGood'
<1> USE DEF ReadInv
<1>1. log \in Seq(Nodes \cup {NoNode}) /\ Len(log) \in Nat /\ Len(log') \in Nat
      /\ Len(log) <= Len(log')
  BY DEF ReplicasTyped
<1>2. PICK j \in Nat : j = read.from
  BY DEF ReadTyped, Reads
<1>3. j \in 0..Len(log)
  BY <1>1, <1>2 DEF ReadTyped
<1>4. ReadTyped'
  BY <1>1, <1>2, <1>3 DEF ReadTyped
<1>5. AskedIsCurrent'
  <2> SUFFICES ASSUME read.pc \in {"reply", "proxyReply"}
               PROVE  fsm'[read.to] >= read.from
    BY DEF AskedIsCurrent
  <2>1. read.to \in Nodes
    BY DEF ReadTyped, Asking
  <2>2. fsm[read.to] \in Nat /\ fsm[read.to] >= j
    BY <1>2, <2>1 DEF AskedIsCurrent, ReplicasTyped
  <2> QED BY <1>2, <2>1, <2>2
<1>6. Generations(j)' = Generations(j)
  <2>1. CASE log' = log
    BY <2>1 DEF Generations
  <2>2. CASE \E x \in Nodes \cup {NoNode} : log' = Append(log, x)
    BY <1>1, <1>3, <2>2, PrefixIsKept
  <2> QED BY <2>1, <2>2
<1>7. Servable(j)' \subseteq Servable(j)
  BY <1>6 DEF Servable, Active
<1>8. ServableShrinks'
  BY <1>2, <1>7 DEF ServableShrinks
<1>9. AnswerIsGood'
  BY DEF AnswerIsGood, Good
<1> QED BY <1>4, <1>5, <1>8, <1>9

\* An election appends the winner's acquisition and executes it there.
LEMMA ElectKeeps ==
  ASSUME ReadInv, NEW n \in Nodes, Elect(n)
  PROVE  ReadInv'
<1> USE DEF ReadInv
<1>1. /\ log \in Seq(Nodes \cup {NoNode}) /\ Len(log) \in Nat
      /\ log' \in Seq(Nodes \cup {NoNode}) /\ Len(log') = Len(log) + 1
  BY DEF Elect, ReplicasTyped
<1>2. ReplicasTyped'
  <2>1. Generations(Len(log)) \subseteq Generations(Len(log))'
    BY <1>1 DEF Elect, Generations
  <2>2. expired' \subseteq Generations(Len(log))'
    BY <2>1 DEF Elect, ReplicasTyped
  <2>3. Len(log') <= MaxLog
    BY <1>1, ReadAssumption DEF Elect
  <2>4. /\ raft' \in [Nodes -> Nat] /\ fsm' \in [Nodes -> Nat]
        /\ \A m \in Nodes : fsm'[m] <= raft'[m] /\ raft'[m] <= Len(log')
    BY <1>1 DEF Elect, ReplicasTyped
  <2> QED BY <1>1, <2>2, <2>3, <2>4 DEF Elect, ReplicasTyped
<1>3. LeaderIsCurrent'
  BY <1>1 DEF Elect, LeaderIsCurrent, ReplicasTyped
<1>4. \A m \in Nodes : fsm'[m] \in Nat /\ fsm'[m] >= fsm[m]
  BY <1>1 DEF Elect, ReplicasTyped
<1>5. ReadTyped' /\ AskedIsCurrent' /\ ServableShrinks' /\ AnswerIsGood'
  BY <1>4, QueryIsKept DEF Elect
<1> QED BY <1>2, <1>3, <1>5

\* A publication appends a generation and executes it at the leader.
LEMMA PublishKeeps ==
  ASSUME ReadInv, NEW Q \in SUBSET Nodes, Publish(Q)
  PROVE  ReadInv'
<1> USE DEF ReadInv
<1>1. /\ log \in Seq(Nodes \cup {NoNode}) /\ Len(log) \in Nat
      /\ log' \in Seq(Nodes \cup {NoNode}) /\ Len(log') = Len(log) + 1
      /\ leader \in Nodes
  BY DEF Publish, ReplicasTyped
<1>2. Len(log') \in Indices /\ Len(log') <= MaxLog
  BY <1>1, ReadAssumption DEF Publish, Indices
<1>3. ReplicasTyped'
  <2>1. Generations(Len(log)) \subseteq Generations(Len(log))'
    BY <1>1 DEF Publish, Generations
  <2>2. expired' \subseteq Generations(Len(log))'
    BY <2>1 DEF Publish, ReplicasTyped
  <2>3. blobs' \in [Nodes -> SUBSET Indices]
    BY <1>2 DEF Publish, ReplicasTyped
  <2>4. /\ raft' \in [Nodes -> Nat] /\ fsm' \in [Nodes -> Nat]
        /\ \A m \in Nodes : fsm'[m] <= raft'[m] /\ raft'[m] <= Len(log')
    BY <1>1 DEF Publish, ReplicasTyped
  <2> QED BY <1>1, <1>2, <2>2, <2>3, <2>4 DEF Publish, ReplicasTyped
<1>4. LeaderIsCurrent'
  BY <1>1 DEF Publish, LeaderIsCurrent, ReplicasTyped
<1>5. \A m \in Nodes : fsm'[m] \in Nat /\ fsm'[m] >= fsm[m]
  BY <1>1 DEF Publish, ReplicasTyped
<1>6. ReadTyped' /\ AskedIsCurrent' /\ ServableShrinks' /\ AnswerIsGood'
  BY <1>5, QueryIsKept DEF Publish
<1> QED BY <1>3, <1>4, <1>6

\* A replica moves: what it executes was handed over, and no leader lags.
LEMMA ReplicaKeeps ==
  ASSUME ReadInv, NEW n \in Nodes, HandOver(n) \/ Execute(n) \/ Fetch(n)
  PROVE  ReadInv'
<1> USE DEF ReadInv
<1>1. /\ log \in Seq(Nodes \cup {NoNode}) /\ Len(log) \in Nat /\ log' = log
      /\ leader' = leader /\ expired' = expired /\ status' = status
      /\ read' = read
  BY DEF HandOver, Execute, Fetch, ReplicasTyped
<1>2. expired' \subseteq Generations(Len(log))'
  BY <1>1 DEF ReplicasTyped, Generations
<1>3. CASE HandOver(n)
  <2>1. ReplicasTyped'
    BY <1>1, <1>2, <1>3 DEF HandOver, ReplicasTyped
  <2>2. LeaderIsCurrent' /\ \A m \in Nodes : fsm'[m] \in Nat /\ fsm'[m] >= fsm[m]
    BY <1>3 DEF HandOver, LeaderIsCurrent, ReplicasTyped
  <2>3. ReadTyped' /\ AskedIsCurrent' /\ ServableShrinks' /\ AnswerIsGood'
    BY <1>1, <2>2, QueryIsKept
  <2> QED BY <2>1, <2>2, <2>3
<1>4. CASE Execute(n)
  <2>1. ReplicasTyped'
    BY <1>1, <1>2, <1>4 DEF Execute, ReplicasTyped
  <2>2. leader # n
    BY <1>1, <1>4, ReadAssumption DEF Execute, LeaderIsCurrent, ReplicasTyped
  <2>3. LeaderIsCurrent'
    BY <1>1, <1>4, <2>2 DEF Execute, LeaderIsCurrent, ReplicasTyped
  <2>4. \A m \in Nodes : fsm'[m] \in Nat /\ fsm'[m] >= fsm[m]
    BY <1>4 DEF Execute, ReplicasTyped
  <2>5. ReadTyped' /\ AskedIsCurrent' /\ ServableShrinks' /\ AnswerIsGood'
    BY <1>1, <2>4, QueryIsKept
  <2> QED BY <2>1, <2>3, <2>5
<1>5. CASE Fetch(n)
  <2>1. PICK g \in Generations(fsm[n]) : blobs' = [blobs EXCEPT ![n] = @ \cup {g}]
    BY <1>5 DEF Fetch
  <2>2. fsm[n] \in Nat /\ fsm[n] <= MaxLog
    BY <1>1, ReadAssumption DEF ReplicasTyped
  <2>3. g \in Indices
    BY <2>1, <2>2, ReadAssumption DEF Generations, Indices
  <2>4. blobs' \in [Nodes -> SUBSET Indices]
    BY <2>1, <2>3 DEF ReplicasTyped
  <2>5. raft' = raft /\ fsm' = fsm
    BY <1>5 DEF Fetch
  <2>6. ReplicasTyped'
    BY <1>1, <1>2, <2>4, <2>5 DEF ReplicasTyped
  <2>7. LeaderIsCurrent' /\ \A m \in Nodes : fsm'[m] \in Nat /\ fsm'[m] >= fsm[m]
    BY <1>1, <2>5 DEF LeaderIsCurrent, ReplicasTyped
  <2>8. ReadTyped' /\ AskedIsCurrent' /\ ServableShrinks' /\ AnswerIsGood'
    BY <1>1, <2>7, QueryIsKept
  <2> QED BY <2>6, <2>7, <2>8
<1> QED BY <1>3, <1>4, <1>5

\* A pin runs out.
LEMMA ExpireKeeps ==
  ASSUME ReadInv, NEW g, Expire(g)
  PROVE  ReadInv'
<1> USE DEF ReadInv
<1>1. Generations(Len(log))' = Generations(Len(log))
  BY DEF Expire, Generations
<1>2. ReplicasTyped' /\ LeaderIsCurrent'
  BY <1>1 DEF Expire, ReplicasTyped, LeaderIsCurrent
<1>3. \A m \in Nodes : fsm'[m] \in Nat /\ fsm'[m] >= fsm[m]
  BY DEF Expire, ReplicasTyped
<1>4. ReadTyped' /\ AskedIsCurrent' /\ ServableShrinks' /\ AnswerIsGood'
  BY <1>3, QueryIsKept DEF Expire
<1> QED BY <1>2, <1>4

\* The status of the node that is queried is renewed.
LEMMA RefreshKeeps ==
  ASSUME ReadInv, NEW n \in Readers, Refresh(n)
  PROVE  ReadInv'
<1> USE DEF ReadInv
<1>1. n \in Nodes
  BY ReadAssumption
<1>2. AvailableGenerations(n) \subseteq Nat
  BY <1>1 DEF AvailableGenerations, ReplicasTyped, Indices
<1>3. status' \in [Readers -> [leader : Nodes \cup {NoNode},
                               available : SUBSET Nat]]
  BY <1>2 DEF Refresh, ReplicasTyped
<1>4. Generations(Len(log))' = Generations(Len(log))
  BY DEF Refresh, Generations
<1>5. ReplicasTyped' /\ LeaderIsCurrent'
  BY <1>3, <1>4 DEF Refresh, ReplicasTyped, LeaderIsCurrent
<1>6. \A m \in Nodes : fsm'[m] \in Nat /\ fsm'[m] >= fsm[m]
  BY DEF Refresh, ReplicasTyped
<1>7. ReadTyped' /\ AskedIsCurrent' /\ ServableShrinks' /\ AnswerIsGood'
  BY <1>6, QueryIsKept DEF Refresh
<1> QED BY <1>5, <1>7

-----------------------------------------------------------------------------
(* Steps of the query.                                                     *)

\* The query itself changes nothing that others see.
LEMMA QueryTouchesNothing ==
  ASSUME ReadInv, ReadStep
  PROVE  /\ ReplicasTyped' /\ LeaderIsCurrent'
         /\ \A k : Generations(k)' = Generations(k) /\ Servable(k)' = Servable(k)
<1>1. \A k : Generations(k)' = Generations(k) /\ Servable(k)' = Servable(k)
  BY DEF ReadStep, Generations, Servable, Active
<1>2. Generations(Len(log))' = Generations(Len(log))
  BY DEF ReadStep, Generations
<1> QED BY <1>1, <1>2 DEF ReadInv, ReplicasTyped, LeaderIsCurrent, ReadStep

\* A query that goes on keeps its origin and what was servable then.
LEMMA OriginIsKept ==
  ASSUME ReadInv, ReadStep,
         read'.from = read.from, read'.servable = read.servable
  PROVE  ServableShrinks'
<1>1. PICK j : j = read.from
  OBVIOUS
<1>2. Servable(j)' = Servable(j)
  BY QueryTouchesNothing
<1> QED BY <1>1, <1>2 DEF ReadInv, ServableShrinks

\* The query moves to another step and keeps everything else: it is enough
\* to look at the steps that promise something.
LEMMA QueryMoves ==
  ASSUME ReadInv, ReadStep, NEW p \in Steps,
         read' = [read EXCEPT !.pc = p],
         read.pc # "idle",
         p \in Asking => read.pc \in Asking,
         p \in {"reply", "proxyReply"} => fsm[read.to] >= read.from,
         p \in {"replied", "proxyReplied"} => FALSE,
         p \in {"proxy", "proved", "proxied"} => Good(read.gen)
  PROVE  ReadInv'
<1> USE DEF ReadInv
<1>1. read \in Reads
  BY DEF ReadTyped
<1>2. /\ read' \in Reads /\ read'.pc = p /\ read'.node = read.node
      /\ read'.gen = read.gen /\ read'.to = read.to
      /\ read'.reply = read.reply /\ read'.from = read.from
      /\ read'.servable = read.servable
  BY <1>1 DEF Reads
<1>3. ReplicasTyped' /\ LeaderIsCurrent' /\ ServableShrinks'
  BY <1>2, QueryTouchesNothing, OriginIsKept
<1>4. ReadTyped'
  BY <1>2 DEF ReadTyped, ReadStep
<1>5. AskedIsCurrent'
  BY <1>2 DEF AskedIsCurrent, ReadStep
<1>6. AnswerIsGood'
  BY <1>2 DEF AnswerIsGood, Good
<1> QED BY <1>3, <1>4, <1>5, <1>6

\* A query begins: what is servable is what it will be judged by.
LEMMA BeginReadKeeps ==
  ASSUME ReadInv, NEW n \in Readers, NEW g, BeginRead(n, g)
  PROVE  ReadInv'
<1> USE DEF ReadInv
<1>0. n \in Nodes /\ ReadStep
  BY ReadAssumption DEF BeginRead
<1>1. /\ fsm[n] \in 0..Len(log) /\ fsm[n] \in Nat
      /\ Len(log) \in 0..MaxLog /\ Len(log) \in Nat
      /\ log \in Seq(Nodes \cup {NoNode})
  BY <1>0, ReadAssumption DEF ReplicasTyped
<1>2. g \in 0..MaxLog
  <2>1. g \in 1..fsm[n] /\ MaxLog \in Nat
    BY ReadAssumption DEF BeginRead, Generations
  <2> QED BY <1>1, <2>1
<1>3. Epoch(fsm[n]) \in Nat
  BY <1>1, EpochType
<1>4. Owner(fsm[n]) \in Nodes \cup {NoNode}
  BY <1>1, OwnerType
<1>5. Servable(Len(log)) \subseteq Nat
  BY <1>1 DEF Servable, Generations
<1>6. PICK p \in {"checked", "refused"} :
        read' = [NoRead EXCEPT
          !.pc = p, !.node = n, !.gen = g, !.unpinned = (g = Active(fsm[n])),
          !.epoch = Epoch(fsm[n]), !.owner = Owner(fsm[n]),
          !.from = Len(log), !.servable = Servable(Len(log))]
  <2>1. CASE g \in AvailableGenerations(n)
    BY <2>1 DEF BeginRead
  <2>2. CASE g \notin AvailableGenerations(n)
    BY <2>2 DEF BeginRead
  <2> QED BY <2>1, <2>2
<1>7. p \in Steps /\ p # "idle" /\ p \notin Asking
      /\ p \notin {"reply", "proxyReply", "replied", "proxyReplied",
                   "proxy", "proved", "proxied"}
  BY <1>6 DEF Steps, Asking
<1>8. NoReply \in Replies
  BY ReadAssumption DEF NoReply, Replies
<1>9. read' = [pc |-> p, node |-> n, gen |-> g, epoch |-> Epoch(fsm[n]),
               owner |-> Owner(fsm[n]), to |-> NoNode, reply |-> NoReply,
               unpinned |-> (g = Active(fsm[n])), from |-> Len(log),
               servable |-> Servable(Len(log))]
  BY <1>6 DEF NoRead
<1>10. read' \in Reads
  BY <1>2, <1>3, <1>4, <1>5, <1>7, <1>8, <1>9, <1>1 DEF Reads
<1>11. /\ read'.pc = p /\ read'.node = n /\ read'.from = Len(log)
       /\ read'.servable = Servable(Len(log))
  BY <1>9
<1>12. ReplicasTyped' /\ LeaderIsCurrent'
  BY <1>0, QueryTouchesNothing
<1>13. ReadTyped'
  BY <1>0, <1>1, <1>7, <1>10, <1>11 DEF ReadTyped, ReadStep
<1>14. AskedIsCurrent' /\ AnswerIsGood'
  BY <1>7, <1>11 DEF AskedIsCurrent, AnswerIsGood
<1>15. ServableShrinks'
  <2>1. PICK j : j = Len(log)
    OBVIOUS
  <2>2. Servable(j)' = Servable(j)
    BY <1>0, QueryTouchesNothing
  <2> QED BY <1>11, <2>1, <2>2 DEF ServableShrinks
<1> QED BY <1>12, <1>13, <1>14, <1>15

\* The node that is queried decides by itself, or asks the leader it knows.
LEMMA CheckLocallyKeeps ==
  ASSUME ReadInv, NEW recent \in BOOLEAN, CheckLocally(recent)
  PROVE  ReadInv'
<1> USE DEF ReadInv
<1> DEFINE n == read.node  m == status[n].leader
<1>0. read.pc = "checked" /\ ReadStep /\ read \in Reads
  BY DEF CheckLocally, ReadTyped
<1>1. n \in Readers
  BY <1>0 DEF ReadTyped
<1>2. m \in Nodes \cup {NoNode}
  BY <1>1 DEF ReplicasTyped
<1>3. \/ \E p \in {"led", "bounded", "refused"} : read' = [read EXCEPT !.pc = p]
      \/ /\ m \notin {NoNode, n}
         /\ read' = [read EXCEPT !.pc = "barrier", !.to = m]
  BY DEF CheckLocally
<1>4. ASSUME NEW p \in {"led", "bounded", "refused"},
             read' = [read EXCEPT !.pc = p]
      PROVE  ReadInv'
  <2>1. p \in Steps /\ p \notin Asking
    BY <1>4 DEF Steps, Asking, Outcomes
  <2>2. p \notin {"reply", "proxyReply", "replied", "proxyReplied",
                  "proxy", "proved", "proxied"}
    BY <1>4
  <2> QED BY <1>0, <1>4, <2>1, <2>2, QueryMoves
<1>5. ASSUME m \notin {NoNode, n},
             read' = [read EXCEPT !.pc = "barrier", !.to = m]
      PROVE  ReadInv'
  <2>1. m \in Nodes \ {n}
    BY <1>2, <1>5
  <2>2. "barrier" \in Steps
    BY DEF Steps, Asking
  <2>3. /\ read' \in Reads /\ read'.pc = "barrier" /\ read'.node = n
        /\ read'.to = m /\ read'.from = read.from
        /\ read'.servable = read.servable
    BY <1>0, <1>2, <1>5, <2>2 DEF Reads
  <2>4. ReplicasTyped' /\ LeaderIsCurrent' /\ ServableShrinks'
    BY <1>0, <2>3, QueryTouchesNothing, OriginIsKept
  <2>5. ReadTyped'
    BY <1>0, <1>1, <2>1, <2>3 DEF ReadTyped, ReadStep
  <2>6. AskedIsCurrent' /\ AnswerIsGood'
    BY <2>3 DEF AskedIsCurrent, AnswerIsGood
  <2> QED BY <2>4, <2>5, <2>6
<1> QED BY <1>3, <1>4, <1>5

\* A node that passes the leadership check has executed the whole log.
LEMMA VerifyAtLeaderKeeps ==
  ASSUME ReadInv, VerifyAtLeader
  PROVE  ReadInv'
<1> USE DEF ReadInv
<1>0. read.pc \in {"barrier", "proxyBarrier"} /\ ReadStep /\ read \in Reads
  BY DEF VerifyAtLeader, ReadTyped
<1>1. read.pc \in Asking /\ read.pc # "idle"
  BY <1>0 DEF Asking
<1>2. PICK p \in {"reply", "proxyReply", "refused", "failed"} :
        /\ read' = [read EXCEPT !.pc = p]
        /\ p \in {"reply", "proxyReply"} => leader = read.to
  <2>1. PICK ok \in {FALSE, leader = read.to} :
          read' = [read EXCEPT !.pc =
            CASE ok /\ @ = "barrier" -> "reply"
              [] ok /\ @ = "proxyBarrier" -> "proxyReply"
              [] ~ok /\ @ = "barrier" -> "refused"
              [] OTHER -> "failed"]
    BY DEF VerifyAtLeader, Confirmed
  <2>2. CASE ok
    <3>1. leader = read.to
      BY <2>1, <2>2
    <3>2. CASE read.pc = "barrier"
      BY <2>1, <2>2, <3>1, <3>2
    <3>3. CASE read.pc = "proxyBarrier"
      BY <2>1, <2>2, <3>1, <3>3
    <3> QED BY <1>0, <3>2, <3>3
  <2>3. CASE ~ok
    <3>1. CASE read.pc = "barrier"
      BY <2>1, <2>3, <3>1
    <3>2. CASE read.pc = "proxyBarrier"
      BY <2>1, <2>3, <3>2
    <3> QED BY <1>0, <3>1, <3>2
  <2> QED BY <2>2, <2>3
<1>3. p \in Steps
  BY <1>2 DEF Steps, Asking, Outcomes
<1>4. leader = read.to => fsm[read.to] >= read.from
  <2> SUFFICES ASSUME leader = read.to
               PROVE  fsm[read.to] >= read.from
    OBVIOUS
  <2>1. read.to \in Nodes
    BY <1>1 DEF ReadTyped
  <2>2. fsm[read.to] = Len(log)
    BY <2>1, ReadAssumption DEF LeaderIsCurrent
  <2>3. read.from \in Nat /\ Len(log) \in Nat /\ read.from <= Len(log)
    BY <1>0 DEF ReadTyped, Reads, ReplicasTyped
  <2> QED BY <2>2, <2>3
<1>5. p \notin {"replied", "proxyReplied", "proxy", "proved", "proxied"}
  BY <1>2
<1> QED BY <1>0, <1>1, <1>2, <1>3, <1>4, <1>5, QueryMoves

\* What the asked node serves was servable when the query began, or is newer.
LEMMA ReplyKeeps ==
  ASSUME ReadInv, Reply
  PROVE  ReadInv'
<1> USE DEF ReadInv
<1> DEFINE m == read.to
           r == [epoch |-> Epoch(fsm[m]), available |-> AvailableGenerations(m),
                 raft |-> raft[m], index |-> Active(fsm[m])]
<1>0. read.pc \in {"reply", "proxyReply"} /\ ReadStep /\ read \in Reads
  BY DEF Reply, ReadTyped
<1>1. read.pc \in Asking /\ read.pc # "idle"
  BY <1>0 DEF Asking
<1>2. m \in Nodes
  BY <1>1 DEF ReadTyped
<1>3. /\ fsm[m] \in Nat /\ raft[m] \in Nat /\ fsm[m] <= MaxLog
      /\ read.from \in Nat /\ fsm[m] >= read.from
  BY <1>0, <1>2, ReadAssumption DEF ReplicasTyped, Reads, AskedIsCurrent
<1>4. r \in Replies
  <2>1. Epoch(fsm[m]) \in Nat
    BY <1>3, EpochType
  <2>2. AvailableGenerations(m) \subseteq Nat
    BY <1>2 DEF AvailableGenerations, ReplicasTyped, Indices
  <2>3. Active(fsm[m]) \in Generations(fsm[m]) \cup {0}
    BY <1>3, ActiveIsLatest
  <2>4. Active(fsm[m]) \in 0..MaxLog
    BY <1>3, <2>3, ReadAssumption DEF Generations
  <2> QED BY <1>3, <2>1, <2>2, <2>4 DEF Replies
<1>5. ASSUME NEW g \in AvailableGenerations(m)
      PROVE  Good(g)
  <2>1. g \in Servable(fsm[m])
    BY <1>5 DEF AvailableGenerations
  <2>2. g \in Nat
    BY <2>1, <1>3 DEF Servable, Generations
  <2>3. CASE g > read.from
    BY <2>3 DEF Good
  <2>4. CASE g <= read.from
    <3>1. g \in Servable(read.from)
      BY <1>3, <2>1, <2>4, ServableInPrefix
    <3> QED BY <3>1 DEF ServableShrinks, Good
  <2> QED BY <1>3, <2>2, <2>3, <2>4
<1>6. PICK p \in {"replied", "proxyReplied"} :
        read' = [read EXCEPT !.pc = p, !.reply = r]
  BY <1>0 DEF Reply
<1>7. p \in Steps /\ p \in Asking
  BY <1>6 DEF Steps, Asking
<1>8. r.available = AvailableGenerations(m)
  OBVIOUS
<1> HIDE DEF r
<1>9. /\ read' \in Reads /\ read'.pc = p /\ read'.node = read.node
      /\ read'.to = m /\ read'.reply = r /\ read'.from = read.from
      /\ read'.servable = read.servable
  BY <1>0, <1>4, <1>6, <1>7 DEF Reads
<1>10. ReplicasTyped' /\ LeaderIsCurrent' /\ ServableShrinks'
  BY <1>0, <1>9, QueryTouchesNothing, OriginIsKept
<1>11. ReadTyped'
  BY <1>0, <1>1, <1>9 DEF ReadTyped, ReadStep
<1>12. AskedIsCurrent'
  BY <1>6, <1>9 DEF AskedIsCurrent
<1>13. AnswerIsGood'
  BY <1>5, <1>6, <1>8, <1>9 DEF AnswerIsGood, Good
<1> QED BY <1>10, <1>11, <1>12, <1>13

\* The answer proves what it lists, and a refusal may be served as stale.
LEMMA FinishReadKeeps ==
  ASSUME ReadInv, FinishRead \/ ReadStale
  PROVE  ReadInv'
<1> USE DEF ReadInv
<1>0. /\ read.pc \in {"replied", "refused"} /\ read.pc # "idle" /\ ReadStep
  BY DEF FinishRead, ReadStale
<1>1. PICK p \in {"proved", "refused", "stale"} :
        /\ read' = [read EXCEPT !.pc = p]
        /\ p = "proved" => read.pc = "replied" /\ Proved(read)
  BY DEF FinishRead, ReadStale
<1>2. p \in Steps /\ p \notin Asking
  BY <1>1 DEF Steps, Asking, Outcomes
<1>3. p = "proved" => Good(read.gen)
  BY <1>1 DEF AnswerIsGood, Proved
<1>4. p \notin {"reply", "proxyReply", "replied", "proxyReplied",
                "proxy", "proxied"}
  BY <1>1
<1> QED BY <1>0, <1>1, <1>2, <1>3, <1>4, QueryMoves

\* A query that is forwarded goes to another node, the one the node knows.
LEMMA ProxyKeeps ==
  ASSUME ReadInv, NEW target \in 0..MaxLog, Proxy(target)
  PROVE  ReadInv'
<1> USE DEF ReadInv
<1> DEFINE n == read.node  m == status[n].leader
<1>0. read.pc = "refused" /\ ReadStep /\ read \in Reads
  BY DEF Proxy, ReadTyped
<1>1. n \in Readers /\ n \in Nodes
  BY <1>0, ReadAssumption DEF ReadTyped
<1>2. m \in Nodes \cup {NoNode} /\ fsm[n] \in Nat
  BY <1>1 DEF ReplicasTyped
<1>3. Epoch(fsm[n]) \in Nat
  BY <1>2, EpochType
<1>4. PICK p \in {"proxyBarrier", "failed"} :
        /\ read' = [read EXCEPT !.pc = p, !.to = m, !.gen = target,
                                !.epoch = Epoch(fsm[n])]
        /\ p = "proxyBarrier" => m \notin {NoNode, n}
  <2>1. CASE m \notin {NoNode, n} /\ Owner(fsm[n]) = m
    BY <2>1 DEF Proxy
  <2>2. CASE ~(m \notin {NoNode, n} /\ Owner(fsm[n]) = m)
    BY <2>2 DEF Proxy
  <2> QED BY <2>1, <2>2
<1>5. /\ p \in Steps /\ (p \in Asking => p = "proxyBarrier")
      /\ p \notin {"reply", "proxyReply", "replied", "proxyReplied",
                   "proxy", "proved", "proxied"}
  BY <1>4 DEF Steps, Asking, Outcomes
<1>6. /\ read' \in Reads /\ read'.pc = p /\ read'.node = n
      /\ read'.to = m /\ read'.from = read.from
      /\ read'.servable = read.servable
  BY <1>0, <1>2, <1>3, <1>4, <1>5 DEF Reads
<1>7. ReplicasTyped' /\ LeaderIsCurrent' /\ ServableShrinks'
  BY <1>0, <1>6, QueryTouchesNothing, OriginIsKept
<1>8. ReadTyped'
  <2>1. p \in Asking => m \in Nodes \ {n}
    BY <1>2, <1>4, <1>5
  <2> QED BY <1>0, <1>1, <1>6, <2>1 DEF ReadTyped, ReadStep
<1>9. AskedIsCurrent' /\ AnswerIsGood'
  BY <1>5, <1>6 DEF AskedIsCurrent, AnswerIsGood
<1> QED BY <1>7, <1>8, <1>9

\* Only what the leader listed is asked of it.
LEMMA ProxyRequestKeeps ==
  ASSUME ReadInv, ProxyRequest
  PROVE  ReadInv'
<1> USE DEF ReadInv
<1> DEFINE r == read.reply  g == IF read.gen = 0 THEN r.index ELSE read.gen
<1>0. read.pc = "proxyReplied" /\ ReadStep /\ read \in Reads
  BY DEF ProxyRequest, ReadTyped
<1>1. g \in 0..MaxLog
  <2>1. read.gen \in 0..MaxLog /\ r.index \in 0..MaxLog
    BY <1>0 DEF Reads, Replies
  <2> QED BY <2>1
<1>2. PICK p \in {"proxy", "failed"} :
        /\ read' = [read EXCEPT !.pc = p, !.gen = g]
        /\ p = "proxy" => g \in r.available
  <2>1. CASE r.epoch = read.epoch /\ g \in r.available
    BY <2>1 DEF ProxyRequest
  <2>2. CASE ~(r.epoch = read.epoch /\ g \in r.available)
    BY <2>2 DEF ProxyRequest
  <2> QED BY <2>1, <2>2
<1> HIDE DEF g
<1>3. /\ p \in Steps
      /\ p \notin {"reply", "proxyReply", "replied", "proxyReplied",
                   "proved", "proxied", "idle"}
  BY <1>2 DEF Steps, Asking, Outcomes
<1>4. /\ read' \in Reads /\ read'.pc = p /\ read'.node = read.node
      /\ read'.gen = g /\ read'.to = read.to /\ read'.from = read.from
      /\ read'.servable = read.servable
  BY <1>0, <1>1, <1>2, <1>3 DEF Reads
<1>5. ReplicasTyped' /\ LeaderIsCurrent' /\ ServableShrinks'
  BY <1>0, <1>4, QueryTouchesNothing, OriginIsKept
<1>6. ReadTyped'
  <2>1. "proxyReplied" \in Asking
    BY DEF Asking
  <2> QED BY <1>0, <1>4, <2>1 DEF ReadTyped, ReadStep
<1>7. AskedIsCurrent'
  BY <1>3, <1>4 DEF AskedIsCurrent
<1>8. AnswerIsGood'
  <2>1. p = "proxy" => Good(g)
    BY <1>0, <1>2 DEF AnswerIsGood
  <2> QED BY <1>3, <1>4, <2>1 DEF AnswerIsGood, Good
<1> QED BY <1>5, <1>6, <1>7, <1>8

\* The leader serves what it was asked for.
LEMMA ServeProxiedKeeps ==
  ASSUME ReadInv, ServeProxied
  PROVE  ReadInv'
<1> USE DEF ReadInv
<1>0. read.pc = "proxy" /\ read.pc # "idle" /\ ReadStep /\ Good(read.gen)
  BY DEF ServeProxied, AnswerIsGood
<1>1. PICK p \in {"proxied", "failed"} : read' = [read EXCEPT !.pc = p]
  BY DEF ServeProxied
<1>2. p \in Steps /\ p \notin Asking
  BY <1>1 DEF Steps, Asking, Outcomes
<1>3. p \notin {"reply", "proxyReply", "replied", "proxyReplied"}
  BY <1>1
<1> QED BY <1>0, <1>1, <1>2, <1>3, QueryMoves

\* No query, or one that has ended, promises nothing.
LEMMA NoReadFacts ==
  /\ NoRead \in Reads /\ NoRead.pc = "idle" /\ NoRead.from = 0
  /\ NoRead.pc \notin Asking
<1>1. NoReply \in Replies
  BY ReadAssumption DEF NoReply, Replies
<1>2. "idle" \in Steps /\ "idle" \notin Asking
  BY DEF Steps, Asking
<1>3. 0 \in 0..MaxLog
  BY ReadAssumption
<1> QED BY <1>1, <1>2, <1>3 DEF NoRead, Reads

\* The query is forgotten.
LEMMA EndReadKeeps ==
  ASSUME ReadInv, EndRead
  PROVE  ReadInv'
<1> USE DEF ReadInv
<1>0. read' = NoRead /\ ReadStep
  BY DEF EndRead
<1>1. read' \in Reads /\ read'.pc = "idle" /\ read'.from = 0
      /\ read'.pc \notin Asking
  BY <1>0, NoReadFacts
<1>2. ReplicasTyped' /\ LeaderIsCurrent'
  BY <1>0, QueryTouchesNothing
<1>3. Len(log') \in Nat
  BY <1>2 DEF ReplicasTyped
<1>4. ReadTyped' /\ AskedIsCurrent' /\ AnswerIsGood'
  BY <1>1, <1>3 DEF ReadTyped, AskedIsCurrent, AnswerIsGood
<1>5. ServableShrinks'
  BY <1>1 DEF ServableShrinks, Servable, Generations
<1> QED BY <1>2, <1>4, <1>5

-----------------------------------------------------------------------------
(* The theorems.                                                           *)

LEMMA InitReadInv == Init => ReadInv
<1> SUFFICES ASSUME Init PROVE ReadInv
  OBVIOUS
<1>1. read \in Reads /\ read.pc = "idle" /\ read.from = 0 /\ read.pc \notin Asking
  BY NoReadFacts DEF Init
<1>2. ReplicasTyped
  BY ReadAssumption DEF Init, ReplicasTyped, Generations
<1>3. ReadTyped /\ LeaderIsCurrent /\ AskedIsCurrent /\ AnswerIsGood
  BY <1>1 DEF Init, ReadTyped, LeaderIsCurrent, AskedIsCurrent, AnswerIsGood
<1>4. ServableShrinks
  BY <1>1 DEF ServableShrinks, Servable, Generations
<1> QED BY <1>2, <1>3, <1>4 DEF ReadInv

LEMMA NextReadInv == ReadInv /\ [Next]_vars => ReadInv'
<1> SUFFICES ASSUME ReadInv, [Next]_vars PROVE ReadInv'
  OBVIOUS
<1>1. ASSUME NEW n \in Nodes, Elect(n) PROVE ReadInv'
  BY <1>1, ElectKeeps
<1>2. ASSUME NEW n \in Observed, HandOver(n) \/ Execute(n) \/ Fetch(n)
      PROVE  ReadInv'
  <2>1. n \in Nodes
    BY <1>2, ReadAssumption DEF Observed
  <2> QED BY <1>2, <2>1, ReplicaKeeps
<1>3. ASSUME NEW n \in Readers, Refresh(n) PROVE ReadInv'
  BY <1>3, RefreshKeeps
<1>4. ASSUME NEW Q \in SUBSET Nodes, Publish(Q) PROVE ReadInv'
  BY <1>4, PublishKeeps
<1>5. ASSUME NEW g \in Indices,
             Expire(g) \/ Proxy(g) \/ \E n \in Readers : BeginRead(n, g)
      PROVE  ReadInv'
  <2>1. g \in 0..MaxLog
    BY <1>5, ReadAssumption DEF Indices
  <2> QED BY <1>5, <2>1, ExpireKeeps, ProxyKeeps, BeginReadKeeps
<1>6. ASSUME Proxy(0) PROVE ReadInv'
  <2>1. 0 \in 0..MaxLog
    BY ReadAssumption
  <2> QED BY <1>6, <2>1, ProxyKeeps
<1>7. ASSUME NEW recent \in BOOLEAN, CheckLocally(recent) PROVE ReadInv'
  BY <1>7, CheckLocallyKeeps
<1>8. CASE VerifyAtLeader \/ Reply \/ FinishRead \/ ReadStale
  BY <1>8, VerifyAtLeaderKeeps, ReplyKeeps, FinishReadKeeps
<1>9. CASE ProxyRequest \/ ServeProxied \/ EndRead
  BY <1>9, ProxyRequestKeeps, ServeProxiedKeeps, EndReadKeeps
<1>10. CASE UNCHANGED vars
  <2>1. ReadStep /\ read' = read
    BY <1>10 DEF vars, ReadStep
  <2>2. ReplicasTyped' /\ LeaderIsCurrent' /\ ServableShrinks'
    BY <2>1, QueryTouchesNothing, OriginIsKept
  <2>3. ReadTyped' /\ AskedIsCurrent' /\ AnswerIsGood'
    BY <2>1 DEF ReadInv, ReadTyped, AskedIsCurrent, AnswerIsGood, Good, ReadStep
  <2> QED BY <2>2, <2>3 DEF ReadInv
<1> QED BY <1>1, <1>2, <1>3, <1>4, <1>5, <1>6, <1>7, <1>8, <1>9, <1>10 DEF Next

\* Every reachable state satisfies the strengthened invariant.
THEOREM ReadInductive == Spec => []ReadInv
BY InitReadInv, NextReadInv, PTL DEF Spec

\* For any nodes, readers and log: no replica executes what Raft did not
\* hand over, and a query is only forwarded to another node (node.go:1714,
\* 1887).
THEOREM ReadsAreTyped == Spec => []ReadTypeOK
<1>1. ReadInv => ReadTypeOK
  BY DEF ReadInv, ReplicasTyped, ReadTyped, ReadTypeOK, Reads, Asking
<1> QED BY <1>1, ReadInductive, PTL

\* What a node serves as proved, or has the leader serve, was servable at
\* some moment of the call, for any history of elections, publications,
\* lagging and halted replicas and pins that run out (node.go:1711, 1854).
THEOREM ServedIsAlwaysServable == Spec => []ServedIsServable
<1>1. ReadInv => ServedIsServable
  BY DEF ReadInv, AnswerIsGood, Good, ServedIsServable
<1> QED BY <1>1, ReadInductive, PTL

-----------------------------------------------------------------------------
(* The epochs of the reader and of the node it asks.                       *)

\* Where a query may still be, or is, answered by the reader itself.
Proving == {"barrier", "reply", "replied", "proved"}

\* The query goes by metadata that were read before it began, and asks the
\* owner they name; the answer comes from metadata that are not older than
\* the log that the query began with.
AnswerIsCurrent ==
  /\ read.pc \in Proving \cup {"checked"} =>
       \E k \in 0..read.from : read.epoch = Epoch(k) /\ read.owner = Owner(k)
  /\ read.pc \in Proving => read.to = read.owner
  /\ read.pc \in {"replied", "proxyReplied"} =>
       read.reply.epoch >= Epoch(read.from)
  /\ read.pc \in {"proved", "proxy", "proxied"} =>
       read.epoch >= Epoch(read.from)

\* Epochs grow along the log, and an epoch has one owner.
LEMMA EpochsGrow ==
  ASSUME NEW j \in Nat, NEW k \in 0..j
  PROVE  /\ Epoch(k) <= Epoch(j)
         /\ Epoch(k) = Epoch(j) => Owner(k) = Owner(j)
<1> DEFINE A(i) == (1..i) \ Generations(i)
<1>1. A(k) \in SUBSET A(j)
  BY DEF Generations
<1>2. IsFiniteSet(A(j))
  <2>1. IsFiniteSet(1..j)
    BY FS_Interval
  <2> QED BY <2>1, FS_Difference
<1>3. Epoch(k) = Cardinality(A(k)) /\ Epoch(j) = Cardinality(A(j))
  BY DEF Epoch
<1>4. A(k) = A(j) => Owner(k) = Owner(j)
  BY DEF Owner
<1> HIDE DEF A
<1> QED BY <1>1, <1>2, <1>3, <1>4, FS_Subset

\* A longer log has the same epochs and owners up to the shorter one.
LEMMA EpochsAreKept ==
  ASSUME log \in Seq(Nodes \cup {NoNode}),
         \/ log' = log
         \/ \E x \in Nodes \cup {NoNode} : log' = Append(log, x),
         NEW k \in 0..Len(log)
  PROVE  Epoch(k)' = Epoch(k) /\ Owner(k)' = Owner(k)
<1> DEFINE acquired == (1..k) \ Generations(k)
<1>0. k \in Nat
  OBVIOUS
<1>1. Generations(k)' = Generations(k)
  BY PrefixIsKept DEF Generations
<1>2. acquired' = acquired
  BY <1>1
<1>3. \A i \in 1..k : log'[i] = log[i]
  OBVIOUS
<1>4. acquired # {} => Max(acquired) \in 1..k
  <2>1. acquired \in SUBSET (0..k) /\ acquired \subseteq 1..k
    OBVIOUS
  <2> HIDE DEF acquired
  <2> QED BY <1>0, <2>1, MaxIsGreatest
<1>5. Epoch(k)' = Epoch(k)
  BY <1>1 DEF Epoch
<1>6. /\ Owner(k) = IF acquired = {} THEN NoNode ELSE log[Max(acquired)]
      /\ Owner(k)' = IF acquired = {} THEN NoNode ELSE log'[Max(acquired)]
  BY <1>1 DEF Owner
<1> HIDE DEF acquired
<1> QED BY <1>3, <1>4, <1>5, <1>6

\* The system moves around a query.
LEMMA CurrentAroundQuery ==
  ASSUME ReadInv, AnswerIsCurrent, read' = read,
         \/ log' = log
         \/ \E x \in Nodes \cup {NoNode} : log' = Append(log, x)
  PROVE  AnswerIsCurrent'
<1>1. log \in Seq(Nodes \cup {NoNode}) /\ Len(log) \in Nat
  BY DEF ReadInv, ReplicasTyped
<1>2. PICK j \in 0..Len(log) : j = read.from
  BY <1>1 DEF ReadInv, ReadTyped, Reads
<1>3. \A k \in 0..j : Epoch(k)' = Epoch(k) /\ Owner(k)' = Owner(k)
  <2> TAKE k \in 0..j
  <2>1. k \in 0..Len(log)
    BY <1>1, <1>2
  <2> QED BY <1>1, <2>1, EpochsAreKept
<1>4. j \in 0..j
  BY <1>1, <1>2
<1>5. read.pc \in Proving \cup {"checked"} =>
        \E k \in 0..j : read.epoch = Epoch(k) /\ read.owner = Owner(k)
  BY <1>2 DEF AnswerIsCurrent
<1>6. read.pc \in Proving \cup {"checked"} =>
        \E k \in 0..j : read.epoch = Epoch(k)' /\ read.owner = Owner(k)'
  BY <1>3, <1>5
<1>7. Epoch(j)' = Epoch(j) /\ j = read'.from
  BY <1>2, <1>3, <1>4
<1> QED BY <1>2, <1>6, <1>7 DEF AnswerIsCurrent

\* A step of the query changes no epoch and no owner.
LEMMA EpochsStay ==
  ASSUME ReadInv, ReadStep
  PROVE  \A k : Epoch(k)' = Epoch(k) /\ Owner(k)' = Owner(k)
BY QueryTouchesNothing DEF Epoch, Owner, ReadStep

\* The query moves and keeps its origin: it is enough to look at where it is
\* proved or answered.
LEMMA CurrentAlongQuery ==
  ASSUME ReadInv, AnswerIsCurrent, ReadStep,
         read'.from = read.from,
         read'.pc \in Proving \cup {"checked"} =>
           /\ read.pc \in Proving \cup {"checked"}
           /\ read'.epoch = read.epoch /\ read'.owner = read.owner,
         read'.pc \in Proving => read'.to = read'.owner,
         read'.pc \in {"replied", "proxyReplied"} =>
           read'.reply.epoch >= Epoch(read.from),
         read'.pc \in {"proved", "proxy", "proxied"} =>
           read'.epoch >= Epoch(read.from)
  PROVE  AnswerIsCurrent'
<1>1. PICK j : j = read.from
  OBVIOUS
<1>2. \A k : Epoch(k)' = Epoch(k) /\ Owner(k)' = Owner(k)
  BY EpochsStay
<1>3. j = read'.from
  BY <1>1
<1>4. read.pc \in Proving \cup {"checked"} =>
        \E k \in 0..j : read.epoch = Epoch(k) /\ read.owner = Owner(k)
  BY <1>1 DEF AnswerIsCurrent
<1>5. read'.pc \in Proving \cup {"checked"} =>
        \E k \in 0..j : read'.epoch = Epoch(k)' /\ read'.owner = Owner(k)'
  BY <1>2, <1>4
<1>6. Epoch(j)' = Epoch(j)
  BY <1>2
<1> QED BY <1>1, <1>3, <1>5, <1>6 DEF AnswerIsCurrent

\* A query begins with what the reader's state machine has executed.
LEMMA BeginReadIsCurrent ==
  ASSUME ReadInv, NEW n \in Readers, NEW g, BeginRead(n, g)
  PROVE  AnswerIsCurrent'
<1>0. n \in Nodes /\ ReadStep
  BY ReadAssumption DEF BeginRead
<1>1. Len(log) \in Nat /\ fsm[n] \in 0..Len(log)
  BY <1>0 DEF ReadInv, ReplicasTyped
<1>2. PICK k \in 0..Len(log) : k = fsm[n]
  BY <1>1
<1>3. \A i : Epoch(i)' = Epoch(i) /\ Owner(i)' = Owner(i)
  BY <1>0, EpochsStay
<1>4. /\ read'.pc \in {"checked", "refused"} /\ read'.from = Len(log)
      /\ read'.epoch = Epoch(k) /\ read'.owner = Owner(k)
  BY <1>2 DEF BeginRead, NoRead
<1>5. read'.epoch = Epoch(k)' /\ read'.owner = Owner(k)' /\ k \in 0..read'.from
  BY <1>2, <1>3, <1>4
<1>6. read'.pc \notin Proving \cup {"replied", "proxyReplied", "proved",
                                    "proxy", "proxied"}
  BY <1>4 DEF Proving
<1> QED BY <1>5, <1>6 DEF AnswerIsCurrent

\* The other steps of the query.
LEMMA QueryIsCurrent ==
  ASSUME ReadInv, AnswerIsCurrent,
         \/ \E recent \in BOOLEAN : CheckLocally(recent)
         \/ VerifyAtLeader \/ Reply \/ FinishRead \/ ReadStale
         \/ \E target \in 0..MaxLog : Proxy(target)
         \/ ProxyRequest \/ ServeProxied
  PROVE  AnswerIsCurrent'
<1>0. read \in Reads
  BY DEF ReadInv, ReadTyped
<1> USE DEF Proving
<1>1. ASSUME NEW recent \in BOOLEAN, CheckLocally(recent)
      PROVE  AnswerIsCurrent'
  <2>1. /\ read.pc = "checked" /\ ReadStep /\ read'.from = read.from
        /\ read'.epoch = read.epoch /\ read'.owner = read.owner
        /\ read'.pc \in {"led", "bounded", "refused", "barrier"}
        /\ read'.pc = "barrier" => read'.to = read'.owner
    BY <1>0, <1>1 DEF CheckLocally, Reads
  <2> QED BY <2>1, CurrentAlongQuery
<1>2. CASE VerifyAtLeader
  <2>1. /\ ReadStep /\ read'.from = read.from
        /\ read'.epoch = read.epoch /\ read'.owner = read.owner
        /\ read'.to = read.to
        /\ read'.pc \in {"reply", "proxyReply", "refused", "failed"}
        /\ read'.pc = "reply" => read.pc = "barrier"
    BY <1>0, <1>2 DEF VerifyAtLeader, Reads
  <2>2. read'.pc = "reply" => read'.to = read'.owner
    BY <2>1 DEF AnswerIsCurrent
  <2> QED BY <2>1, <2>2, CurrentAlongQuery
<1>3. CASE Reply
  <2>1. /\ ReadStep /\ read'.from = read.from
        /\ read'.epoch = read.epoch /\ read'.owner = read.owner
        /\ read'.to = read.to /\ read'.reply.epoch = Epoch(fsm[read.to])
        /\ read.pc \in {"reply", "proxyReply"}
        /\ read'.pc \in {"replied", "proxyReplied"}
        /\ read'.pc = "replied" => read.pc = "reply"
    BY <1>0, <1>3 DEF Reply, Reads
  <2>2. read'.pc = "replied" => read'.to = read'.owner
    BY <2>1 DEF AnswerIsCurrent
  <2>3. read.to \in Nodes
    BY <2>1 DEF ReadInv, ReadTyped, Asking
  <2>4. fsm[read.to] \in Nat /\ read.from \in 0..fsm[read.to]
    BY <1>0, <2>1, <2>3 DEF ReadInv, ReplicasTyped, AskedIsCurrent, Reads
  <2>5. Epoch(read.from) <= Epoch(fsm[read.to])
    BY <2>4, EpochsGrow
  <2>6. Epoch(read.from) \in Nat /\ Epoch(fsm[read.to]) \in Nat
    BY <2>4, EpochType
  <2> QED BY <2>1, <2>2, <2>5, <2>6, CurrentAlongQuery
<1>4. CASE FinishRead \/ ReadStale
  <2>1. /\ ReadStep /\ read'.from = read.from
        /\ read'.epoch = read.epoch /\ read'.owner = read.owner
        /\ read'.to = read.to
        /\ read'.pc \in {"proved", "refused", "stale"}
        /\ read'.pc = "proved" => /\ read.pc = "replied"
                                  /\ read.reply.epoch = read.epoch
    BY <1>0, <1>4 DEF FinishRead, ReadStale, Proved, Reads
  <2>2. read'.pc = "proved" => /\ read'.to = read'.owner
                               /\ read'.epoch >= Epoch(read.from)
    BY <2>1 DEF AnswerIsCurrent
  <2> QED BY <2>1, <2>2, CurrentAlongQuery
<1>5. ASSUME NEW target \in 0..MaxLog, Proxy(target)
      PROVE  AnswerIsCurrent'
  <2>1. /\ ReadStep /\ read'.from = read.from
        /\ read'.pc \in {"proxyBarrier", "failed"}
    BY <1>0, <1>5 DEF Proxy, Reads
  <2> QED BY <2>1, CurrentAlongQuery
<1>6. CASE ProxyRequest
  <2>1. /\ ReadStep /\ read'.from = read.from /\ read'.epoch = read.epoch
        /\ read.pc = "proxyReplied" /\ read'.pc \in {"proxy", "failed"}
        /\ read'.pc = "proxy" => read.reply.epoch = read.epoch
    BY <1>0, <1>6 DEF ProxyRequest, Reads
  <2>2. read'.pc = "proxy" => read'.epoch >= Epoch(read.from)
    BY <2>1 DEF AnswerIsCurrent
  <2> QED BY <2>1, <2>2, CurrentAlongQuery
<1>7. CASE ServeProxied
  <2>1. /\ ReadStep /\ read'.from = read.from /\ read'.epoch = read.epoch
        /\ read.pc = "proxy" /\ read'.pc \in {"proxied", "failed"}
    BY <1>0, <1>7 DEF ServeProxied, Reads
  <2>2. read'.epoch >= Epoch(read.from)
    BY <2>1 DEF AnswerIsCurrent
  <2> QED BY <2>1, <2>2, CurrentAlongQuery
<1> QED BY <1>1, <1>2, <1>3, <1>4, <1>5, <1>6, <1>7

LEMMA NextIsCurrent == ReadInv /\ AnswerIsCurrent /\ [Next]_vars => AnswerIsCurrent'
<1> SUFFICES ASSUME ReadInv, AnswerIsCurrent, [Next]_vars PROVE AnswerIsCurrent'
  OBVIOUS
<1>1. ASSUME NEW n \in Nodes, Elect(n) PROVE AnswerIsCurrent'
  BY <1>1, CurrentAroundQuery DEF Elect
<1>2. ASSUME NEW Q \in SUBSET Nodes, Publish(Q) PROVE AnswerIsCurrent'
  BY <1>2, CurrentAroundQuery DEF Publish
<1>3. ASSUME NEW n, HandOver(n) \/ Execute(n) \/ Fetch(n) \/ Refresh(n)
      PROVE  AnswerIsCurrent'
  BY <1>3, CurrentAroundQuery DEF HandOver, Execute, Fetch, Refresh
<1>4. ASSUME NEW g, Expire(g) PROVE AnswerIsCurrent'
  BY <1>4, CurrentAroundQuery DEF Expire
<1>5. ASSUME NEW n \in Readers, NEW g, BeginRead(n, g) PROVE AnswerIsCurrent'
  BY <1>5, BeginReadIsCurrent
<1>6. ASSUME NEW g \in Indices \cup {0}, Proxy(g) PROVE AnswerIsCurrent'
  <2>1. g \in 0..MaxLog
    BY <1>6, ReadAssumption DEF Indices
  <2> QED BY <1>6, <2>1, QueryIsCurrent
<1>7. CASE \/ \E recent \in BOOLEAN : CheckLocally(recent)
           \/ VerifyAtLeader \/ Reply \/ FinishRead \/ ReadStale
           \/ ProxyRequest \/ ServeProxied
  BY <1>7, QueryIsCurrent
<1>8. CASE EndRead
  <2>1. read'.pc = "idle"
    BY <1>8 DEF EndRead, NoRead
  <2> QED BY <2>1 DEF AnswerIsCurrent, Proving
<1>9. CASE UNCHANGED vars
  BY <1>9, CurrentAroundQuery DEF vars
<1> QED BY <1>1, <1>2, <1>3, <1>4, <1>5, <1>6, <1>7, <1>8, <1>9 DEF Next

\* What is served as proved was read in the epoch that was the newest when
\* the query began, and confirmed by the node that owned it; what another
\* node served, in that epoch or a later one.
ServedInNewestEpoch ==
  /\ read.pc = "proved" => /\ read.epoch = Epoch(read.from)
                           /\ read.to = Owner(read.from)
  /\ read.pc = "proxied" => read.epoch >= Epoch(read.from)

\* The leader's epoch, compared with the reader's, and its leadership,
\* verified before, leave no room for a reader or an answer of an older
\* epoch, although the answer is taken after the verification and the
\* leader may have changed in between (node.go:1711-1740, 1854-1910).
THEOREM ServedAlwaysInNewestEpoch == Spec => []ServedInNewestEpoch
<1>1. Init => AnswerIsCurrent
  BY DEF Init, NoRead, AnswerIsCurrent, Proving
<1>2. ReadInv /\ AnswerIsCurrent => ServedInNewestEpoch
  <2> SUFFICES ASSUME ReadInv, AnswerIsCurrent, read.pc = "proved"
               PROVE  read.epoch = Epoch(read.from) /\ read.to = Owner(read.from)
    BY DEF AnswerIsCurrent, ServedInNewestEpoch
  <2>1. PICK k \in 0..read.from : read.epoch = Epoch(k) /\ read.owner = Owner(k)
    BY DEF AnswerIsCurrent, Proving
  <2>2. read.to = read.owner /\ read.epoch >= Epoch(read.from)
    BY DEF AnswerIsCurrent, Proving
  <2>3. read.from \in Nat /\ k \in Nat
    BY DEF ReadInv, ReadTyped, Reads
  <2>4. Epoch(k) <= Epoch(read.from) /\ Epoch(k) \in Nat /\ Epoch(read.from) \in Nat
    BY <2>3, EpochsGrow, EpochType
  <2>5. Epoch(k) = Epoch(read.from)
    BY <2>1, <2>2, <2>4
  <2> QED BY <2>1, <2>2, <2>3, <2>5, EpochsGrow
<1> QED BY <1>1, <1>2, ReadInductive, NextIsCurrent, PTL DEF Spec
=============================================================================
