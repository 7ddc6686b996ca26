----------------------------- MODULE LocalRead -----------------------------
(***************************************************************************)
(* A query that a node answers from its own snapshot or forwards: the      *)
(* checks of VerifyLocalReadResult, the barrier it asks of the leader and  *)
(* ProxyToLeader, against a log of acquisitions and generations that goes  *)
(* on growing, leaders that change and replicas that lag or are halted.    *)
(*                                                                         *)
(* A generation is its index in the log.  Raft counts an entry as applied  *)
(* once it is handed to the state machine, which may not have executed it  *)
(* yet, and never will after an apply fault.  Time is reduced to the pin   *)
(* of a generation, which runs out, and to choices: whether the last       *)
(* contact with the leader is recent, and whether a generation is too old  *)
(* for an emergency.  Reads change nothing that others see, so one is      *)
(* enough, and a replica that is neither queried nor asked only moves when *)
(* it is elected: what else it does shows nowhere.                         *)
(***************************************************************************)
EXTENDS Naturals, Sequences, FiniteSets, FiniteSetsExt

CONSTANTS
  Nodes, NoNode,
  Readers,    \* the nodes that are queried
  Bounded,    \* the nodes with read_consistency = "bounded"
  Emergency,  \* the nodes with emergency_stale_read
  MaxLog      \* bound: entries of the log

ASSUME ReadAssumption ==
  /\ NoNode \notin Nodes
  /\ Readers \subseteq Nodes /\ Bounded \cup Emergency \subseteq Readers
  /\ MaxLog \in Nat

VARIABLES
  log,      \* the owner of each acquisition, NoNode for a generation
  leader,
  raft,     \* raft[n]: Raft's applied index
  fsm,      \* fsm[n]: how many entries n's state machine has executed
  expired,  \* the generations whose pin has run out
  blobs,    \* blobs[n]: generations whose blobs n holds and verifies
  status,   \* n.status: the leader and AvailableGenerations
  read      \* the query

vars == <<log, leader, raft, fsm, expired, blobs, status, read>>

Indices == 1..MaxLog

(* What the state machine knows after k entries; 0 is no generation. *)
Generations(k) == {i \in 1..k : log[i] = NoNode}
Active(k) == Max(Generations(k) \cup {0})
Epoch(k) == Cardinality((1..k) \ Generations(k))
Owner(k) == LET acquired == (1..k) \ Generations(k)
            IN  IF acquired = {} THEN NoNode ELSE log[Max(acquired)]

(* The active generation and those still pinned. *)
Servable(k) == {g \in Generations(k) : g = Active(k) \/ g \notin expired}

(* updateStatus *)
AvailableGenerations(n) == Servable(fsm[n]) \cap blobs[n]

NoReply == [epoch |-> 0, available |-> {}, raft |-> 0, index |-> 0]

NoRead == [pc |-> "idle", node |-> NoNode, gen |-> 0, epoch |-> 0,
           owner |-> NoNode, to |-> NoNode, reply |-> NoReply, unpinned |-> FALSE,
           from |-> 0, servable |-> {}]

Init ==
  /\ log = <<>> /\ leader = NoNode
  /\ raft = [n \in Nodes |-> 0] /\ fsm = raft
  /\ expired = {}
  /\ blobs = [n \in Nodes |-> {}]
  /\ status = [n \in Readers |-> [leader |-> NoNode, available |-> {}]]
  /\ read = NoRead

-----------------------------------------------------------------------------
(* External: an election, with the acquisition the winner applies. *)
Elect(n) ==
  /\ n # leader /\ Len(log) < MaxLog
  /\ leader' = n
  /\ log' = Append(log, n)
  /\ raft' = [raft EXCEPT ![n] = Len(log')]
  /\ fsm' = [fsm EXCEPT ![n] = Len(log')]
  /\ UNCHANGED <<expired, blobs, status, read>>

(* PublishSnapshot, with its blobs on a quorum (SnapshotPublish): it takes *)
(* effect when the leader's state machine has executed it.                 *)
Publish(Q) ==
  /\ leader \in Q /\ 2 * Cardinality(Q) > Cardinality(Nodes)
  /\ Len(log) < MaxLog
  /\ log' = Append(log, NoNode)
  /\ blobs' = [n \in Nodes |-> IF n \in Q THEN blobs[n] \cup {Len(log')}
                               ELSE blobs[n]]
  /\ raft' = [raft EXCEPT ![leader] = Len(log')]
  /\ fsm' = [fsm EXCEPT ![leader] = Len(log')]
  /\ UNCHANGED <<leader, expired, status, read>>

(* External: Raft hands the next entry over, and the state machine executes*)
(* it, at some time or, after an apply fault, never.                       *)
HandOver(n) ==
  /\ raft[n] < Len(log)
  /\ raft' = [raft EXCEPT ![n] = @ + 1]
  /\ UNCHANGED <<log, leader, fsm, expired, blobs, status, read>>

Execute(n) ==
  /\ fsm[n] < raft[n]
  /\ fsm' = [fsm EXCEPT ![n] = @ + 1]
  /\ UNCHANGED <<log, leader, raft, expired, blobs, status, read>>

(* Snapshot maintenance fetches the blobs of a generation. *)
Fetch(n) ==
  \E g \in Generations(fsm[n]) \ blobs[n] :
    /\ blobs' = [blobs EXCEPT ![n] = @ \cup {g}]
    /\ UNCHANGED <<log, leader, raft, fsm, expired, status, read>>

Expire(g) ==
  /\ g \in Generations(Len(log)) \ expired
  /\ expired' = expired \cup {g}
  /\ UNCHANGED <<log, leader, raft, fsm, blobs, status, read>>

(* refreshStatus on the node that is queried. *)
Refresh(n) ==
  /\ status' = [status EXCEPT ![n] = [leader |-> leader,
                                     available |-> AvailableGenerations(n)]]
  /\ UNCHANGED <<log, leader, raft, fsm, expired, blobs, read>>

-----------------------------------------------------------------------------
ReadStep == UNCHANGED <<log, leader, raft, fsm, expired, blobs, status>>

(* The query takes the active generation, or a client names an older one;  *)
(* the metadata are read once, and the blobs are verified.                 *)
BeginRead(n, g) ==
  /\ read.pc = "idle" /\ g \in Generations(fsm[n])
  /\ read' = [NoRead EXCEPT
       !.pc = IF g \in AvailableGenerations(n) THEN "checked" ELSE "refused",
       !.node = n, !.gen = g, !.unpinned = (g = Active(fsm[n])),
       !.epoch = Epoch(fsm[n]), !.owner = Owner(fsm[n]),
       !.from = Len(log), !.servable = Servable(Len(log))]
  /\ ReadStep

(* The leader verifies its leadership, which may fail; a bounded node is   *)
(* content with a recent contact; others ask the leader they know and their*)
(* metadata name, if they have its address.                                *)
CheckLocally(recent) ==
  LET n == read.node
      m == status[n].leader
      At(pc) == [read EXCEPT !.pc = pc]
  IN  /\ read.pc = "checked"
      /\ read' \in
           CASE leader = n -> {At("led"), At("refused")}
             [] /\ leader # n /\ n \in Bounded /\ recent
                /\ read.gen \in status[n].available -> {At("bounded")}
             [] OTHER ->
                  IF m \notin {NoNode, n} /\ read.owner = m
                  THEN {[At("barrier") EXCEPT !.to = m], At("refused")}
                  ELSE {At("refused")}
      /\ ReadStep

(* Whether m's VerifyBusinessLeadership passes and its answer arrives. *)
Confirmed(m) == {FALSE, leader = m}

(* The barrier handler: VerifyBusinessLeadership ... *)
VerifyAtLeader ==
  /\ read.pc \in {"barrier", "proxyBarrier"}
  /\ \E ok \in Confirmed(read.to) :
       read' = [read EXCEPT !.pc =
         CASE ok /\ @ = "barrier" -> "reply"
           [] ok /\ @ = "proxyBarrier" -> "proxyReply"
           [] ~ok /\ @ = "barrier" -> "refused"
           [] OTHER -> "failed"]
  /\ ReadStep

(* ... and then the status at that moment.  A status taken while entries   *)
(* are being applied is refused by the caller, who then asks again: that   *)
(* the leader's state machine is up to date stands for it.                 *)
Reply ==
  LET m == read.to
  IN  /\ read.pc \in {"reply", "proxyReply"}
      /\ read' = [read EXCEPT
           !.pc = IF @ = "reply" THEN "replied" ELSE "proxyReplied",
           !.reply = [epoch |-> Epoch(fsm[m]),
                      available |-> AvailableGenerations(m),
                      raft |-> raft[m], index |-> Active(fsm[m])]]
      /\ ReadStep

\* Mutant of Proved: what the leader serves does not matter.
ProvedByIndex(r) ==
  /\ r.reply.epoch = r.epoch
  /\ r.reply.raft >= r.reply.index
  /\ raft[r.node] >= r.reply.index

(* The answer has to come from the epoch the metadata name, the leader has *)
(* to serve the generation, and both have to have applied the latest one.  *)
Proved(r) ==
  /\ r.reply.epoch = r.epoch
  /\ r.gen \in r.reply.available
  /\ r.reply.raft >= r.reply.index
  /\ raft[r.node] >= r.reply.index

FinishRead ==
  /\ read.pc = "replied"
  /\ read' = [read EXCEPT !.pc = IF Proved(read) THEN "proved" ELSE "refused"]
  /\ ReadStep

(* emergency_stale_read: what is refused may be served as stale. *)
ReadStale ==
  LET n == read.node
  IN  /\ read.pc = "refused" /\ n \in Emergency
      /\ read.gen \in Generations(fsm[n]) \cap blobs[n]
      /\ read' = [read EXCEPT !.pc = "stale"]
      /\ ReadStep

-----------------------------------------------------------------------------
\* Mutant of Proxy: the leader is not looked up.
ProxyAnyway(target) ==
  LET n == read.node
  IN  /\ read.pc = "refused" /\ target \in {0, read.gen}
      /\ read' = [read EXCEPT !.pc = "proxyBarrier", !.gen = target,
                             !.to = status[n].leader, !.epoch = Epoch(fsm[n])]
      /\ ReadStep

(* ProxyToLeader, with the generation or without one. *)
Proxy(target) ==
  LET n == read.node  k == fsm[n]  m == status[n].leader
  IN  /\ read.pc = "refused" /\ target \in {0, read.gen}
      /\ read' = [read EXCEPT
           !.pc = IF m \notin {NoNode, n} /\ Owner(k) = m THEN "proxyBarrier"
                  ELSE "failed",
           !.to = m, !.gen = target, !.epoch = Epoch(k)]
      /\ ReadStep

ProxyRequest ==
  LET r == read.reply  g == IF read.gen = 0 THEN r.index ELSE read.gen
  IN  /\ read.pc = "proxyReplied"
      /\ read' = [read EXCEPT
           !.pc = IF r.epoch = read.epoch /\ g \in r.available
                  THEN "proxy" ELSE "failed",
           !.gen = g]
      /\ ReadStep

(* internalProxyHandler verifies leadership again before it serves. *)
ServeProxied ==
  /\ read.pc = "proxy"
  /\ \E ok \in Confirmed(read.to) :
       read' = [read EXCEPT !.pc = IF ok THEN "proxied" ELSE "failed"]
  /\ ReadStep

Outcomes == {"led", "bounded", "proved", "stale", "proxied", "failed"}

EndRead ==
  /\ read.pc \in Outcomes \cup {"refused"}
  /\ read' = NoRead
  /\ ReadStep

(* The replicas whose state a query can show. *)
Observed == Readers \cup ({read.to} \cap Nodes)

Next ==
  \/ \E n \in Nodes : Elect(n)
  \/ \E n \in Observed : HandOver(n) \/ Execute(n) \/ Fetch(n)
  \/ \E n \in Readers : Refresh(n)
  \/ \E Q \in SUBSET Nodes : Publish(Q)
  \/ \E g \in Indices : Expire(g) \/ Proxy(g) \/ \E n \in Readers : BeginRead(n, g)
  \/ Proxy(0)
  \/ \E recent \in BOOLEAN : CheckLocally(recent)
  \/ VerifyAtLeader \/ Reply \/ FinishRead \/ ReadStale
  \/ ProxyRequest \/ ServeProxied \/ EndRead

Spec == Init /\ [][Next]_vars

-----------------------------------------------------------------------------
(* Every variable has its type; nothing is executed that Raft did not hand *)
(* over, and a node asks another one (node.go:1714, 1887).                 *)
ReadTypeOK ==
  /\ Len(log) <= MaxLog /\ leader \in Nodes \cup {NoNode}
  /\ \A n \in Nodes : fsm[n] <= raft[n] /\ raft[n] <= Len(log)
                      /\ blobs[n] \subseteq Indices
  /\ expired \subseteq Generations(Len(log))
  /\ read.gen \in 0..MaxLog /\ read.from <= Len(log)
  /\ read.pc \in {"barrier", "reply", "proxyBarrier", "proxyReply", "proxy"} =>
       read.to \in Nodes \ {read.node}

(* What a node serves as proved, or has the leader serve, was the latest   *)
(* generation or within its pin at some moment of the call, even if the    *)
(* node lags or is halted, and whatever leaders come and go (node.go:1854, *)
(* 1711).                                                                  *)
ServedIsServable ==
  read.pc \in {"proved", "proxied"} =>
    read.gen \in read.servable \/ read.gen > read.from

(* A query without a generation of its own is answered, on a linearizable  *)
(* node, with one that is no older than the latest at its start.           *)
LinearizableRead ==
  /\ read.pc \in {"proved", "led"} /\ read.unpinned
  /\ read.node \notin Bounded
  => read.gen >= Max(read.servable \cup {0})
=============================================================================
