----------------------------- MODULE PsiRequest -----------------------------
(***************************************************************************)
(* The requests of a group of parties (party/psi_service_impl.h, and run   *)
(* in the KS05 and BEH21 plugins): every ComputeIntersection call is a     *)
(* session of its own, as leader or as member, with its own streams; the   *)
(* sessions of one computation find each other by party id only.  Clients  *)
(* submit in any order, may disagree about the leader, and may submit      *)
(* again while earlier calls go on.                                        *)
(*                                                                         *)
(* A member's threads are taken together as Rendezvous allows, the         *)
(* protocol is its negotiation, its ring and its end (Ks05Protocol and     *)
(* Beh21Protocol have the rest), certificates are left to PartyServer.     *)
(***************************************************************************)
EXTENDS Naturals, FiniteSetsExt

CONSTANTS
    N,                     \* config_.num_parties
    Attempts,              \* bound: the most requests a party gets
    Plans,                 \* which requests the clients submit, None for none
    Protocols,             \* the plugins that are available
    MaxElements,           \* 100000
    None

Parties == 0..(N - 1)
Sessions == Parties \X (1..Attempts)

Requests == [protocol : Protocols \union {None}, elements : Nat, num_parties : Nat,
             threshold : Nat, role : {"member", "leader", "dealer"},
             leader : Parties \union {None}]

ASSUME RequestAssumption ==
    /\ N \in Nat /\ N >= 2
    /\ Attempts \in Nat \ {0}
    /\ Plans \subseteq [Sessions -> Requests \union {None}]
    /\ None \notin Parties /\ None \notin Requests /\ None \notin Protocols

VARIABLES
    request,               \* request[s]: what the client submits in session s
    pc,                    \* where the session is in ComputeIntersection
    stream,                \* stream[s][q]: the stream s opened to party q
    product,               \* product[s]: the sessions whose polynomials are in
                           \* what s has sent on; for a leader that is through
                           \* with the ring, in what it has received
    overlapped             \* history: two computations have been under way at
                           \* the same time

vars == <<request, pc, stream, product, overlapped>>

Calls == {s \in Sessions : request[s] # None}
Role(s) == request[s].role
Leader(s) == request[s].leader
Leading == {s \in Calls : Role(s) = "leader"}

NoStream == [to |-> None, at |-> "none"]
Accepted(s, t) == stream[s][t[1]] = [to |-> t, at |-> "accepted"]

-----------------------------------------------------------------------------
(* The checks of ComputeIntersection, each answered STATUS_INVALID_PARAMS. *)
Valid(r) == /\ r.protocol \in Protocols
            /\ r.elements \in 1..MaxElements
            /\ r.num_parties = N
            /\ r.threshold \in 2..r.num_parties
            /\ r.role # "dealer"
            /\ r.leader \in Parties

(* member_ids, and the neighbours in it: a member that names itself as the *)
(* leader has my_chain_pos -1, and the first of the chain comes next.      *)
MemberIds(s) == Parties \ {Leader(s)}

NextOf(s) == LET later == IF s[1] = Leader(s) THEN MemberIds(s) ELSE {q \in MemberIds(s) : q > s[1]}
             IN  IF later = {} THEN None ELSE Min(later)

PrevOf(s) == LET earlier == IF s[1] = Leader(s) THEN {} ELSE {q \in MemberIds(s) : q < s[1]}
             IN  IF earlier = {} THEN None ELSE Max(earlier)

(* The parties whose streams a member waits for, and those a session       *)
(* connects to.                                                            *)
Peers(s) == {Leader(s), PrevOf(s)} \ {None}
Targets(s) == IF Role(s) = "leader" THEN MemberIds(s) ELSE {NextOf(s)} \ {None}

(* The handlers that no stream has taken.                                  *)
Free(t) == {p \in Peers(t) : \A s \in Sessions : s[1] = p => ~ Accepted(s, t)}

(* A session that threw may be held up before or within Shutdown.          *)
HeldUp == {"stuck", "asleep"}
Serving(t) == pc[t] \in {"waiting", "sizes", "ring", "decrypt", "closing"} /\ Role(t) = "member"
Listening(t) == Serving(t) \/ pc[t] \in HeldUp

Ended == {"unsubmitted", "invalid", "ok", "error"}
Gone(s) == pc[s] \in {"error", "stuck", "dead"}

-----------------------------------------------------------------------------
Init == /\ request \in Plans
        /\ pc = [s \in Sessions |-> "unsubmitted"]
        /\ stream = [s \in Sessions |-> [q \in Parties |-> NoStream]]
        /\ product = [s \in Sessions |-> {}]
        /\ overlapped = FALSE

Goto(s, from, to) == pc[s] = from /\ pc' = [pc EXCEPT ![s] = to]

(* A client calls, also while earlier calls of the party are under way;    *)
(* its server may then fail to bind the port, or share it with theirs.     *)
Submit(s) ==
    /\ s[2] > 1 => pc[<<s[1], s[2] - 1>>] # "unsubmitted"
    /\ \A k \in 1..Attempts : pc[<<s[1], k>>] # "dead"
    /\ \/ Goto(s, "unsubmitted", "invalid") /\ ~ Valid(request[s])
       \/ Goto(s, "unsubmitted", "connecting") /\ Valid(request[s]) /\ Role(s) = "leader"
       \/ Goto(s, "unsubmitted", "waiting") /\ Valid(request[s]) /\ Role(s) = "member"
       \/ /\ Goto(s, "unsubmitted", "deaf") /\ Valid(request[s]) /\ Role(s) = "member"
          /\ \E t \in Sessions : t[1] = s[1] /\ Listening(t)
    /\ UNCHANGED <<request, stream, product>>

(* A leader connects to all members in turn, a member to the next one when *)
(* its peers are there.                                                    *)
Ready(s) == pc[s] = "connecting" \/ (pc[s] = "waiting" /\ Free(s) = {})
Todo(s) == {q \in Targets(s) : stream[s][q] = NoStream}

Connect(s) ==
    /\ Ready(s)
    /\ IF Todo(s) = {} THEN UNCHANGED stream
       ELSE \E t \in Sessions :
              /\ t[1] = Min(Todo(s)) /\ Listening(t)
              /\ stream' = [stream EXCEPT ![s][t[1]] = [to |-> t, at |-> "sent"]]
    /\ pc' = IF Cardinality(Todo(s)) <= 1 THEN [pc EXCEPT ![s] = "sizes"] ELSE pc
    /\ UNCHANGED <<request, product>>

(* Nobody listens, and the handshake's Write fails: the leader's call      *)
(* answers STATUS_ERROR, a member's waits for its own handlers.            *)
Thrown(s) == IF Role(s) = "leader" THEN "error" ELSE "stuck"

Unreachable(s) ==
    /\ Ready(s)
    /\ Todo(s) # {}
    /\ ~ \E t \in Sessions : t[1] = Min(Todo(s)) /\ Serving(t)
    /\ pc' = [pc EXCEPT ![s] = Thrown(s)]
    /\ UNCHANGED <<request, stream, product>>

(* ProtocolChannel of the session that a stream has reached.               *)
Accept(s, q) ==
    /\ stream[s][q].at = "sent"
    /\ LET t == stream[s][q].to IN Listening(t) /\ s[1] \in Free(t)
    /\ stream' = [stream EXCEPT ![s][q].at = "accepted"]
    /\ UNCHANGED <<request, pc, product>>

Refuse(s, q) ==
    /\ stream[s][q].at = "sent"
    /\ LET t == stream[s][q].to
       IN  ~ Serving(t) \/ s[1] \notin Free(t) \/ Gone(s)
    /\ stream' = [stream EXCEPT ![s][q].at = "refused"]
    /\ UNCHANGED <<request, pc, product>>

-----------------------------------------------------------------------------
Group(l) == {stream[l][q].to : q \in Targets(l)}

Advance(l, to) == pc' = [s \in Sessions |-> IF s \in {l} \union Group(l) THEN to ELSE pc[s]]

(* negotiateSetSize, of the leader and of the members on their streams     *)
(* from it.                                                                *)
Attends(u, l) == Accepted(l, u) /\ pc[u] = "sizes" /\ Leader(u) = l[1]

Negotiate(l) ==
    /\ Role(l) = "leader" /\ pc[l] = "sizes"
    /\ \A q \in Targets(l) : stream[l][q].at = "accepted" /\ Attends(stream[l][q].to, l)
    /\ Advance(l, "ring")
    /\ product' = [product EXCEPT ![l] = {l}]
    /\ UNCHANGED <<request, stream>>

(* The stream a member reads the polynomial from; a leader sends it to the *)
(* first of its chain.  Mutant: it is always the leader's.                 *)
SourceAtLeader(u) == {s \in Sessions : s[1] = Leader(u) /\ Accepted(s, u)}

SourceOf(u) == {s \in Sessions :
                  /\ s[1] = IF PrevOf(u) = None THEN Leader(u) ELSE PrevOf(u)
                  /\ Accepted(s, u)
                  /\ Role(s) = "leader" => u[1] = Min(Targets(s))}

(* The hops are chosen by party id: see NullChannel in Beh21Protocol.      *)
NoPrev(u) == PrevOf(u) = None /\ u[1] # 0
NoNext(u) == NextOf(u) = None /\ u[1] # N - 2
ByWayOfLeader(u) == NextOf(u) # None /\ u[1] = N - 2

Multiply(u) ==
    /\ Role(u) = "member"
    /\ ~ NoPrev(u) /\ ~ NoNext(u) /\ ~ ByWayOfLeader(u)
    /\ Goto(u, "ring", "decrypt")
    /\ \E s \in SourceOf(u) :
         /\ product[s] # {}
         /\ product' = [product EXCEPT ![u] = product[s] \union {u}]
    /\ \A q \in Targets(u) : stream[u][q].at # "refused"
    /\ UNCHANGED <<request, stream>>

(* The product comes back from the last member, and the rest goes between  *)
(* the leader and each member.                                             *)
Collect(l) ==
    /\ Role(l) = "leader" /\ pc[l] = "ring"
    /\ \A u \in Group(l) : pc[u] = "decrypt"
    /\ product' = [product EXCEPT ![l] = product[stream[l][Max(Targets(l))].to]]
    /\ Advance(l, "closing")
    /\ UNCHANGED <<request, stream>>

(* close() waits for the status of the stream, which the member at the     *)
(* other end sends when it has set done; it wakes up its handlers, or      *)
(* misses one of them (MemberSession), and answers.  Mutant: it waits for  *)
(* the session of the previous party.                                      *)
Closed(t) == pc[t] \in {"ok", "dead"}

CloseWaitingForPrev(s) ==
    /\ pc[s] = "closing"
    /\ \A t \in Sessions : t[1] = PrevOf(s) /\ Accepted(t, s) => Closed(t)
    /\ \A q \in Targets(s) : Closed(stream[s][q].to)
    /\ \/ Goto(s, "closing", "ok")
       \/ Goto(s, "closing", "asleep") /\ Role(s) = "member"
    /\ UNCHANGED <<request, stream, product>>

Close(s) ==
    /\ pc[s] = "closing"
    /\ \A q \in Targets(s) : Closed(stream[s][q].to)
    /\ \/ Goto(s, "closing", "ok")
       \/ Goto(s, "closing", "asleep") /\ Role(s) = "member"
    /\ UNCHANGED <<request, stream, product>>

-----------------------------------------------------------------------------
(* A process ends: a null channel is used, or a thread of the leader       *)
(* throws.  All sessions of the party end with it.                         *)
Kill(p) == pc' = [s \in Sessions |-> IF s[1] = p /\ pc[s] \notin Ended THEN "dead" ELSE pc[s]]

NullChannel(u) ==
    /\ Role(u) = "member" /\ pc[u] = "ring"
    /\ NoPrev(u) \/ (NoNext(u) /\ \E s \in SourceOf(u) : product[s] # {})
    /\ Kill(u[1])
    /\ UNCHANGED <<request, stream, product>>

(* A stream whose other end is gone.                                       *)
DeadEnd(s) ==
    \/ \E q \in Targets(s) : \/ stream[s][q].at = "refused"
                             \/ stream[s][q].at = "accepted" /\ pc[stream[s][q].to] = "dead"
    \/ \E r \in Sessions : Accepted(r, s) /\ Gone(r)

Throw(s) ==
    /\ pc[s] \in {"sizes", "ring", "decrypt"}
    /\ DeadEnd(s)
    /\ \/ pc' = [pc EXCEPT ![s] = Thrown(s)]
       \/ Role(s) = "leader" /\ pc[s] = "ring" /\ Kill(s[1])
    /\ UNCHANGED <<request, stream, product>>

-----------------------------------------------------------------------------
SessionStep(s) == \/ Connect(s) \/ Unreachable(s)
                  \/ \E q \in Parties : Accept(s, q) \/ Refuse(s, q)
                  \/ Negotiate(s) \/ Multiply(s) \/ Collect(s) \/ Close(s)
                  \/ NullChannel(s) \/ Throw(s)

(* The computations that have passed their negotiation, and those whose    *)
(* leaders still work at it.                                               *)
Begun == {l \in Leading : product[l] # {}}
Underway == {l \in Begun : pc[l] \in {"ring", "closing"}}
Overlap == \E l, m \in Underway : l # m

(* What the history variable records, after every step.                    *)
Record == overlapped' = (overlapped \/ Overlap')

Next == \E s \in Calls : (Submit(s) \/ SessionStep(s)) /\ Record

Spec == Init /\ [][Next]_vars

(* Sessions go on when they can; no client has to submit.  A session has   *)
(* finitely many steps, so it is enough that one that can go on does.      *)
Fairness == WF_vars((\E s \in Calls : SessionStep(s)) /\ Record)

-----------------------------------------------------------------------------
(* The polynomials in a leader's product are those of one session of every *)
(* party, all of which take it for the leader.                             *)
Complete(l) ==
    /\ l \in Leading
    /\ {s[1] : s \in product[l]} = Parties
    /\ Cardinality(product[l]) = N
    /\ \A s \in product[l] : Leader(s) = l[1] /\ (Role(s) = "leader" <=> s = l)

(* A call is answered STATUS_OK only as part of a computation in which     *)
(* every party takes part exactly once and all agree on the leader, in     *)
(* whatever order clients submit, disagree and submit again, and whatever  *)
(* is left of earlier computations, as long as two have never been under   *)
(* way at the same time: the rings of those can cross.                     *)
OkOnlyTogether ==
    \A s \in Sessions : pc[s] = "ok" =>
        \/ \E l \in Begun : s \in product[l] /\ Complete(l)
        \/ overlapped

(* A leader whose call comes when one session of every member waits, with  *)
(* nothing left from earlier attempts, is answered STATUS_OK, unless       *)
(* another leader interferes, a member has two sessions, or a wake-up is   *)
(* lost: an attempt that came too early and reached nobody can be repeated.*)
Untouched(s) == \A q \in Parties : stream[s][q] = NoStream

Twice(q) == \E s, t \in Sessions : s # t /\ s[1] = q /\ t[1] = q /\ Listening(s) /\ Listening(t)

CleanStart(l) ==
    /\ l \in Leading /\ Leader(l) = l[1] /\ l[1] = N - 1
    /\ pc[l] = "connecting"
    /\ \A s \in Sessions : Untouched(s)
    /\ \A q \in MemberIds(l) : \E u \in Sessions : u[1] = q /\ pc[u] = "waiting" /\ Leader(u) = l[1]

Interference == \/ \E q \in Parties : Twice(q)
                \/ Cardinality({l \in Leading : ~ Untouched(l)}) > 1
                \/ \E s \in Sessions : pc[s] = "asleep"

LastLeaderIsAnswered ==
    (\E l \in Sessions : CleanStart(l)) ~> ((\E l \in Leading : pc[l] = "ok") \/ Interference)
=============================================================================
