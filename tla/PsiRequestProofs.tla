-------------------------- MODULE PsiRequestProofs --------------------------
(***************************************************************************)
(* Proofs about requests that nobody serialises: the ones the clients      *)
(* submit to the parties (PsiRequest), for any number of parties and of    *)
(* attempts and whatever they ask for, and the ones the web server handles *)
(* with its one cluster of processes (WebCluster), for any number of       *)
(* threads and clusters of any size.                                       *)
(*                                                                         *)
(* The sessions of one computation find each other by party id only, and   *)
(* which streams a leader has got is decided before its computation begins.*)
(* From then on its group is fixed: a leader and one session of every party*)
(* it has called, all of which take it for the leader.  What a session     *)
(* works on belongs to a computation that has begun.  Nothing of an earlier*)
(* one comes into the product of the only one under way: if the earlier one*)
(* was finished, each of its members has sent to the next of its own, over *)
(* its one stream to that party; and if it failed, it was because a process*)
(* died, and nothing is finished without that party.                       *)
(***************************************************************************)
EXTENDS PsiRequest, WebCluster, FiniteSetTheorems, WellFoundedInduction, TLAPS

-----------------------------------------------------------------------------
(* The inductive invariant.                                                *)
Before == {"unsubmitted", "invalid", "connecting", "waiting", "deaf", "sizes"}
Along == {"ring", "decrypt", "closing", "ok"}

Typed == /\ request \in Plans
         /\ DOMAIN pc = Sessions
         /\ stream \in [Sessions -> [Parties -> [to : Sessions \union {None},
                                                 at : {"none", "sent", "accepted", "refused"}]]]
         /\ product \in [Sessions -> SUBSET Sessions]

(* Only valid requests are worked on, each where its role may be.          *)
Checked == \A s \in Sessions :
              /\ pc[s] \notin {"unsubmitted", "invalid"} => s \in Calls /\ Valid(request[s])
              /\ pc[s] \in {"waiting", "deaf", "stuck", "asleep", "decrypt"} => Role(s) = "member"

(* A stream reaches a member's session of the party it was opened to.      *)
Reaches(s, q) == stream[s][q].at # "none" =>
                   LET t == stream[s][q].to IN t \in Calls /\ t[1] = q /\ Role(t) = "member"
Reached == \A s \in Sessions : \A q \in Parties : Reaches(s, q)

(* A session accepts one stream of a party.                                *)
Single == \A s, r, t \in Sessions : s[1] = r[1] /\ Accepted(s, t) /\ Accepted(r, t) => s = r

(* A leader whose computation has begun has all its streams, to members    *)
(* that take it for the leader; whoever is in the ring or beyond belongs to*)
(* a computation that has begun.                                           *)
Started == \A l \in Begun :
              /\ pc[l] \notin Before
              /\ \A q \in Targets(l) : /\ stream[l][q].at = "accepted"
                                       /\ Leader(stream[l][q].to) = l[1]

Joined == \A s \in Sessions : pc[s] \in Along \/ product[s] # {} =>
             \E l \in Begun : s = l \/ s \in Group(l)

(* A member that multiplied had the neighbours of its place in the chain.  *)
Passed == \A u \in Sessions : pc[u] = "decrypt" =>
             product[u] # {} /\ ~ NoPrev(u) /\ ~ NoNext(u) /\ ~ ByWayOfLeader(u)

(* All sessions of a party end with its process, and a leader fails only   *)
(* with the process of a party.                                            *)
Doomed == \E s \in Sessions : pc[s] = "dead"

DeadParties == \A s, t \in Sessions :
                  pc[s] = "dead" /\ t[1] = s[1] => pc[t] \in Ended \union {"dead"}

Failed == \A l \in Begun : pc[l] \in {"ring", "closing", "ok"} \/ Doomed

(* As long as no process died: of the leader that the chain is made for,   *)
(* the product grows by one member after the other, over their streams.    *)
LastLeads(l) == Leader(l) = N - 1 /\ l[1] = N - 1
UpTo(l, u) == {l} \union {v \in Group(l) : v[1] <= u[1]}
FromPrev(l, u) == u[1] # 0 => Accepted(stream[l][u[1] - 1].to, u)

Multiplied(l) ==
    /\ pc[l] = "ring" => product[l] = {l}
    /\ product[l] # {l} => /\ LastLeads(l)
                           /\ \A u \in Group(l) : pc[u] # "ring" /\ product[u] # {}
    /\ LastLeads(l) => \A u \in Group(l) :
                         product[u] # {} => product[u] = UpTo(l, u) /\ FromPrev(l, u)

Together(l) == \A s \in {l} \union Group(l) :
                  pc[s] \in {"closing", "ok"} => s \in product[l] /\ Complete(l)

Alone == \/ overlapped
         \/ /\ ~ Overlap
            /\ \A l \in Begun : Together(l)
            /\ Doomed \/ \A l \in Begun : Multiplied(l)

IInv == /\ Typed /\ Checked /\ Reached /\ Single /\ Started /\ Joined /\ Passed
        /\ DeadParties /\ Failed /\ Alone

-----------------------------------------------------------------------------
(* Parties and sessions.                                                   *)
LEMMA PartyFacts ==
  /\ N \in Nat /\ N >= 2 /\ Parties = 0..(N - 1) /\ None \notin Parties /\ None \notin Requests
  /\ \A s \in Sessions : s[1] \in Parties /\ s = <<s[1], s[2]>>
BY RequestAssumption DEF Parties, Sessions

(* A valid request is for a leader among the parties, and no dealer's.     *)
LEMMA ValidRequest ==
  ASSUME Typed, NEW s \in Sessions, s \in Calls, Valid(request[s])
  PROVE  Leader(s) \in Parties /\ Role(s) \in {"member", "leader"}
<1>1. request[s] \in Requests
  BY RequestAssumption DEF Typed, Calls
<1>2. Role(s) \in {"member", "leader", "dealer"}
  BY <1>1 DEF Requests, Role
<1> QED
  BY <1>2 DEF Valid, Role, Leader

(* Neighbours are a matter of the requests.                                *)
LEMMA SameRequests ==
  ASSUME request' = request
  PROVE  /\ \A s : Leader(s)' = Leader(s) /\ Role(s)' = Role(s) /\ Targets(s)' = Targets(s)
         /\ \A u : /\ NoPrev(u)' = NoPrev(u) /\ NoNext(u)' = NoNext(u)
                   /\ ByWayOfLeader(u)' = ByWayOfLeader(u)
         /\ Calls' = Calls /\ Leading' = Leading /\ \A l : LastLeads(l)' = LastLeads(l)
BY DEF Leader, Role, Targets, MemberIds, NextOf, PrevOf, NoPrev, NoNext, ByWayOfLeader, Calls,
       Leading, LastLeads

(* A stream that was opened reaches a member's session of that party.      *)
LEMMA SessionOfStream ==
  ASSUME Typed, Reached, NEW s \in Sessions, NEW q \in Parties, stream[s][q].at # "none"
  PROVE  /\ stream[s][q].to \in Sessions /\ stream[s][q].to[1] = q
         /\ stream[s][q].to \in Calls /\ Role(stream[s][q].to) = "member"
BY DEF Typed, Reached, Reaches, Calls

(* A leader connects to everybody but the party it names.                  *)
LEMMA TargetParties ==
  ASSUME Typed, NEW l \in Sessions, Role(l) = "leader"
  PROVE  Targets(l) = Parties \ {Leader(l)}
BY DEF Targets, MemberIds

(* The sessions of a computation, one of each party.                       *)
LEMMA GroupFacts ==
  ASSUME IInv, NEW l \in Begun
  PROVE  /\ l \in Sessions /\ Role(l) = "leader" /\ Leader(l) \in Parties
         /\ \A u \in Group(l) : /\ u \in Sessions /\ u[1] \in Parties \ {Leader(l)}
                                /\ u = stream[l][u[1]].to /\ stream[l][u[1]].at = "accepted"
                                /\ Role(u) = "member" /\ u # l /\ u \in Calls /\ Leader(u) = l[1]
                                /\ Accepted(l, u)
         /\ \A q \in Parties \ {Leader(l)} : stream[l][q].to \in Group(l) /\ stream[l][q].to[1] = q
<1>1. l \in Sessions /\ l \in Calls /\ Role(l) = "leader"
  BY DEF Begun, Leading, Calls
<1>2. Leader(l) \in Parties
  <2>1. pc[l] \notin {"unsubmitted", "invalid"}
    BY DEF IInv, Started, Before
  <2>2. Valid(request[l])
    BY <1>1, <2>1 DEF IInv, Checked
  <2> QED
    BY <1>1, <2>2, ValidRequest DEF IInv
<1>3. Targets(l) = Parties \ {Leader(l)}
  BY <1>1, TargetParties DEF IInv
<1>4. ASSUME NEW q \in Targets(l)
      PROVE  /\ q \in Parties /\ stream[l][q].at = "accepted"
             /\ stream[l][q].to \in Sessions /\ stream[l][q].to[1] = q
             /\ stream[l][q].to \in Calls /\ Role(stream[l][q].to) = "member"
             /\ Leader(stream[l][q].to) = l[1]
  <2>1. q \in Parties /\ stream[l][q].at = "accepted" /\ Leader(stream[l][q].to) = l[1]
    BY <1>3 DEF IInv, Started
  <2> QED
    BY <1>1, <2>1, SessionOfStream DEF IInv
<1>5. ASSUME NEW u \in Group(l) PROVE \E q \in Targets(l) : u = stream[l][q].to
  BY DEF Group
<1>6. \A u \in Group(l) : /\ u \in Sessions /\ u[1] \in Parties \ {Leader(l)}
                          /\ u = stream[l][u[1]].to /\ stream[l][u[1]].at = "accepted"
                          /\ Role(u) = "member" /\ u # l /\ u \in Calls /\ Leader(u) = l[1]
  BY <1>1, <1>3, <1>4, <1>5
<1>8. ASSUME NEW u \in Group(l) PROVE Accepted(l, u)
  <2>1. stream[l][u[1]] \in [to : Sessions \union {None},
                             at : {"none", "sent", "accepted", "refused"}]
    BY <1>1, <1>6 DEF IInv, Typed
  <2> QED
    BY <1>6, <2>1 DEF Accepted
<1>7. \A q \in Parties \ {Leader(l)} : stream[l][q].to \in Group(l) /\ stream[l][q].to[1] = q
  BY <1>3, <1>4 DEF Group
<1> QED
  BY <1>1, <1>2, <1>6, <1>7, <1>8

(* Two computations have no session in common.                             *)
LEMMA GroupsApart ==
  ASSUME IInv, NEW l \in Begun, NEW m \in Sessions, NEW u \in Group(l),
         Accepted(m, u), m[1] = Leader(u)
  PROVE  m = l
<1>1. u \in Sessions /\ l \in Sessions /\ l[1] = Leader(u) /\ Accepted(l, u)
  BY GroupFacts
<1> QED
  BY <1>1 DEF IInv, Single

(* What the history variable allows a step to assume.                      *)
Recorded == overlapped' \/ (~ overlapped /\ ~ Overlap')

LEMMA RecordIsEnough == Record => Recorded
BY DEF Record, Recorded

(* A step that touches no product, nor a stream that was accepted.         *)
LEMMA Frame ==
  ASSUME IInv, Recorded, UNCHANGED <<request, product>>,
         Typed', Checked', Reached', Single', DeadParties',
         \A s \in Sessions : \A q \in Parties :
            stream[s][q].at = "accepted" => stream'[s][q] = stream[s][q],
         \A s \in Sessions : \/ pc'[s] = pc[s]
                             \/ /\ pc[s] # "dead" /\ pc'[s] \notin {"ring", "decrypt", "closing"}
                                /\ pc'[s] \in Before => pc[s] \in Before
                                /\ pc'[s] = "ok" => pc[s] = "closing",
         \A l \in Begun : pc'[l] \in {"ring", "closing", "ok"} \/ Doomed'
  PROVE  IInv'
<1>1. /\ \A s : Leader(s)' = Leader(s) /\ Role(s)' = Role(s) /\ Targets(s)' = Targets(s)
      /\ Leading' = Leading /\ \A l : LastLeads(l)' = LastLeads(l)
  BY SameRequests
<1>2. Begun' = Begun /\ \A l : Complete(l)' = Complete(l)
  BY <1>1 DEF Begun, Complete
<1>3. ASSUME NEW l \in Begun
      PROVE  /\ l \in Sessions /\ Group(l) \subseteq Sessions /\ Group(l)' = Group(l)
             /\ \A q \in Targets(l) : stream'[l][q] = stream[l][q]
  <2>1. l \in Sessions /\ Role(l) = "leader" /\ Group(l) \subseteq Sessions
    BY GroupFacts
  <2>2. Targets(l) \subseteq Parties
    BY <2>1, TargetParties DEF IInv
  <2>3. \A q \in Targets(l) : stream'[l][q] = stream[l][q]
    BY <2>1, <2>2 DEF IInv, Started
  <2>4. Group(l)' = Group(l)
    BY <1>1, <2>3 DEF Group
  <2> QED
    BY <2>1, <2>3, <2>4
<1>4. Started'
  BY <1>1, <1>2, <1>3 DEF IInv, Started, Before
<1>5. Joined'
  BY <1>2, <1>3 DEF IInv, Joined, Along
<1>6. Passed'
  BY SameRequests DEF IInv, Passed
<1>7. Failed' /\ (Doomed => Doomed')
  BY <1>2 DEF Failed, Doomed
<1>8. ASSUME NEW l \in Begun, Together(l) PROVE Together(l)'
  BY <1>2, <1>3, <1>8 DEF Together
<1>9. ASSUME NEW l \in Begun, Multiplied(l) PROVE Multiplied(l)'
  <2>1. \A u : UpTo(l, u)' = UpTo(l, u)
    BY <1>3 DEF UpTo
  <2>2. ASSUME NEW u \in Group(l), LastLeads(l), FromPrev(l, u) PROVE FromPrev(l, u)'
    <3> SUFFICES ASSUME u[1] # 0 PROVE Accepted(stream[l][u[1] - 1].to, u)'
      BY DEF FromPrev
    <3>1. /\ u[1] \in Parties /\ u[1] - 1 \in Parties \ {Leader(l)} /\ u[1] - 1 \in Targets(l)
      BY <2>2, GroupFacts, PartyFacts, TargetParties DEF LastLeads, IInv
    <3>2. PICK w \in Sessions : w = stream[l][u[1] - 1].to /\ w = stream'[l][u[1] - 1].to
      BY <1>3, <3>1, GroupFacts
    <3>3. stream[w][u[1]] = [to |-> u, at |-> "accepted"]
      BY <2>2, <3>2 DEF FromPrev, Accepted
    <3>4. stream[w][u[1]].at = "accepted"
      BY <3>3
    <3>5. stream'[w][u[1]] = stream[w][u[1]]
      BY <3>1, <3>4
    <3> QED
      BY <3>2, <3>3, <3>5 DEF Accepted
  <2>3. \A u \in Group(l) : u \in Sessions
    BY <1>3
  <2>4. /\ pc'[l] = "ring" => product'[l] = {l}
        /\ product'[l] # {l} => /\ LastLeads(l)
                                /\ \A u \in Group(l) : pc'[u] # "ring" /\ product'[u] # {}
        /\ LastLeads(l) => \A u \in Group(l) :
                             product'[u] # {} => product'[u] = UpTo(l, u) /\ FromPrev(l, u)
    BY <1>3, <1>9, <2>3 DEF Multiplied
  <2> QED
    BY <1>1, <1>3, <2>1, <2>2, <2>4 DEF Multiplied
<1>10. Alone'
  BY <1>2, <1>7, <1>8, <1>9 DEF IInv, Alone, Recorded
<1> QED
  BY <1>4, <1>5, <1>6, <1>7, <1>10 DEF IInv

(* A session that goes on is not of a party whose process is dead.         *)
LEMMA DeathStays ==
  ASSUME IInv, \A s \in Sessions : \/ pc'[s] = pc[s]
                                   \/ pc[s] \notin Ended \union {"dead"} /\ pc'[s] # "dead"
  PROVE  DeadParties' /\ (Doomed' <=> Doomed)
BY DEF IInv, DeadParties, Doomed

(* The first state satisfies the invariant.                                *)
LEMMA InitHolds == Init => IInv
<1> SUFFICES ASSUME Init PROVE IInv
  OBVIOUS
<1>1. /\ request \in Plans /\ DOMAIN pc = Sessions
      /\ \A s \in Sessions : pc[s] = "unsubmitted" /\ product[s] = {}
      /\ product \in [Sessions -> SUBSET Sessions]
  BY DEF Init
<1>2. \A s \in Sessions : \A q \in Parties : stream[s][q].to = None /\ stream[s][q].at = "none"
  BY DEF Init, NoStream
<1>3. Typed
  BY <1>1 DEF Init, Typed, NoStream
<1>4. Begun = {} /\ Underway = {}
  BY <1>1 DEF Begun, Underway, Leading, Calls
<1>5. Checked /\ Reached /\ Started /\ Joined /\ Passed /\ DeadParties /\ Failed
  BY <1>1, <1>2, <1>4 DEF Checked, Reached, Reaches, Started, Joined, Along, Passed, DeadParties, Failed
<1>7. Single
  BY <1>2, PartyFacts DEF Single, Accepted
<1>6. Alone
  BY <1>4 DEF Alone, Overlap
<1> QED
  BY <1>3, <1>5, <1>6, <1>7 DEF IInv

(* A client calls.                                                         *)
LEMMA SubmitKeeps == ASSUME IInv, Recorded, NEW s \in Calls, Submit(s) PROVE IInv'
<1>1. /\ s \in Sessions /\ pc[s] = "unsubmitted" /\ UNCHANGED <<request, stream, product>>
      /\ DOMAIN pc = Sessions
  BY DEF Calls, Submit, Goto, IInv, Typed
<1>2. \/ pc' = [pc EXCEPT ![s] = "invalid"]
      \/ pc' = [pc EXCEPT ![s] = "connecting"] /\ Valid(request[s])
      \/ pc' = [pc EXCEPT ![s] = "waiting"] /\ Valid(request[s]) /\ Role(s) = "member"
      \/ pc' = [pc EXCEPT ![s] = "deaf"] /\ Valid(request[s]) /\ Role(s) = "member"
  BY DEF Submit, Goto
<1>3. /\ DOMAIN pc' = Sessions /\ \A x \in Sessions \ {s} : pc'[x] = pc[x]
      /\ pc'[s] \in {"invalid", "connecting", "waiting", "deaf"}
      /\ pc'[s] \in {"waiting", "deaf"} => Role(s) = "member"
      /\ pc'[s] # "invalid" => Valid(request[s])
  BY <1>1, <1>2
<1>4. Typed'
  BY <1>1, <1>3 DEF IInv, Typed
<1>5. Checked'
  BY <1>1, <1>3, SameRequests DEF IInv, Checked
<1>6. Reached' /\ Single'
  BY <1>1, SameRequests DEF IInv, Reached, Reaches, Single, Accepted
<1>7. DeadParties'
  <2>1. \A t \in Sessions : t[1] = s[1] => pc[t] # "dead"
    <3> SUFFICES ASSUME NEW t \in Sessions, t[1] = s[1] PROVE pc[t] # "dead"
      OBVIOUS
    <3>1. t = <<s[1], t[2]>> /\ t[2] \in 1..Attempts
      BY PartyFacts DEF Sessions
    <3>2. \A k \in 1..Attempts : pc[<<s[1], k>>] # "dead"
      BY DEF Submit
    <3> QED
      BY <3>1, <3>2
  <2> QED
    BY <1>1, <1>3, <2>1 DEF IInv, DeadParties
<1>8. \A l \in Begun : pc'[l] \in {"ring", "closing", "ok"} \/ Doomed'
  <2>1. \A l \in Begun : l \in Sessions /\ l # s
    BY <1>1, GroupFacts DEF IInv, Started, Before
  <2>2. Doomed => Doomed'
    BY <1>1, <1>3 DEF Doomed
  <2> QED
    BY <1>3, <2>1, <2>2 DEF IInv, Failed
<1> QED
  BY <1>1, <1>3, <1>4, <1>5, <1>6, <1>7, <1>8, Frame DEF Before

(* The smallest of some parties is one of them.                            *)
LEMMA LeastParty ==
  ASSUME NEW S \in SUBSET Parties, S # {}
  PROVE  Min(S) \in S
<1>1. S \in SUBSET Nat
  BY PartyFacts
<1>2. \E i \in S : \A j \in S : <<j, i>> \notin OpToRel(<, Nat)
  BY <1>1, NatLessThanWellFounded, WFMin
<1>3. PICK i \in S : \A j \in S : ~ j < i
  BY <1>1, <1>2 DEF OpToRel
<1>4. \A j \in S : i <= j
  BY <1>1, <1>3
<1> QED
  BY <1>4 DEF Min

(* A session connects to parties.                                          *)
LEMMA ReachableParties == ASSUME NEW s PROVE Targets(s) \subseteq Parties
<1>1. MemberIds(s) \subseteq Parties
  BY DEF MemberIds
<1>2. NextOf(s) = None \/ NextOf(s) \in Parties
  <2> DEFINE later == IF s[1] = Leader(s) THEN MemberIds(s) ELSE {q \in MemberIds(s) : q > s[1]}
  <2>1. later \in SUBSET Parties
    BY <1>1
  <2> HIDE DEF later
  <2>2. NextOf(s) = IF later = {} THEN None ELSE Min(later)
    BY DEF NextOf, later
  <2> QED
    BY <2>1, <2>2, LeastParty
<1> QED
  BY <1>1, <1>2 DEF Targets

(* A session opens a stream.                                               *)
LEMMA ConnectKeeps == ASSUME IInv, Recorded, NEW s \in Calls, Connect(s) PROVE IInv'
<1>1. /\ s \in Sessions /\ pc[s] \in {"connecting", "waiting"} /\ UNCHANGED <<request, product>>
      /\ DOMAIN pc = Sessions
  BY DEF Calls, Connect, Ready, IInv, Typed
<1>2. /\ DOMAIN pc' = Sessions /\ \A x \in Sessions \ {s} : pc'[x] = pc[x]
      /\ pc'[s] \in {pc[s], "sizes"}
  BY <1>1 DEF Connect
<1>3. \/ stream' = stream
      \/ \E t \in Sessions : /\ Listening(t) /\ stream[s][t[1]] = NoStream
                             /\ stream' = [stream EXCEPT ![s][t[1]] = [to |-> t, at |-> "sent"]]
  <2> SUFFICES ASSUME Todo(s) # {}
               PROVE  \E t \in Sessions :
                        /\ Listening(t) /\ stream[s][t[1]] = NoStream
                        /\ stream' = [stream EXCEPT ![s][t[1]] = [to |-> t, at |-> "sent"]]
    BY DEF Connect
  <2>1. Todo(s) \subseteq Parties
    BY <1>1, ReachableParties DEF Todo
  <2>2. stream[s][Min(Todo(s))] = NoStream
    BY <2>1, LeastParty DEF Todo
  <2> QED
    BY <2>2 DEF Connect
<1>4. /\ Typed' /\ Reached'
      /\ \A r \in Sessions : \A q \in Parties :
            \/ stream'[r][q] = stream[r][q]
            \/ stream[r][q].at # "accepted" /\ stream'[r][q].at = "sent"
  <2>1. CASE stream' = stream
    BY <1>1, <1>2, <2>1, SameRequests DEF IInv, Typed, Reached, Reaches
  <2>2. CASE stream' # stream
    <3>1. PICK t \in Sessions : /\ Listening(t) /\ stream[s][t[1]] = NoStream
                                /\ stream' = [stream EXCEPT ![s][t[1]] = [to |-> t, at |-> "sent"]]
      BY <1>3, <2>2
    <3>2. t \in Calls /\ Role(t) = "member" /\ t[1] \in Parties
      <4>1. \/ /\ pc[t] \in {"waiting", "sizes", "ring", "decrypt", "closing"}
               /\ Role(t) = "member"
            \/ pc[t] \in {"stuck", "asleep"}
        BY <3>1 DEF Listening, Serving, HeldUp
      <4> QED
        BY <4>1, PartyFacts DEF IInv, Checked
    <3>3. /\ stream' \in [Sessions -> [Parties -> [to : Sessions \union {None},
                                                   at : {"none", "sent", "accepted", "refused"}]]]
          /\ \A l \in Sessions \ {s} : stream'[l] = stream[l]
          /\ \A q \in Parties \ {t[1]} : stream'[s][q] = stream[s][q]
          /\ stream'[s][t[1]] = [to |-> t, at |-> "sent"]
      BY <1>1, <3>1, <3>2 DEF IInv, Typed
    <3>4. Typed'
      BY <1>1, <1>2, <3>3 DEF IInv, Typed
    <3>5. ASSUME NEW r \in Sessions, NEW q \in Parties PROVE Reaches(r, q)'
      <4>1. CASE r = s /\ q = t[1]
        BY <3>2, <3>3, <4>1, <1>1, SameRequests DEF Reaches
      <4>2. CASE ~ (r = s /\ q = t[1])
        <5>1. stream'[r][q] = stream[r][q]
          BY <3>3, <4>2
        <5> QED
          BY <1>1, <5>1, SameRequests DEF IInv, Reached, Reaches
      <4> QED
        BY <4>1, <4>2
    <3>6. stream[s][t[1]].at # "accepted" /\ stream'[s][t[1]].at = "sent"
      BY <3>1, <3>3 DEF NoStream
    <3> QED
      BY <1>1, <3>3, <3>4, <3>5, <3>6 DEF Reached
  <2> QED
    BY <2>1, <2>2
<1>5. Checked'
  BY <1>1, <1>2, SameRequests DEF IInv, Checked
<1>6. \A r, t \in Sessions : Accepted(r, t)' => Accepted(r, t)
  <2> SUFFICES ASSUME NEW r \in Sessions, NEW t \in Sessions,
                      stream'[r][t[1]] = [to |-> t, at |-> "accepted"]
               PROVE  stream[r][t[1]] = [to |-> t, at |-> "accepted"]
    BY DEF Accepted
  <2>1. t[1] \in Parties /\ stream'[r][t[1]].at = "accepted"
    BY PartyFacts
  <2> QED
    BY <1>4, <2>1
<1>7. Single'
  BY <1>6 DEF IInv, Single
<1>8. DeadParties' /\ (Doomed' <=> Doomed)
  BY <1>1, <1>2, DeathStays DEF Ended
<1>9. \A l \in Begun : l \in Sessions /\ l # s
  BY <1>1, GroupFacts DEF IInv, Started, Before
<1>10. \A l \in Begun : pc'[l] \in {"ring", "closing", "ok"} \/ Doomed'
  BY <1>2, <1>8, <1>9 DEF IInv, Failed
<1>11. \A r \in Sessions : \A q \in Parties :
         stream[r][q].at = "accepted" => stream'[r][q] = stream[r][q]
  BY <1>4
<1> QED
  BY <1>1, <1>2, <1>4, <1>5, <1>7, <1>8, <1>10, <1>11, Frame DEF Before

(* An accepted stream stays accepted, and is the only one of its party.    *)
LEMMA StreamKeeps ==
  ASSUME IInv, Recorded, NEW s \in Sessions, NEW q \in Parties, NEW x \in {"accepted", "refused"},
         stream[s][q].at = "sent", stream' = [stream EXCEPT ![s][q].at = x],
         x = "accepted" => \A r \in Sessions : r[1] = s[1] => ~ Accepted(r, stream[s][q].to),
         UNCHANGED <<request, pc, product>>
  PROVE  IInv'
<1>1. stream[s][q] \in [to : Sessions \union {None}, at : {"none", "sent", "accepted", "refused"}]
  BY DEF IInv, Typed
<1>2. /\ stream' \in [Sessions -> [Parties -> [to : Sessions \union {None},
                                               at : {"none", "sent", "accepted", "refused"}]]]
      /\ stream'[s][q].to = stream[s][q].to
      /\ \A r \in Sessions : \A p \in Parties : ~ (r = s /\ p = q) => stream'[r][p] = stream[r][p]
  BY <1>1 DEF IInv, Typed
<1>3. Typed'
  BY <1>2 DEF IInv, Typed
<1>4. Checked'
  BY SameRequests DEF IInv, Checked
<1>5. ASSUME NEW r \in Sessions, NEW p \in Parties PROVE Reaches(r, p)'
  <2>1. CASE r = s /\ p = q
    BY <1>2, <2>1, SameRequests DEF IInv, Reached, Reaches
  <2>2. CASE ~ (r = s /\ p = q)
    BY <1>2, <2>2, SameRequests DEF IInv, Reached, Reaches
  <2> QED
    BY <2>1, <2>2
<1>6. \A r \in Sessions : \A p \in Parties :
        stream[r][p].at = "accepted" => stream'[r][p] = stream[r][p]
  BY <1>2
<1>7. ASSUME NEW r \in Sessions, NEW t \in Sessions, Accepted(r, t)'
      PROVE  Accepted(r, t) \/ (r = s /\ t = stream[s][q].to /\ x = "accepted")
  <2>1. t[1] \in Parties /\ stream'[r][t[1]] = [to |-> t, at |-> "accepted"]
    BY <1>7, PartyFacts DEF Accepted
  <2>2. CASE r = s /\ t[1] = q
    <3>1. stream'[s][q] = [stream[s][q] EXCEPT !.at = x]
      BY DEF IInv, Typed
    <3>2. stream'[s][q].to = t /\ stream'[s][q].at = "accepted" /\ stream'[s][q].at = x
      BY <1>1, <2>1, <2>2, <3>1
    <3> QED
      BY <1>2, <2>2, <3>2
  <2>3. CASE ~ (r = s /\ t[1] = q)
    BY <1>2, <2>1, <2>3 DEF Accepted
  <2> QED
    BY <2>2, <2>3
<1>8. Single'
  BY <1>7 DEF IInv, Single
<1>9. DeadParties' /\ \A l \in Begun : pc'[l] \in {"ring", "closing", "ok"} \/ Doomed'
  BY DEF IInv, DeadParties, Failed, Doomed
<1> QED
  BY <1>3, <1>4, <1>5, <1>6, <1>8, <1>9, Frame DEF Reached

(* Nobody leaves a leader whose computation has begun, unless with its     *)
(* process.                                                                *)
LEMMA LeaderIsKept ==
  ASSUME IInv, NEW l \in Begun, DeadEnd(l)
  PROVE  Doomed
<1>1. /\ l \in Sessions /\ Role(l) = "leader"
      /\ \A q \in Targets(l) : /\ q \in Parties /\ stream[l][q].at = "accepted"
                               /\ stream[l][q].to \in Sessions
  BY GroupFacts, TargetParties, SessionOfStream DEF IInv, Started
<1>2. ~ \E r \in Sessions : Accepted(r, l)
  <2> SUFFICES ASSUME NEW r \in Sessions, Accepted(r, l) PROVE FALSE
    OBVIOUS
  <2>1. l[1] \in Parties /\ stream[r][l[1]].at = "accepted" /\ stream[r][l[1]].to = l
    BY <1>1, PartyFacts DEF Accepted
  <2> QED
    BY <1>1, <2>1, SessionOfStream DEF IInv
<1>3. \E q \in Targets(l) : pc[stream[l][q].to] = "dead"
  BY <1>1, <1>2 DEF DeadEnd
<1> QED
  BY <1>1, <1>3 DEF Doomed

(* A session, or all of a party, comes to an end.                          *)
LEMMA EndKeeps ==
  ASSUME IInv, Recorded, NEW s \in Calls, UNCHANGED <<request, stream, product>>,
         \/ /\ pc' = [pc EXCEPT ![s] = Thrown(s)]
            /\ pc[s] \notin Ended \union {"dead"}
            /\ s \in Begun => Doomed
         \/ \E p \in Parties : Kill(p)
         \/ Close(s)
  PROVE  IInv'
<1>1. s \in Sessions /\ DOMAIN pc = Sessions
  BY DEF Calls, IInv, Typed
<1>2. Reached' /\ Single'
  BY SameRequests DEF IInv, Reached, Reaches, Single, Accepted
<1>6. \A l \in Begun : l \in Sessions /\ (pc[l] \in {"ring", "closing", "ok"} \/ Doomed)
  BY GroupFacts DEF IInv, Failed
<1>3. CASE /\ pc' = [pc EXCEPT ![s] = Thrown(s)] /\ pc[s] \notin Ended \union {"dead"}
           /\ s \in Begun => Doomed
  <2>1. /\ DOMAIN pc' = Sessions /\ \A x \in Sessions \ {s} : pc'[x] = pc[x]
        /\ pc'[s] \in {"error", "stuck"} /\ (pc'[s] = "stuck" => Role(s) # "leader")
    BY <1>1, <1>3 DEF Thrown
  <2>2. Valid(request[s]) /\ Role(s) \in {"member", "leader"}
    BY <1>1, <1>3, ValidRequest DEF IInv, Checked, Ended
  <2>3. Checked'
    BY <1>1, <2>1, <2>2, SameRequests DEF IInv, Checked
  <2>4. Typed'
    BY <2>1 DEF IInv, Typed
  <2>5. DeadParties' /\ (Doomed' <=> Doomed)
    BY <1>1, <1>3, <2>1, DeathStays
  <2>6. \A l \in Begun : pc'[l] \in {"ring", "closing", "ok"} \/ Doomed'
    BY <1>3, <1>6, <2>1, <2>5
  <2> QED
    BY <1>1, <1>2, <1>3, <2>1, <2>3, <2>4, <2>5, <2>6, Frame DEF Before
<1>4. CASE \E p \in Parties : Kill(p)
  <2>1. PICK p \in Parties : Kill(p)
    BY <1>4
  <2>2. /\ DOMAIN pc' = Sessions
        /\ \A x \in Sessions : \/ pc'[x] = pc[x] /\ (x[1] = p => pc[x] \in Ended)
                               \/ pc'[x] = "dead" /\ pc[x] \notin Ended /\ x[1] = p
    BY <2>1 DEF Kill
  <2>3. Checked'
    BY <2>2, SameRequests DEF IInv, Checked, Ended
  <2>4. Typed'
    BY <2>2 DEF IInv, Typed
  <2>5. DeadParties'
    BY <2>2 DEF IInv, DeadParties, Ended
  <2>6. \A l \in Begun : pc'[l] \in {"ring", "closing", "ok"} \/ Doomed'
    BY <1>6, <2>2 DEF Doomed
  <2>7. \A x \in Sessions : \/ pc'[x] = pc[x]
                            \/ pc'[x] = "dead" /\ pc[x] # "dead"
    BY <2>2
  <2> QED
    BY <1>2, <2>3, <2>4, <2>5, <2>6, <2>7, Frame DEF Before
<1>5. CASE Close(s)
  <2>1. /\ DOMAIN pc' = Sessions /\ \A x \in Sessions \ {s} : pc'[x] = pc[x]
        /\ pc'[s] \in {"ok", "asleep"} /\ (pc'[s] = "asleep" => Role(s) = "member")
    BY <1>1, <1>5 DEF Close, Goto
  <2>2. pc[s] = "closing"
    BY <1>5 DEF Close
  <2>3. Checked'
    BY <1>1, <2>1, <2>2, SameRequests DEF IInv, Checked
  <2>4. Typed'
    BY <2>1 DEF IInv, Typed
  <2>5. DeadParties' /\ (Doomed' <=> Doomed)
    BY <1>1, <2>1, <2>2, DeathStays DEF Ended
  <2>6. s \in Begun => Role(s) = "leader"
    BY GroupFacts
  <2>7. \A l \in Begun : pc'[l] \in {"ring", "closing", "ok"} \/ Doomed'
    BY <1>6, <2>1, <2>5, <2>6
  <2> QED
    BY <1>1, <1>2, <2>1, <2>2, <2>3, <2>4, <2>5, <2>7, Frame DEF Before
<1> QED
  BY <1>3, <1>4, <1>5

(* The streams decide who belongs together.                                *)
LEMMA SameStreams ==
  ASSUME UNCHANGED <<request, stream>>
  PROVE  /\ \A x : Leader(x)' = Leader(x) /\ Role(x)' = Role(x) /\ Targets(x)' = Targets(x)
         /\ Leading' = Leading /\ Calls' = Calls
         /\ \A x : Group(x)' = Group(x) /\ LastLeads(x)' = LastLeads(x)
         /\ \A x, u : UpTo(x, u)' = UpTo(x, u) /\ FromPrev(x, u)' = FromPrev(x, u)
         /\ Single' = Single
<1>1. /\ \A x : Leader(x)' = Leader(x) /\ Role(x)' = Role(x) /\ Targets(x)' = Targets(x)
      /\ Leading' = Leading /\ Calls' = Calls /\ \A x : LastLeads(x)' = LastLeads(x)
  BY SameRequests
<1>2. \A x : Group(x)' = Group(x)
  BY <1>1 DEF Group
<1>3. \A x, u : UpTo(x, u)' = UpTo(x, u) /\ FromPrev(x, u)' = FromPrev(x, u)
  BY <1>2 DEF UpTo, FromPrev, Accepted
<1> QED
  BY <1>1, <1>2, <1>3 DEF Single, Accepted

(* A leader's computation gets under way.                                  *)
LEMMA NegotiateKeeps == ASSUME IInv, Recorded, NEW l \in Calls, Negotiate(l) PROVE IInv'
<1>1. /\ l \in Sessions /\ Role(l) = "leader" /\ pc[l] = "sizes" /\ UNCHANGED <<request, stream>>
      /\ DOMAIN pc = Sessions /\ product \in [Sessions -> SUBSET Sessions]
  BY DEF Calls, Negotiate, IInv, Typed
<1>2. Targets(l) = Parties \ {Leader(l)}
  BY <1>1, TargetParties DEF IInv
<1>3. \A q \in Targets(l) : /\ stream[l][q].at = "accepted" /\ pc[stream[l][q].to] = "sizes"
                            /\ Leader(stream[l][q].to) = l[1] /\ Accepted(l, stream[l][q].to)
  BY DEF Negotiate, Attends
<1>4. \A u \in Group(l) : /\ u \in Sessions /\ pc[u] = "sizes" /\ Role(u) = "member" /\ u # l
                          /\ Leader(u) = l[1] /\ Accepted(l, u)
  <2> TAKE u \in Group(l)
  <2>1. PICK q \in Targets(l) : u = stream[l][q].to
    BY DEF Group
  <2>2. stream[l][q].at # "none" /\ q \in Parties
    BY <1>2, <1>3
  <2> QED
    BY <1>1, <1>3, <2>1, <2>2, SessionOfStream DEF IInv
<1>5. /\ DOMAIN pc' = Sessions
      /\ \A x \in {l} \union Group(l) : pc'[x] = "ring"
      /\ \A x \in Sessions \ ({l} \union Group(l)) : pc'[x] = pc[x]
  BY <1>1, <1>4 DEF Negotiate, Advance
<1>6. /\ product' \in [Sessions -> SUBSET Sessions] /\ product'[l] = {l}
      /\ \A x \in Sessions \ {l} : product'[x] = product[x]
  BY <1>1 DEF Negotiate
<1>7. /\ \A x : Leader(x)' = Leader(x) /\ Role(x)' = Role(x) /\ Targets(x)' = Targets(x)
      /\ Leading' = Leading /\ Calls' = Calls
      /\ \A x : Group(x)' = Group(x) /\ LastLeads(x)' = LastLeads(x)
      /\ \A x, u : UpTo(x, u)' = UpTo(x, u) /\ FromPrev(x, u)' = FromPrev(x, u)
      /\ Single'
  BY <1>1, SameStreams DEF IInv
<1>8. l \notin Begun /\ Begun' = Begun \union {l}
  <2>1. l \notin Begun
    BY <1>1 DEF IInv, Started, Before
  <2>2. l \in Leading
    BY <1>1 DEF Leading
  <2> QED
    BY <1>6, <1>7, <2>1, <2>2 DEF Begun, Leading, Calls
<1>9. Typed' /\ Checked' /\ Reached'
  BY <1>1, <1>4, <1>5, <1>6, <1>7 DEF IInv, Typed, Checked, Reached, Reaches
<1>10. ASSUME NEW x \in Begun
       PROVE  /\ \A s \in {x} \union Group(x) : /\ s \in Sessions /\ s \notin {l} \union Group(l)
                                                /\ pc'[s] = pc[s] /\ product'[s] = product[s]
              /\ Complete(x)' = Complete(x)
  <2>1. /\ x \in Sessions /\ x # l /\ x \notin Group(l) /\ Group(x) \subseteq Sessions
        /\ l \notin Group(x)
    BY <1>1, <1>4, <1>8, GroupFacts
  <2>2. \A u \in Group(x) : u \notin Group(l)
    BY <1>1, <1>4, <2>1, GroupsApart
  <2> QED
    BY <1>5, <1>6, <1>7, <2>1, <2>2 DEF Complete
<1>11. Started'
  <2> SUFFICES ASSUME NEW x \in Begun \union {l}
               PROVE  /\ pc'[x] \notin Before
                      /\ \A q \in Targets(x) : /\ stream[x][q].at = "accepted"
                                               /\ Leader(stream[x][q].to) = x[1]
    BY <1>1, <1>7, <1>8 DEF Started, Before
  <2>1. CASE x = l
    BY <1>3, <1>5, <2>1 DEF Before
  <2>2. CASE x \in Begun
    BY <1>10, <2>2 DEF IInv, Started, Before
  <2> QED
    BY <2>1, <2>2
<1>12. Joined'
  BY <1>5, <1>6, <1>7, <1>8 DEF IInv, Joined, Along
<1>13. Passed'
  BY <1>1, <1>4, <1>5, <1>6, SameRequests DEF IInv, Passed
<1>14. DeadParties' /\ (Doomed' <=> Doomed)
  <2>1. \A s \in Sessions : \/ pc'[s] = pc[s]
                            \/ pc[s] \notin Ended \union {"dead"} /\ pc'[s] # "dead"
    BY <1>1, <1>4, <1>5 DEF Ended
  <2> QED
    BY <2>1, DeathStays
<1>15. Failed'
  BY <1>5, <1>8, <1>10, <1>14 DEF IInv, Failed
<1>16. Together(l)' /\ \A x \in Begun : Together(x) => Together(x)'
  BY <1>5, <1>7, <1>10 DEF Together
<1>17. ASSUME NEW x \in Begun, Multiplied(x) PROVE Multiplied(x)'
  BY <1>7, <1>10, <1>17 DEF Multiplied
<1>18. Multiplied(l)'
  <2>1. \A u \in Group(l) : product'[u] = {}
    <3> SUFFICES ASSUME NEW u \in Group(l), product[u] # {} PROVE FALSE
      BY <1>4, <1>6
    <3>1. PICK x \in Begun : u = x \/ u \in Group(x)
      BY <1>4 DEF IInv, Joined
    <3> QED
      BY <1>10, <3>1
  <2> QED
    BY <1>6, <1>7, <2>1 DEF Multiplied
<1>19. Alone'
  BY <1>8, <1>14, <1>16, <1>17, <1>18 DEF IInv, Alone, Recorded
<1> QED
  BY <1>7, <1>9, <1>11, <1>12, <1>13, <1>14, <1>15, <1>19 DEF IInv

(* The place of a member in the chain that is made for the last party.     *)
LEMMA ChainOfLast ==
  ASSUME IInv, NEW l \in Begun, LastLeads(l), NEW u \in Group(l)
  PROVE  /\ u[1] \in 0..(N - 2)
         /\ u[1] = 0 => PrevOf(u) = None
         /\ u[1] # 0 => PrevOf(u) = u[1] - 1 /\ PrevOf(u) # None
<1>1. /\ Leader(u) = N - 1 /\ u[1] \in Parties \ {N - 1} /\ Parties = 0..(N - 1)
      /\ N \in Nat /\ N >= 2 /\ None \notin Parties
  BY GroupFacts, PartyFacts DEF LastLeads
<1>2. u[1] \in 0..(N - 2)
  BY <1>1
<1>3. MemberIds(u) = 0..(N - 2)
  BY <1>1 DEF MemberIds
<1>4. PrevOf(u) = LET earlier == {q \in 0..(N - 2) : q < u[1]}
                  IN  IF earlier = {} THEN None ELSE Max(earlier)
  BY <1>1, <1>2, <1>3 DEF PrevOf
<1>5. CASE u[1] = 0
  <2>1. {q \in 0..(N - 2) : q < u[1]} = {}
    BY <1>1, <1>5
  <2> QED
    BY <1>2, <1>4, <1>5, <2>1
<1>6. CASE u[1] # 0
  <2>1. u[1] - 1 \in {q \in 0..(N - 2) : q < u[1]} /\ u[1] - 1 \in Parties
    BY <1>1, <1>2, <1>6
  <2>2. \A q \in 0..(N - 2) : q < u[1] => u[1] - 1 >= q
    BY <1>1, <1>2
  <2>3. Max({q \in 0..(N - 2) : q < u[1]}) = u[1] - 1
    BY <1>1, <1>2, <2>1, <2>2 DEF Max
  <2> QED
    BY <1>1, <1>2, <1>4, <1>6, <2>1, <2>3
<1> QED
  BY <1>2, <1>5, <1>6

(* What a member multiplies is everything up to its own polynomial: the    *)
(* stream it reads is not one of an earlier computation.                   *)
LEMMA ProductGrows ==
  ASSUME IInv, ~ overlapped, ~ Doomed, NEW l \in Begun, LastLeads(l), product[l] = {l},
         NEW u \in Group(l), NEW s \in SourceOf(u), product[s] # {}
  PROVE  product[s] \union {u} = UpTo(l, u) /\ FromPrev(l, u)
<1>1. /\ s \in Sessions /\ s[1] = IF PrevOf(u) = None THEN Leader(u) ELSE PrevOf(u)
      /\ Accepted(s, u)
  BY DEF SourceOf
<1>2. /\ Leader(u) = N - 1 /\ l[1] = N - 1 /\ l \in Sessions /\ u \in Sessions /\ Accepted(l, u)
      /\ \A v \in Group(l) : v[1] \in Parties /\ v[1] # N - 1
  BY GroupFacts DEF LastLeads
<1>3. \A v \in Group(l) : v[1] = u[1] => v = u
  BY GroupFacts
<1>4. N \in Nat /\ N >= 2 /\ Parties = 0..(N - 1)
  BY PartyFacts
<1>5. /\ u[1] \in 0..(N - 2)
      /\ u[1] = 0 => PrevOf(u) = None
      /\ u[1] # 0 => PrevOf(u) = u[1] - 1 /\ PrevOf(u) # None
  BY ChainOfLast
<1>6. CASE u[1] = 0
  <2>1. s = l
    BY <1>1, <1>2, <1>5, <1>6 DEF IInv, Single
  <2>2. \A v \in Group(l) : v[1] <= u[1] <=> v = u
    BY <1>2, <1>3, <1>4, <1>6
  <2> QED
    BY <1>6, <2>1, <2>2 DEF UpTo, FromPrev
<1>7. CASE u[1] # 0
  <2>1. s[1] = u[1] - 1 /\ s[1] # N - 1 /\ u[1] \in Parties \ {N - 1}
    BY <1>1, <1>4, <1>5, <1>7
  <2>2. PICK m \in Begun : s = m \/ s \in Group(m)
    BY <1>1 DEF IInv, Joined
  <2>3. m = l
    <3> SUFFICES ASSUME m # l PROVE FALSE
      OBVIOUS
    <3>1. /\ ~ Overlap /\ Together(l) /\ Together(m) /\ Multiplied(m)
      BY DEF IInv, Alone
    <3>2. ~ Complete(l)
      <4>1. Cardinality({l}) = 1
        BY FS_Singleton
      <4> QED
        BY <1>4, <4>1 DEF Complete
    <3>3. pc[l] = "ring"
      BY <3>1, <3>2 DEF Together, IInv, Failed
    <3>4. pc[m] = "ok"
      BY <3>1, <3>3 DEF Overlap, Underway, IInv, Failed
    <3>5. product[m] # {m}
      <4>1. Complete(m)
        BY <3>1, <3>4 DEF Together
      <4>2. Cardinality({m}) = 1
        BY FS_Singleton
      <4> QED
        BY <1>4, <4>1, <4>2 DEF Complete
    <3>6. LastLeads(m) /\ \A v \in Group(m) : FromPrev(m, v)
      BY <3>1, <3>5 DEF Multiplied
    <3>7. m[1] = N - 1 /\ Leader(m) = N - 1 /\ s \in Group(m)
      BY <2>1, <2>2, <3>6 DEF LastLeads
    <3>8. PICK v \in Group(m) : v[1] = u[1] /\ v \in Sessions
      BY <2>1, <3>7, GroupFacts
    <3>9. stream[m][u[1] - 1].to = s
      BY <2>1, <3>7, GroupFacts
    <3>10. Accepted(s, v)
      BY <1>7, <3>6, <3>8, <3>9 DEF FromPrev
    <3>11. v = u
      BY <1>1, <3>8, <3>10 DEF Accepted
    <3> QED
      BY <1>2, <3>8, <3>11, GroupsApart
  <2>4. s \in Group(l) /\ product[s] = UpTo(l, s)
    BY <1>2, <2>1, <2>2, <2>3 DEF IInv, Alone, Multiplied
  <2>5. \A v \in Group(l) : v[1] <= u[1] <=> v[1] <= s[1] \/ v[1] = u[1]
    BY <1>2, <1>4, <1>5, <2>1
  <2>6. \A v \in Group(l) : v[1] <= u[1] <=> v[1] <= s[1] \/ v = u
    BY <1>3, <2>5
  <2>7. product[s] \union {u} = UpTo(l, u)
    BY <2>4, <2>6 DEF UpTo
  <2>8. stream[l][u[1] - 1].to = s
    BY <2>1, <2>4, GroupFacts
  <2> QED
    BY <1>1, <2>7, <2>8 DEF FromPrev
<1> QED
  BY <1>6, <1>7

(* A member multiplies.                                                    *)
LEMMA MultiplyKeeps == ASSUME IInv, Recorded, NEW u \in Calls, Multiply(u) PROVE IInv'
<1>1. /\ u \in Sessions /\ Role(u) = "member" /\ pc[u] = "ring" /\ UNCHANGED <<request, stream>>
      /\ ~ NoPrev(u) /\ ~ NoNext(u) /\ ~ ByWayOfLeader(u)
      /\ DOMAIN pc = Sessions /\ product \in [Sessions -> SUBSET Sessions]
      /\ pc' = [pc EXCEPT ![u] = "decrypt"]
  BY DEF Calls, Multiply, Goto, IInv, Typed
<1>2. PICK s \in SourceOf(u) : /\ product[s] # {}
                               /\ product' = [product EXCEPT ![u] = product[s] \union {u}]
  BY DEF Multiply
<1>3. s \in Sessions
  BY DEF SourceOf
<1>4. DOMAIN pc' = Sessions /\ pc'[u] = "decrypt" /\ \A x \in Sessions \ {u} : pc'[x] = pc[x]
  BY <1>1
<1>5. /\ product' \in [Sessions -> SUBSET Sessions] /\ product'[u] = product[s] \union {u}
      /\ \A x \in Sessions \ {u} : product'[x] = product[x]
  BY <1>1, <1>2, <1>3
<1>6. /\ \A x : Leader(x)' = Leader(x) /\ Role(x)' = Role(x) /\ Targets(x)' = Targets(x)
      /\ Leading' = Leading /\ Calls' = Calls
      /\ \A x : Group(x)' = Group(x) /\ LastLeads(x)' = LastLeads(x)
      /\ \A x, v : UpTo(x, v)' = UpTo(x, v) /\ FromPrev(x, v)' = FromPrev(x, v)
      /\ Single'
  BY <1>1, SameStreams DEF IInv
<1>7. Begun' = Begun /\ u \notin Begun
  BY <1>1, <1>5, <1>6 DEF Begun, Leading, Calls
<1>8. \A l \in Begun : l \in Sessions /\ Group(l) \subseteq Sessions
  BY GroupFacts
<1>9. Typed' /\ Checked' /\ Reached'
  BY <1>1, <1>4, <1>5, <1>6 DEF IInv, Typed, Checked, Reached, Reaches
<1>10. Started'
  BY <1>1, <1>4, <1>6, <1>7, <1>8 DEF IInv, Started, Before
<1>11. Joined'
  BY <1>1, <1>4, <1>5, <1>6, <1>7 DEF IInv, Joined, Along
<1>12. Passed'
  BY <1>1, <1>4, <1>5, SameRequests DEF IInv, Passed
<1>13. DeadParties' /\ (Doomed' <=> Doomed)
  BY <1>1, <1>4, DeathStays DEF Ended
<1>14. Failed'
  BY <1>4, <1>7, <1>8, <1>13 DEF IInv, Failed
<1>15. ASSUME NEW l \in Begun, Together(l) PROVE Together(l)'
  <2>1. Complete(l)' = Complete(l) /\ product'[l] = product[l]
    BY <1>5, <1>6, <1>7, <1>8 DEF Complete
  <2> QED
    BY <1>4, <1>6, <1>8, <1>15, <2>1 DEF Together
<1>16. ASSUME NEW l \in Begun, Multiplied(l), ~ overlapped, ~ Doomed PROVE Multiplied(l)'
  <2>1. l \in Sessions /\ l # u /\ product'[l] = product[l] /\ pc'[l] = pc[l]
    BY <1>4, <1>5, <1>7, <1>8
  <2>2. CASE u \in Group(l)
    <3>1. product[l] = {l}
      BY <1>1, <1>16, <2>2 DEF Multiplied
    <3>2. LastLeads(l) => product'[u] = UpTo(l, u) /\ FromPrev(l, u)
      BY <1>2, <1>5, <1>16, <2>2, <3>1, ProductGrows
    <3> QED
      BY <1>5, <1>6, <1>8, <1>16, <2>1, <3>1, <3>2 DEF Multiplied
  <2>3. CASE u \notin Group(l)
    <3>1. \A v \in Group(l) : pc'[v] = pc[v] /\ product'[v] = product[v]
      BY <1>4, <1>5, <1>8, <2>3
    <3> QED
      BY <1>6, <1>16, <2>1, <3>1 DEF Multiplied
  <2> QED
    BY <2>2, <2>3
<1>17. Alone'
  BY <1>7, <1>13, <1>15, <1>16 DEF IInv, Alone, Recorded
<1> QED
  BY <1>6, <1>9, <1>10, <1>11, <1>12, <1>13, <1>14, <1>17 DEF IInv

(* Members that found their neighbours were called by the last party, in a *)
(* request of its own name.                                                *)
LEMMA LastOrNobody ==
  ASSUME IInv, NEW l \in Begun, \A u \in Group(l) : pc[u] = "decrypt"
  PROVE  LastLeads(l)
<1>1. N \in Nat /\ N >= 2 /\ Parties = 0..(N - 1) /\ None \notin Parties /\ l[1] \in Parties
  BY GroupFacts, PartyFacts
<1>2. \A u \in Group(l) : /\ Leader(u) = l[1] /\ u[1] \in Parties
                          /\ ~ NoPrev(u) /\ ~ NoNext(u) /\ ~ ByWayOfLeader(u)
  BY GroupFacts DEF IInv, Passed
<1>3. Leader(l) \in Parties /\ \A q \in Parties \ {Leader(l)} : \E u \in Group(l) : u[1] = q
  BY GroupFacts
<1>4. \A u \in Group(l) : u[1] = l[1] => u[1] = 0
  BY <1>2 DEF NoPrev, PrevOf
<1>5. Leader(l) = N - 1
  <2> SUFFICES ASSUME Leader(l) # N - 1 PROVE FALSE
    OBVIOUS
  <2>1. PICK u \in Group(l) : u[1] = N - 1
    BY <1>1, <1>3
  <2>2. u[1] # Leader(u)
    BY <1>1, <1>2, <1>4, <2>1
  <2>3. {q \in MemberIds(u) : q > u[1]} = {}
    BY <1>1, <2>1 DEF MemberIds
  <2>4. NextOf(u) = None
    BY <2>2, <2>3 DEF NextOf
  <2> QED
    BY <1>1, <1>2, <2>1, <2>4 DEF NoNext
<1>6. l[1] = N - 1
  <2> SUFFICES ASSUME l[1] # N - 1 PROVE FALSE
    OBVIOUS
  <2>1. l[1] = 0
    BY <1>3, <1>4, <1>5, <1>1
  <2>2. PICK v \in Group(l) : v[1] = N - 2
    BY <1>1, <1>3, <1>5
  <2>3. MemberIds(v) = 1..(N - 1)
    BY <1>1, <1>2, <2>1 DEF MemberIds
  <2>4. (IF v[1] = Leader(v) THEN MemberIds(v) ELSE {q \in MemberIds(v) : q > v[1]}) = {N - 1}
    <3>1. CASE v[1] = Leader(v)
      BY <1>1, <1>2, <2>1, <2>2, <2>3, <3>1
    <3>2. CASE v[1] # Leader(v)
      BY <1>1, <2>2, <2>3, <3>2
    <3> QED
      BY <3>1, <3>2
  <2>5. Min({N - 1}) = N - 1
    BY <1>1 DEF Min
  <2>6. NextOf(v) = N - 1
    BY <2>4, <2>5 DEF NextOf
  <2> QED
    BY <1>1, <1>2, <2>2, <2>6 DEF ByWayOfLeader
<1> QED
  BY <1>5, <1>6 DEF LastLeads

(* The member at the end of a leader's chain.                              *)
LEMMA EndOfChain ==
  ASSUME IInv, NEW l \in Begun
  PROVE  LET w == stream[l][Max(Targets(l))].to
         IN  w \in Group(l) /\ (Leader(l) = N - 1 => w[1] = N - 2)
<1>1. N \in Nat /\ N >= 2 /\ Parties = 0..(N - 1)
  BY PartyFacts
<1>2. Targets(l) = Parties \ {Leader(l)} /\ Leader(l) \in Parties
  BY GroupFacts, TargetParties DEF IInv
<1>3. CASE Leader(l) = N - 1
  <2>1. N - 2 \in Targets(l) /\ \A q \in Targets(l) : q \in Int /\ N - 2 >= q
    BY <1>1, <1>2, <1>3
  <2>2. Max(Targets(l)) = N - 2
    BY <1>1, <2>1 DEF Max
  <2> QED
    BY <1>2, <2>1, <2>2, GroupFacts
<1>4. CASE Leader(l) # N - 1
  <2>1. N - 1 \in Targets(l) /\ \A q \in Targets(l) : q \in Int /\ N - 1 >= q
    BY <1>1, <1>2, <1>4
  <2>2. Max(Targets(l)) = N - 1
    BY <1>1, <2>1 DEF Max
  <2> QED
    BY <1>2, <1>4, <2>1, <2>2, GroupFacts
<1> QED
  BY <1>3, <1>4

(* A leader and its group are one session of every party.                  *)
LEMMA OneOfEach ==
  ASSUME IInv, NEW l \in Begun, LastLeads(l)
  PROVE  LET S == {l} \union Group(l) IN {s[1] : s \in S} = Parties /\ Cardinality(S) = N
<1> DEFINE S == {l} \union Group(l)
           of == [q \in Parties |-> IF q = N - 1 THEN l ELSE stream[l][q].to]
<1>1. N \in Nat /\ N >= 2 /\ Parties = 0..(N - 1) /\ l[1] = N - 1 /\ Leader(l) = N - 1
  BY PartyFacts DEF LastLeads
<1>2. /\ \A u \in Group(l) : u[1] \in Parties \ {N - 1} /\ u = stream[l][u[1]].to
      /\ \A q \in Parties \ {N - 1} : stream[l][q].to \in Group(l) /\ stream[l][q].to[1] = q
  BY <1>1, GroupFacts
<1>3. of \in [Parties -> S] /\ \A q \in Parties : of[q] \in S /\ of[q][1] = q
  BY <1>1, <1>2
<1>4. \A s \in S : s[1] \in Parties /\ of[s[1]] = s
  BY <1>1, <1>2
<1> HIDE DEF S, of
<1>5. {s[1] : s \in S} = Parties
  BY <1>3, <1>4
<1>6. of \in Bijection(Parties, S)
  BY <1>3, <1>4 DEF Bijection, Injection, Surjection, IsInjective
<1>7. IsFiniteSet(Parties) /\ Cardinality(Parties) = N
  BY <1>1, FS_Interval
<1>8. Cardinality(S) = N
  BY <1>6, <1>7, FS_Bijection DEF ExistsBijection
<1> QED
  BY <1>5, <1>8 DEF S

(* A leader receives the product.                                          *)
LEMMA CollectKeeps == ASSUME IInv, Recorded, NEW l \in Calls, Collect(l) PROVE IInv'
<1> DEFINE w == stream[l][Max(Targets(l))].to
<1>1. /\ l \in Sessions /\ Role(l) = "leader" /\ pc[l] = "ring" /\ UNCHANGED <<request, stream>>
      /\ DOMAIN pc = Sessions /\ product \in [Sessions -> SUBSET Sessions]
      /\ \A u \in Group(l) : pc[u] = "decrypt"
      /\ product' = [product EXCEPT ![l] = product[w]]
  BY DEF Calls, Collect, IInv, Typed
<1>2. /\ l \in Begun
      /\ \A u \in Group(l) : /\ u \in Sessions /\ u # l /\ Role(u) = "member"
                             /\ Leader(u) = l[1] /\ Accepted(l, u)
  <2>1. PICK x \in Begun : l = x \/ l \in Group(x)
    BY <1>1 DEF IInv, Joined, Along
  <2>2. l \in Begun
    BY <1>1, <2>1, GroupFacts
  <2> QED
    BY <2>2, GroupFacts
<1>3. w \in Group(l) /\ product[w] # {} /\ product[w] \subseteq Sessions
  BY <1>1, <1>2, EndOfChain DEF IInv, Passed
<1> HIDE DEF w
<1>4. /\ DOMAIN pc' = Sessions
      /\ \A x \in {l} \union Group(l) : pc'[x] = "closing"
      /\ \A x \in Sessions \ ({l} \union Group(l)) : pc'[x] = pc[x]
  BY <1>1, <1>2 DEF Collect, Advance
<1>5. /\ product' \in [Sessions -> SUBSET Sessions] /\ product'[l] = product[w]
      /\ \A x \in Sessions \ {l} : product'[x] = product[x]
  BY <1>1, <1>3
<1>6. /\ \A x : Leader(x)' = Leader(x) /\ Role(x)' = Role(x) /\ Targets(x)' = Targets(x)
      /\ Leading' = Leading /\ Calls' = Calls
      /\ \A x : Group(x)' = Group(x) /\ LastLeads(x)' = LastLeads(x)
      /\ \A x, v : UpTo(x, v)' = UpTo(x, v) /\ FromPrev(x, v)' = FromPrev(x, v)
      /\ Single'
  BY <1>1, SameStreams DEF IInv
<1>7. Begun' = Begun /\ \A x \in Begun : x \in Sessions
  <2>1. \A x \in Begun : x \in Sessions
    BY GroupFacts
  <2> QED
    BY <1>2, <1>3, <1>5, <1>6, <2>1 DEF Begun, Leading, Calls
<1>8. Typed' /\ Checked' /\ Reached'
  BY <1>1, <1>2, <1>4, <1>5, <1>6 DEF IInv, Typed, Checked, Reached, Reaches
<1>9. Started'
  BY <1>1, <1>4, <1>6, <1>7 DEF IInv, Started, Before
<1>10. Joined'
  BY <1>2, <1>4, <1>5, <1>6, <1>7 DEF IInv, Joined, Along
<1>11. Passed'
  BY <1>1, <1>2, <1>4, <1>5, SameRequests DEF IInv, Passed
<1>12. DeadParties' /\ (Doomed' <=> Doomed)
  <2>1. \A s \in Sessions : \/ pc'[s] = pc[s]
                            \/ pc[s] \notin Ended \union {"dead"} /\ pc'[s] # "dead"
    BY <1>1, <1>2, <1>4 DEF Ended
  <2> QED
    BY <2>1, DeathStays
<1>13. Failed'
  BY <1>4, <1>7, <1>12 DEF IInv, Failed
<1>14. LastLeads(l)
  BY <1>1, <1>2, LastOrNobody
<1>15. ~ Doomed
  <2> SUFFICES ASSUME NEW t \in Sessions, pc[t] = "dead" PROVE FALSE
    BY DEF Doomed
  <2>1. t[1] \in {s[1] : s \in {l} \union Group(l)}
    BY <1>2, <1>14, OneOfEach, PartyFacts
  <2>2. PICK s \in {l} \union Group(l) : s[1] = t[1]
    BY <2>1
  <2>3. s \in Sessions /\ pc[s] \in {"ring", "decrypt"}
    BY <1>1, <1>2
  <2> QED
    BY <2>2, <2>3 DEF IInv, DeadParties, Ended
<1>16. ASSUME Multiplied(l) PROVE Multiplied(l)' /\ Together(l)'
  <2>1. \A u \in Group(l) : product[u] # {} /\ product'[u] = product[u] /\ pc'[u] = "closing"
    BY <1>1, <1>2, <1>4, <1>5 DEF IInv, Passed
  <2>2. Multiplied(l)'
    BY <1>4, <1>6, <1>14, <1>16, <2>1 DEF Multiplied
  <2>3. product'[l] = {l} \union Group(l)
    <3>1. product[w] = UpTo(l, w)
      BY <1>3, <1>14, <1>16 DEF Multiplied
    <3>2. w[1] = N - 2 /\ N \in Nat
      BY <1>2, <1>14, EndOfChain, PartyFacts DEF LastLeads, w
    <3>3. \A v \in Group(l) : v[1] \in 0..(N - 1) /\ v[1] # N - 1
      BY <1>2, <1>14, GroupFacts, PartyFacts DEF LastLeads
    <3>4. \A v \in Group(l) : v[1] <= w[1]
      BY <3>2, <3>3
    <3> QED
      BY <1>5, <3>1, <3>4 DEF UpTo
  <2>4. {s[1] : s \in product'[l]} = Parties /\ Cardinality(product'[l]) = N
    BY <1>2, <1>14, <2>3, OneOfEach
  <2>5. \A s \in product'[l] : Leader(s) = l[1] /\ (Role(s) = "leader" <=> s = l)
    BY <1>1, <1>2, <1>14, <2>3 DEF LastLeads
  <2>6. Complete(l)'
    BY <1>2, <1>6, <2>4, <2>5 DEF Complete, Begun
  <2>7. Together(l)'
    BY <1>6, <2>3, <2>6 DEF Together
  <2> QED
    BY <2>2, <2>7
<1>17. ASSUME NEW x \in Begun, x # l
       PROVE  (Together(x) => Together(x)') /\ (Multiplied(x) => Multiplied(x)')
  <2>1. /\ x \in Sessions /\ x \notin Group(l) /\ Group(x) \subseteq Sessions
        /\ l \notin Group(x)
    BY <1>1, <1>2, <1>17, GroupFacts
  <2>2. \A u \in Group(x) : u \notin Group(l)
    BY <1>1, <1>2, <1>17, <2>1, GroupsApart
  <2>3. \A s \in {x} \union Group(x) : pc'[s] = pc[s] /\ product'[s] = product[s]
    BY <1>4, <1>5, <1>17, <2>1, <2>2
  <2>4. Complete(x)' = Complete(x)
    BY <1>6, <2>3 DEF Complete
  <2> QED
    BY <1>6, <2>3, <2>4 DEF Together, Multiplied
<1>18. Alone'
  BY <1>7, <1>15, <1>16, <1>17, <1>2 DEF IInv, Alone, Recorded
<1> QED
  BY <1>6, <1>8, <1>9, <1>10, <1>11, <1>12, <1>13, <1>18 DEF IInv

(* Every step.                                                             *)
LEMMA NextKeeps == ASSUME IInv, [Next]_vars PROVE IInv'
<1>1. CASE UNCHANGED vars
  <2>1. UNCHANGED <<request, pc, stream, product, overlapped>>
    BY <1>1 DEF vars
  <2>2. /\ Typed' /\ Checked' /\ Reached' /\ Single' /\ DeadParties' /\ (Doomed' <=> Doomed)
        /\ Begun' = Begun
    BY <2>1, SameStreams DEF IInv, Typed, Checked, Reached, Reaches, DeadParties, Doomed, Begun
  <2>3. Underway' = Underway
    BY <2>1, <2>2 DEF Underway
  <2>4. Recorded
    BY <2>1, <2>3 DEF IInv, Alone, Recorded, Overlap
  <2>5. \A l \in Begun : pc'[l] \in {"ring", "closing", "ok"} \/ Doomed'
    BY <2>1, <2>2 DEF IInv, Failed
  <2> QED
    BY <2>1, <2>2, <2>4, <2>5, Frame
<1>2. CASE Next
  <2>1. PICK s \in Calls : (Submit(s) \/ SessionStep(s)) /\ Record
    BY <1>2 DEF Next
  <2>2. s \in Sessions /\ Recorded
    BY <2>1, RecordIsEnough DEF Calls
  <2>3. CASE Submit(s)
    BY <2>2, <2>3, SubmitKeeps
  <2>4. CASE Connect(s)
    BY <2>2, <2>4, ConnectKeeps
  <2>5. CASE Unreachable(s) \/ Throw(s) \/ NullChannel(s) \/ Close(s)
    <3>1. UNCHANGED <<request, stream, product>> /\ s[1] \in Parties /\ s = <<s[1], s[2]>>
      BY <2>2, <2>5, PartyFacts DEF Unreachable, Throw, NullChannel, Close
    <3>2. CASE Unreachable(s)
      <4>1. /\ pc' = [pc EXCEPT ![s] = Thrown(s)]
            /\ pc[s] \in Before /\ pc[s] \notin Ended \union {"dead"}
        BY <3>2 DEF Unreachable, Ready, Before, Ended
      <4>2. s \notin Begun
        BY <4>1 DEF IInv, Started
      <4> QED
        BY <2>2, <3>1, <4>1, <4>2, EndKeeps
    <3>3. CASE Throw(s)
      <4>1. /\ pc[s] \notin Ended \union {"dead"} /\ DeadEnd(s)
            /\ pc' = [pc EXCEPT ![s] = Thrown(s)] \/ Kill(s[1])
        BY <3>3 DEF Throw, Ended
      <4>2. s \in Begun => Doomed
        BY <4>1, LeaderIsKept
      <4> QED
        BY <2>2, <3>1, <4>1, <4>2, EndKeeps
    <3>4. CASE NullChannel(s) \/ Close(s)
      BY <2>2, <3>1, <3>4, EndKeeps DEF NullChannel
    <3> QED
      BY <2>5, <3>2, <3>3, <3>4
  <2>6. ASSUME NEW q \in Parties, Accept(s, q) \/ Refuse(s, q) PROVE IInv'
    <3>1. PICK x \in {"accepted", "refused"} :
             /\ stream' = [stream EXCEPT ![s][q].at = x]
             /\ x = "accepted" => \A r \in Sessions : r[1] = s[1] => ~ Accepted(r, stream[s][q].to)
      BY <2>6 DEF Accept, Refuse, Free
    <3>2. stream[s][q].at = "sent" /\ UNCHANGED <<request, pc, product>>
      BY <2>6 DEF Accept, Refuse
    <3> QED
      BY <2>2, <3>1, <3>2, StreamKeeps
  <2>7. CASE Negotiate(s)
    BY <2>2, <2>7, NegotiateKeeps
  <2>8. CASE Multiply(s)
    BY <2>2, <2>8, MultiplyKeeps
  <2>9. CASE Collect(s)
    BY <2>2, <2>9, CollectKeeps
  <2> QED
    BY <2>1, <2>3, <2>4, <2>5, <2>6, <2>7, <2>8, <2>9 DEF SessionStep
<1> QED
  BY <1>1, <1>2

-----------------------------------------------------------------------------
(* In every order of calls, of streams and of failures, whoever is in the  *)
(* ring or beyond belongs to a computation that has begun, and as long as  *)
(* two have never been under way at once and no process has died, products *)
(* grow by one member of the same computation after the other, whatever    *)
(* earlier computations have left.                                         *)
THEOREM PsiRequestInvariant == Spec => []IInv
<1>1. Init => IInv
  BY InitHolds
<1>2. IInv /\ [Next]_vars => IInv'
  BY NextKeeps
<1> QED
  BY <1>1, <1>2, PTL DEF Spec

(* What a session that is answered STATUS_OK belongs to is complete.       *)
LEMMA InvariantIsEnough == IInv => OkOnlyTogether
<1> SUFFICES ASSUME IInv, NEW s \in Sessions, pc[s] = "ok", ~ overlapped
             PROVE  \E l \in Begun : s \in product[l] /\ Complete(l)
  BY DEF OkOnlyTogether
<1>1. PICK l \in Begun : s = l \/ s \in Group(l)
  BY DEF IInv, Joined, Along
<1> QED
  BY <1>1 DEF IInv, Alone, Together

(* A call is answered STATUS_OK only as part of a computation in which     *)
(* every party takes part exactly once and all agree on the leader, unless *)
(* two computations have been under way at the same time.                  *)
THEOREM OkOnlyAsOne == Spec => []OkOnlyTogether
BY PsiRequestInvariant, InvariantIsEnough, PTL

-----------------------------------------------------------------------------
(* The cluster manager of the web server.                                  *)
Starting == {"spawnDealer", "awaitDealer", "spawnParties", "awaitParties"}

(* Who holds the lock is inside start() or stop().                         *)
LockInv == /\ stage = "none" <=> lock = NoRequest
           /\ stage \in Starting => at[lock] = "start"
           /\ stage = "signalled" => at[lock] \in DOMAIN AfterStop

(* Only demos and starts get as far as start().                            *)
KindInv == \A r \in Threads :
             /\ at[r] \in {"status", "clear", "run", "teardown", "reuse"} => Kind[r] = "demo"
             /\ at[r] = "start" => Kind[r] \in {"demo", "start"}

(* When start() spawns a dealer nothing runs: the handle it overwrites is  *)
(* that of a process that has ended.                                       *)
FreshInv == stage = "spawnDealer" => alive \subseteq survivors

(* Why a process still runs: its request is starting it, is using it, has  *)
(* left it to the user, or lost it to an exception out of Popen; or it has *)
(* outlived a SIGKILL.                                                     *)
OwnerInv == \A p \in alive \ survivors :
                             \/ lock = p.by /\ at[p.by] = "start"
                             \/ at[p.by] \in {"run", "teardown"}
                             \/ Kind[p.by] = "start" /\ at[p.by] = "done"
                             \/ p.by \in broken

ClusterInv == TypeOK /\ LockInv /\ KindInv /\ FreshInv /\ NoStrayProcess /\ OwnerInv

-----------------------------------------------------------------------------
(* The first state satisfies the invariant.                                *)
LEMMA ClusterInitHolds == ClusterInit => ClusterInv
  BY ClusterAssumption
  DEF ClusterInit, ClusterInv, TypeOK, LockInv, KindInv, FreshInv, NoStrayProcess, OwnerInv,
      Starting

(* The steps that neither take the lock nor touch a process.               *)
LEMMA ThreadPreserves ==
  ASSUME NEW r \in Threads, ClusterInv, Arrive(r) \/ Status(r) \/ Run(r) \/ StartRefused(r)
  PROVE  ClusterInv'
<1> USE ClusterAssumption DEF ClusterInv
<1>1. UNCHANGED <<lock, stage, next, globals, processVars, broken>>
  BY DEF Arrive, Status, Run, StartRefused
<1>2. /\ at' \in [Threads -> {"idle", "status", "clear", "start", "run", "reuse",
                              "teardown", "stop", "exit", "done", "failed"}]
      /\ \A q \in Threads \ {r} : at'[q] = at[q]
  BY DEF Arrive, Status, Run, StartRefused, Move, First, TypeOK
<1>3. TypeOK' /\ FreshInv' /\ NoStrayProcess'
  BY <1>1, <1>2 DEF TypeOK, FreshInv, NoStrayProcess, globals, processVars
<1>4. KindInv'
  BY <1>2 DEF Arrive, Status, Run, StartRefused, Move, First, TypeOK, KindInv
<1>5. at[r] \in {"idle", "status", "run", "reuse", "start"} /\ (at[r] = "start" => lock = NoRequest)
  BY DEF Arrive, Status, Run, StartRefused, Move
<1>6. lock # r
  BY <1>5 DEF LockInv, Starting, TypeOK, AfterStop
<1>7. LockInv'
  BY <1>1, <1>2, <1>6 DEF LockInv, Starting, TypeOK, globals, processVars
<1>8. OwnerInv'
  <2> SUFFICES ASSUME NEW p \in alive \ survivors, p.by = r, p.by \notin broken
               PROVE  at'[r] \in {"run", "teardown"}
    BY <1>1, <1>2 DEF OwnerInv, processVars, TypeOK, Procs
  <2>1. at[r] \in {"run", "teardown"}
    BY <1>5, <1>6 DEF OwnerInv
  <2> QED
    BY <2>1, <1>2 DEF Arrive, Status, Run, StartRefused, Move, TypeOK
<1> QED
  BY <1>3, <1>4, <1>7, <1>8

(* stop() takes the lock, and ends the processes that there are.           *)
LEMMA StopPreserves ==
  ASSUME NEW r \in Threads, ClusterInv, Stop(r) \/ CleanupAtExit(r) \/ Reap(r)
  PROVE  ClusterInv'
<1> USE ClusterAssumption DEF ClusterInv
<1>1. CASE Stop(r) \/ (CleanupAtExit(r) /\ UNCHANGED at)
  <2>1. /\ at[r] \in {"clear", "stop", "teardown", "exit"}
        /\ lock' = r /\ stage' = "signalled" /\ lock = NoRequest
        /\ UNCHANGED <<at, next, globals, processVars, broken>>
    BY <1>1 DEF Stop, CleanupAtExit, Move, TypeOK
  <2> QED
    BY <2>1 DEF TypeOK, LockInv, KindInv, FreshInv, NoStrayProcess, OwnerInv, Starting,
                AfterStop, Procs, globals, processVars
<1>2. CASE CleanupAtExit(r) /\ ~ UNCHANGED at
  <2>1. /\ handles \intersect alive = {} /\ at[r] = "exit" /\ at' = [at EXCEPT ![r] = "done"]
        /\ UNCHANGED <<lock, stage, next, globals, processVars, broken>> /\ lock = NoRequest
    BY <1>2 DEF CleanupAtExit, Move
  <2>2. alive \subseteq survivors
    BY <2>1 DEF NoStrayProcess
  <2> QED
    BY <2>1, <2>2 DEF TypeOK, LockInv, KindInv, FreshInv, NoStrayProcess, OwnerInv, Starting,
                      AfterStop, globals, processVars
<1>3. CASE Reap(r)
  <2>1. /\ alive' \subseteq alive /\ survivors' \subseteq alive' /\ listening' \subseteq alive'
        /\ alive' \subseteq survivors' /\ handles' = {} /\ num_parties' = 0
    <3>1. PICK left \in SUBSET (handles \intersect alive \intersect Stubborn) :
            /\ alive' = alive \ (handles \ left)
            /\ listening' = listening \ (handles \ left)
            /\ survivors' = (survivors \ handles) \union left
      BY <1>3 DEF Reap
    <3>2. handles' = {} /\ num_parties' = 0
      BY <1>3 DEF Reap
    <3>3. alive \subseteq handles \union survivors /\ listening \subseteq alive
          /\ survivors \subseteq alive
      BY DEF NoStrayProcess, TypeOK
    <3>4. alive' \subseteq alive /\ listening' \subseteq alive' /\ alive' \subseteq survivors'
      BY <3>1, <3>3
    <3>5. survivors' \subseteq alive'
      BY <3>1, <3>3
    <3> QED
      BY <3>2, <3>4, <3>5
  <2>2. /\ at[r] \in DOMAIN AfterStop
        /\ at' = [at EXCEPT ![r] = AfterStop[at[r]]]
        /\ lock' = NoRequest /\ stage' = "none" /\ next' = next /\ broken' = broken
    BY <1>3 DEF Reap, Release, LockInv
  <2>3. /\ AfterStop[at[r]] \in {"start", "done", "failed"}
        /\ AfterStop[at[r]] = "start" => at[r] = "clear"
    BY <2>2 DEF AfterStop
  <2> QED
    BY <2>1, <2>2, <2>3 DEF TypeOK, LockInv, KindInv, FreshInv, NoStrayProcess, OwnerInv, Starting
<1> QED
  BY <1>1, <1>2, <1>3

(* start() before it has spawned anything.                                 *)
LEMMA BeginPreserves ==
  ASSUME NEW r \in Threads, ClusterInv, StartBegins(r)
  PROVE  ClusterInv'
<1> USE ClusterAssumption DEF ClusterInv, StartBegins
<1>1. alive \subseteq survivors /\ UNCHANGED <<alive, listening, survivors>>
  BY DEF Running, NoStrayProcess, processVars
<1>2. NumParties[r] \in Nat
  OBVIOUS
<1>3. stage' \in {"spawnParties", "spawnDealer"} /\ lock' = r /\ at' = at /\ at[r] = "start"
  OBVIOUS
<1> QED
  BY <1>1, <1>2, <1>3 DEF TypeOK, LockInv, KindInv, FreshInv, NoStrayProcess, OwnerInv, Starting

(* start() once it holds the lock.                                         *)
LEMMA StartPreserves ==
  ASSUME NEW r \in Threads, ClusterInv,
         \/ SpawnDealer(r) \/ DealerIsUp(r) \/ SpawnParty(r) \/ SpawnFails(r)
         \/ PartyIsUp(r) \/ TimeOut(r)
  PROVE  ClusterInv'
<1> USE ClusterAssumption DEF ClusterInv
<1>1. lock = r /\ at[r] = "start" /\ Kind[r] \in {"demo", "start"} /\ stage # "none"
  BY DEF SpawnDealer, DealerIsUp, SpawnParty, SpawnFails, PartyIsUp, TimeOut, Holds,
         LockInv, KindInv, Starting
<1>2. CASE SpawnDealer(r) \/ SpawnParty(r)
  <2> DEFINE role == IF SpawnDealer(r) THEN Dealer ELSE next
             p == Proc(role, r)
  <2>1. p \in Procs /\ p.by = r
    BY DEF Proc, Procs, TypeOK
  <2>2. /\ alive' = alive \union {p}
        /\ alive' \subseteq handles' \union survivors /\ handles' \subseteq handles \union {p}
        /\ UNCHANGED <<at, lock, num_parties, listening, survivors, broken>>
        /\ stage' \in Starting \ {"spawnDealer"} /\ next' \in Nat
    <3>1. CASE SpawnDealer(r)
      BY <3>1 DEF SpawnDealer, Holds, FreshInv, NoStrayProcess, Starting, TypeOK
    <3>2. CASE SpawnParty(r) /\ ~ SpawnDealer(r)
      BY <3>2 DEF SpawnParty, Holds, NoStrayProcess, Starting, TypeOK
    <3> QED
      BY <1>2, <3>1, <3>2
  <2> HIDE DEF p
  <2>3. TypeOK'
    BY <2>1, <2>2 DEF TypeOK, Starting
  <2>4. LockInv' /\ KindInv' /\ FreshInv' /\ NoStrayProcess'
    BY <1>1, <2>2 DEF LockInv, KindInv, FreshInv, NoStrayProcess, Starting, TypeOK
  <2>5. OwnerInv'
    BY <1>1, <2>1, <2>2 DEF OwnerInv
  <2> QED
    BY <2>3, <2>4, <2>5
<1>3. CASE DealerIsUp(r) \/ TimeOut(r)
  <2>1. /\ stage' \in {"spawnParties", "signalled"}
        /\ UNCHANGED <<at, lock, next, globals, processVars, broken>>
    BY <1>3 DEF DealerIsUp, TimeOut
  <2> QED
    BY <1>1, <2>1 DEF TypeOK, LockInv, KindInv, FreshInv, NoStrayProcess, OwnerInv, Starting,
                      AfterStop, globals, processVars
<1>4. CASE SpawnFails(r)
  BY <1>1, <1>4 DEF SpawnFails, Release, TypeOK, LockInv, KindInv, FreshInv, NoStrayProcess,
                    OwnerInv, Starting, Procs, globals, processVars
<1>5. CASE PartyIsUp(r)
  <2>1. UNCHANGED <<handles, num_parties, alive, listening, survivors, broken>> /\ next' \in Nat
    BY <1>5 DEF PartyIsUp, globals, processVars, TypeOK
  <2>2. CASE UNCHANGED <<at, lock, stage>>
    BY <2>1, <2>2 DEF TypeOK, LockInv, KindInv, FreshInv, NoStrayProcess, OwnerInv, Starting
  <2>3. CASE ~ UNCHANGED <<at, lock, stage>>
    <3>1. /\ at' = [at EXCEPT ![r] = IF Kind[r] = "demo" THEN "run" ELSE "done"]
          /\ lock' = NoRequest /\ stage' = "none"
      BY <1>5, <2>3 DEF PartyIsUp, Release
    <3>2. TypeOK' /\ LockInv' /\ KindInv' /\ FreshInv' /\ NoStrayProcess'
      BY <1>1, <2>1, <3>1 DEF TypeOK, LockInv, KindInv, FreshInv, NoStrayProcess, Starting
    <3>3. OwnerInv'
      BY <1>1, <2>1, <3>1 DEF OwnerInv, TypeOK, Procs
    <3> QED
      BY <3>2, <3>3
  <2> QED
    BY <2>2, <2>3
<1> QED
  BY <1>2, <1>3, <1>4, <1>5

(* A process that listens or ends escapes from nobody.                     *)
LEMMA ProcessPreserves ==
  ASSUME ClusterInv, NEW p \in alive, Listen(p) \/ End(p)
  PROVE  ClusterInv'
<1>1. /\ UNCHANGED <<at, lock, stage, next, globals, broken>>
      /\ alive' \subseteq alive /\ listening' \subseteq alive' /\ survivors' \subseteq alive'
      /\ survivors' = survivors \intersect alive'
  BY DEF Listen, End, ClusterInv, TypeOK
<1> QED
  BY <1>1 DEF ClusterInv, TypeOK, LockInv, KindInv, FreshInv, NoStrayProcess, OwnerInv, globals

-----------------------------------------------------------------------------
(* Every step preserves the invariant.                                     *)
LEMMA ClusterNextPreserves == ClusterInv /\ [ClusterNext]_clusterVars => ClusterInv'
<1> SUFFICES ASSUME ClusterInv, [ClusterNext]_clusterVars PROVE ClusterInv'
  OBVIOUS
<1>1. ASSUME NEW r \in Threads, Arrive(r) \/ Step(r) PROVE ClusterInv'
  BY <1>1, ThreadPreserves, StopPreserves, BeginPreserves, StartPreserves DEF Step
<1>2. ASSUME NEW p \in alive, Listen(p) \/ End(p) PROVE ClusterInv'
  BY <1>2, ProcessPreserves
<1>3. CASE UNCHANGED clusterVars
  BY <1>3 DEF clusterVars, globals, processVars, ClusterInv, TypeOK, LockInv, KindInv, FreshInv,
              NoStrayProcess, OwnerInv
<1> QED
  BY <1>1, <1>2, <1>3 DEF ClusterNext

(* It holds in every reachable state.                                      *)
LEMMA ClusterInvariant == ClusterSpec => []ClusterInv
  BY ClusterInitHolds, ClusterNextPreserves, PTL DEF ClusterSpec

(* The variables keep their types.                                         *)
THEOREM ClusterTypes == ClusterSpec => []TypeOK
<1>1. ClusterInv => TypeOK
  BY DEF ClusterInv
<1> QED
  BY <1>1, ClusterInvariant, PTL

(* Every process that runs can be stopped by the next stop(), but for one  *)
(* that an earlier stop() gave up on after its SIGKILL.                    *)
THEOREM NothingStrays == ClusterSpec => []NoStrayProcess
<1>1. ClusterInv => NoStrayProcess
  BY DEF ClusterInv
<1> QED
  BY <1>1, ClusterInvariant, PTL

(* A request that is over has left no process of its own behind, unless it *)
(* was told to, or an exception out of Popen or a failed SIGKILL kept it.  *)
THEOREM NothingIsLeftBehind == ClusterSpec => []LeavesNothingBehind
<1>1. ClusterInv => LeavesNothingBehind
  BY DEF ClusterInv, OwnerInv, LeavesNothingBehind, Over
<1> QED
  BY <1>1, ClusterInvariant, PTL
=============================================================================
