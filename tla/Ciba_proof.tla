------------------------------- MODULE Ciba_proof -------------------------------
(* Proofs about Ciba, for every value of its constants.                     *)
EXTENDS Ciba, TLAPS

USE NameAssumption, LimitAssumption

--------------------------------------------------------------------------------
(* Types, and what one step does to a slot.                                 *)

\* The blank rows and slots have their types.
LEMMA IdleType ==
  /\ NoRow \in Row /\ NoRow.status = "pending"
  /\ PollIdle \in Poll /\ PollIdle.pc = "idle"
  /\ ApprovalIdle \in Approval /\ ApprovalIdle.pc = "idle" /\ ApprovalIdle.tok = NoToken
<1>1. NoRow \in Row /\ NoRow.status = "pending"
  BY DEF NoRow, Row, Never
<1>2. PollIdle \in Poll /\ PollIdle.pc = "idle"
  BY <1>1 DEF PollIdle, Poll
<1>3. ApprovalIdle \in Approval /\ ApprovalIdle.pc = "idle" /\ ApprovalIdle.tok = NoToken
  BY DEF ApprovalIdle, Approval
<1> QED
  BY <1>1, <1>2, <1>3

\* What the lemmas below need of a poll's slot, and of a decision's.
LEMMA SlotType ==
  ASSUME TypeOK
  PROVE  /\ \A p \in Polls : /\ poll[p] \in Poll /\ poll[p].row \in Row
                             /\ poll[p].id \in Ids \cup {NoId}
         /\ \A k \in Approvals : approval[k] \in Approval /\ approval[k].id \in Ids \cup {NoId}
BY DEF TypeOK, Poll, Approval

\* A poll's step moves that poll alone.
LEMMA OnePoll ==
  ASSUME TypeOK, NEW p \in Polls, NEW q \in Poll, poll' = [poll EXCEPT ![p] = q]
  PROVE  /\ poll' \in [Polls -> Poll]
         /\ poll'[p] = q
         /\ \A r \in Polls : r # p => poll'[r] = poll[r]
BY DEF TypeOK

\* A decision's step moves that decision alone.
LEMMA OneApproval ==
  ASSUME TypeOK, NEW k \in Approvals, NEW q \in Approval,
         approval' = [approval EXCEPT ![k] = q]
  PROVE  /\ approval' \in [Approvals -> Approval]
         /\ approval'[k] = q
         /\ \A r \in Approvals : r # k => approval'[r] = approval[r]
BY DEF TypeOK

\* The poll that consumed its request keeps the id and the copy.
LEMMA ConsumedPoll ==
  ASSUME TypeOK, NEW p \in Polls, poll' = [poll EXCEPT ![p].pc = "issue"]
  PROVE  /\ poll' \in [Polls -> Poll]
         /\ poll'[p].pc = "issue" /\ poll'[p].id = poll[p].id /\ poll'[p].row = poll[p].row
         /\ \A r \in Polls : r # p => poll'[r] = poll[r]
<1> DEFINE q == [poll[p] EXCEPT !.pc = "issue"]
<1>1. poll' = [poll EXCEPT ![p] = q]
  BY DEF TypeOK
<1>2. q \in Poll /\ q.pc = "issue" /\ q.id = poll[p].id /\ q.row = poll[p].row
  BY SlotType DEF Poll
<1> QED
  BY <1>1, <1>2, OnePoll

\* A decision on its way to the client keeps the id, the mode and the status.
LEMMA AdvancedApproval ==
  ASSUME TypeOK, NEW k \in Approvals,
         NEW pc \in {"push_consume", "push_issue", "notify"},
         NEW retried \in BOOLEAN, NEW tok \in TokenIds \cup {NoToken},
         approval' = [approval EXCEPT ![k] = [approval[k] EXCEPT
                        !.pc = pc, !.retried = retried, !.tok = tok]]
  PROVE  /\ approval' \in [Approvals -> Approval]
         /\ approval'[k].pc = pc /\ approval'[k].tok = tok
         /\ approval'[k].id = approval[k].id /\ approval'[k].mode = approval[k].mode
         /\ approval'[k].status = approval[k].status
         /\ \A r \in Approvals : r # k => approval'[r] = approval[r]
<1> DEFINE q == [approval[k] EXCEPT !.pc = pc, !.retried = retried, !.tok = tok]
<1>1. /\ q \in Approval /\ q.pc = pc /\ q.tok = tok
      /\ q.id = approval[k].id /\ q.mode = approval[k].mode /\ q.status = approval[k].status
  BY SlotType DEF Approval
<1> QED
  BY <1>1, OneApproval

\* A poll that is put off changes neither the status nor the mode of its row.
LEMMA SlowRow ==
  ASSUME TypeOK, NEW row \in Row
  PROVE  /\ SlowDown(row) \in Row
         /\ SlowDown(row).status = row.status /\ SlowDown(row).mode = row.mode
<1>1. row.interval \in 0 .. MaxTime + 1 /\ now \in Nat
  BY DEF Row, TypeOK
<1>2. Capped(row.interval + 5) \in 0 .. MaxTime + 1
  BY <1>1 DEF Capped
<1> QED
  BY <1>1, <1>2 DEF SlowDown, Row

\* What follows a decision: nothing in poll mode, a push of tokens only for an
\* approved request in push mode.
LEMMA AnnounceNext ==
  ASSUME NEW q \in Approval
  PROVE  /\ Announce(q) \in Approval
         /\ \/ Announce(q) = ApprovalIdle
            \/ /\ Announce(q).pc \in {"push_consume", "notify"}
               /\ Announce(q).id = q.id /\ Announce(q).mode = q.mode
               /\ Announce(q).status = q.status /\ Announce(q).tok = q.tok
               /\ Announce(q).pc = "push_consume" => q.mode = "push" /\ q.status = "approved"
<1>1. q.mode \in {"poll", "ping", "push"} /\ q.status \in {"approved", "denied"}
  BY DEF Approval
<1>2. CASE q.mode = "poll"
  BY <1>2, IdleType DEF Announce
<1>3. CASE q.mode = "ping"
  <2>1. Announce(q) = [q EXCEPT !.pc = "notify"]
    BY <1>3 DEF Announce
  <2> QED
    BY <2>1 DEF Approval
<1>4. CASE q.mode = "push"
  <2>1. Announce(q) = [q EXCEPT !.pc = IF q.status = "approved" THEN "push_consume" ELSE "notify"]
    BY <1>4 DEF Announce
  <2> QED
    BY <1>4, <2>1 DEF Approval
<1> QED
  BY <1>1, <1>2, <1>3, <1>4

\* A race is noted for the request it is about; where none is noted, no other call
\* depended on a copy of the row.
LEMMA RaceNoted ==
  ASSUME NEW i, NEW c, Race(i, c)
  PROVE  /\ raced \subseteq raced' /\ raced' \subseteq raced \cup {i}
         /\ i \notin raced' =>
              /\ \A q \in Polls : q # c /\ poll[q].id = i => poll[q].pc \notin {"save", "consume"}
              /\ \A q \in Approvals : q # c /\ approval[q].id = i => approval[q].pc # "apply"
BY DEF Race

\* A mode is copied from the row to the calls and from a call to the row.
Follows(i) ==
  /\ i \in DOMAIN requests' =>
       \/ i \in DOMAIN requests /\ requests'[i].mode = requests[i].mode
       \/ \E p \in Polls : /\ poll[p].pc # "idle" /\ poll[p].id = i
                           /\ requests'[i].mode = poll[p].row.mode
  /\ \A p \in Polls : poll'[p].pc # "idle" /\ poll'[p].id = i =>
       \/ poll[p].pc # "idle" /\ poll[p].id = i /\ poll'[p].row.mode = poll[p].row.mode
       \/ i \in DOMAIN requests /\ poll'[p].row.mode = requests[i].mode
  /\ \A k \in Approvals : approval'[k].pc # "idle" /\ approval'[k].id = i =>
       \/ approval[k].pc # "idle" /\ approval[k].id = i /\ approval'[k].mode = approval[k].mode
       \/ i \in DOMAIN requests /\ approval'[k].mode = requests[i].mode

\* So it stays the same everywhere.
LEMMA ModeKept ==
  ASSUME NEW i, SameMode(i), Follows(i)
  PROVE  SameMode(i)'
<1>1. PICK m \in {"poll", "ping", "push"} : ModeIs(i, m)
  BY DEF SameMode
<1>2. ModeIs(i, m)'
  BY <1>1 DEF ModeIs, Follows
<1> QED
  BY <1>2 DEF SameMode
--------------------------------------------------------------------------------
(* Steps that only look: a load, the start of a decision, an abort, the clock. *)

\* What a step that writes neither the store nor the histories does to the calls:
\* a slot stays as it was, is emptied, or holds a copy of the row just loaded.
Looked ==
  /\ requests' = requests /\ accepted' = accepted /\ decided' = decided
  /\ notified' = notified /\ tokens' = tokens /\ delivered' = delivered /\ raced' = raced
  /\ poll' \in [Polls -> Poll] /\ approval' \in [Approvals -> Approval]
  /\ \A p \in Polls :
       \/ poll'[p] = poll[p]
       \/ poll'[p].pc = "idle"
       \/ /\ poll'[p].id \in DOMAIN requests
          /\ poll'[p].row = requests[poll'[p].id]
          /\ \/ poll'[p].pc = "delete"
             \/ poll'[p].pc = "save" /\ poll'[p].row.status = "pending" /\ poll'[p].row.mode # "push"
             \/ poll'[p].pc = "consume" /\ poll'[p].row.status = "approved" /\ poll'[p].row.mode # "push"
  /\ \A k \in Approvals :
       \/ approval'[k] = approval[k]
       \/ approval'[k].pc = "idle" /\ approval'[k].tok = NoToken
       \/ /\ approval'[k].id \in DOMAIN requests
          /\ approval'[k].mode = requests[approval'[k].id].mode
          /\ approval'[k].pc = "apply" /\ approval'[k].tok = NoToken
          /\ requests[approval'[k].id].status = "pending"

\* Such a step keeps the invariant.
LEMMA LookedKeeps ==
  ASSUME RequestInv, Looked, now' \in 0 .. MaxTime
  PROVE  RequestInv'
<1>1. TypeOK'
  BY DEF RequestInv, TypeOK, Looked
<1>2. CallInv'
  BY DEF RequestInv, TypeOK, CallInv, Looked
<1>3. ASSUME NEW i \in Ids PROVE SameMode(i)'
  <2>1. SameMode(i)
    BY DEF RequestInv
  <2>2. Follows(i)
    BY DEF Looked, Follows
  <2> QED
    BY <2>1, <2>2, ModeKept
<1>4. ASSUME NEW i \in accepted' \ raced'
      PROVE  Unraced(i)'
  <2>1. Unraced(i)
    BY DEF RequestInv, Looked
  <2>2. Issued(i)' = Issued(i)
    BY DEF Issued, Looked
  <2> QED
    BY <2>1, <2>2 DEF Unraced, Announcing, Looked
<1> QED
  BY <1>1, <1>2, <1>3, <1>4 DEF RequestInv

LEMMA LoadLooks ==
  ASSUME RequestInv, NEW p \in Polls, NEW i \in Ids,
         PollExpired(p, i) \/ PollApproved(p, i) \/ PollPending(p, i)
  PROVE  Looked /\ now' = now
<1>1. PICK pc \in {"delete", "consume", "save"} :
        /\ Load(p, i, pc)
        /\ pc = "consume" => requests[i].status = "approved" /\ requests[i].mode # "push"
        /\ pc = "save" => requests[i].status = "pending" /\ requests[i].mode # "push"
  BY DEF PollExpired, PollApproved, PollPending, Collectable
<1> DEFINE q == [pc |-> pc, id |-> i, row |-> requests[i]]
<1>2. requests[i] \in Row /\ i \in DOMAIN requests
  BY <1>1 DEF Load, RequestInv, TypeOK
<1>3. q \in Poll
  BY <1>2 DEF Poll
<1>4. /\ poll' \in [Polls -> Poll] /\ poll'[p] = q
      /\ \A r \in Polls : r # p => poll'[r] = poll[r]
  BY <1>1, <1>3, OnePoll DEF Load, RequestInv
<1>5. approval' = approval /\ approval \in [Approvals -> Approval]
  BY <1>1 DEF Load, RequestInv, TypeOK
<1> QED
  BY <1>1, <1>2, <1>4, <1>5 DEF Load, Looked

LEMMA DecideLooks ==
  ASSUME RequestInv, NEW k \in Approvals, NEW i \in Ids, NEW status \in {"approved", "denied"},
         Decide(k, i, status)
  PROVE  Looked /\ now' = now
<1> DEFINE q == [ApprovalIdle EXCEPT
                   !.pc = "apply", !.id = i, !.mode = requests[i].mode, !.status = status]
<1>1. requests[i] \in Row /\ i \in DOMAIN requests /\ requests[i].status = "pending"
  BY DEF Decide, RequestInv, TypeOK
<1>2. q \in Approval /\ q.pc = "apply" /\ q.id = i /\ q.mode = requests[i].mode /\ q.tok = NoToken
  BY <1>1 DEF Approval, ApprovalIdle, Row
<1>3. /\ approval' \in [Approvals -> Approval] /\ approval'[k] = q
      /\ \A r \in Approvals : r # k => approval'[r] = approval[r]
  BY <1>2, OneApproval DEF Decide, RequestInv
<1>4. poll' = poll /\ poll \in [Polls -> Poll]
  BY DEF Decide, RequestInv, TypeOK
<1> HIDE DEF q
<1> QED
  BY <1>1, <1>2, <1>3, <1>4 DEF Decide, Looked

LEMMA AbortLooks ==
  ASSUME RequestInv,
         (\E p \in Polls : AbortPoll(p)) \/ (\E k \in Approvals : AbortApproval(k)) \/ Tick
  PROVE  Looked /\ now' \in 0 .. MaxTime
<1>1. TypeOK
  BY DEF RequestInv
<1>2. ASSUME NEW p \in Polls, AbortPoll(p)
      PROVE  Looked /\ now' \in 0 .. MaxTime
  <2>1. /\ poll' \in [Polls -> Poll] /\ poll'[p].pc = "idle"
        /\ \A r \in Polls : r # p => poll'[r] = poll[r]
    BY <1>1, <1>2, IdleType, OnePoll DEF AbortPoll
  <2> QED
    BY <1>1, <1>2, <2>1 DEF AbortPoll, Looked, TypeOK
<1>3. ASSUME NEW k \in Approvals, AbortApproval(k)
      PROVE  Looked /\ now' \in 0 .. MaxTime
  <2>1. /\ approval' \in [Approvals -> Approval]
        /\ approval'[k].pc = "idle" /\ approval'[k].tok = NoToken
        /\ \A r \in Approvals : r # k => approval'[r] = approval[r]
    BY <1>1, <1>3, IdleType, OneApproval DEF AbortApproval
  <2> QED
    BY <1>1, <1>3, <2>1 DEF AbortApproval, Looked, TypeOK
<1>4. CASE Tick
  BY <1>1, <1>4 DEF Tick, Looked, TypeOK
<1> QED
  BY <1>2, <1>3, <1>4

--------------------------------------------------------------------------------
(* Steps that write.                                                        *)

\* An accepted request lives for a while.
LEMMA LifetimeType ==
  ASSUME NEW d \in Demands, Accepted(d)
  PROVE  Lifetime(Merged(d)) \in Nat
<1> DEFINE r == Merged(d).requested_expiry
<1>1. r \in Int
  BY DemandAssumption
<1>2. Ttl \in Nat /\ MinTtl \in Nat
  BY BackchannelAssumption
<1> HIDE DEF r
<1>3. ResolveTtl(r, Ttl, MinTtl) \in Nat
  BY <1>1, <1>2 DEF ResolveTtl
<1> QED
  BY <1>2, <1>3 DEF Lifetime, r

\* A new request is pending, and nobody has heard of its auth_req_id.
LEMMA AcceptKeeps ==
  ASSUME RequestInv, NEW i \in Ids, NEW d \in Demands, Accept(i, d)
  PROVE  RequestInv'
<1> DEFINE mode == Client[ClientId(d)].mode
           row == [NoRow EXCEPT !.mode = mode, !.expires = now + Lifetime(Merged(d)),
                                !.interval = Capped(Interval)]
<1>1. mode \in {"poll", "ping", "push"}
  BY BackchannelAssumption DEF Accept, Accepted, Authenticated, ActiveClient
<1>2. row \in Row /\ row.status = "pending" /\ row.mode = mode
  <2>1. now + Lifetime(Merged(d)) \in Nat
    BY LifetimeType DEF RequestInv, TypeOK, Accept
  <2>2. Capped(Interval) \in 0 .. MaxTime + 1
    BY DEF Capped
  <2> HIDE DEF mode
  <2> QED
    BY <1>1, <2>1, <2>2, IdleType DEF Row
<1>3. /\ DOMAIN requests' = DOMAIN requests \cup {i} /\ requests'[i] = row
      /\ \A j \in DOMAIN requests : j # i => requests'[j] = requests[j]
  <2>1. requests' = Put(requests, i, row)
    BY DEF Accept
  <2> HIDE DEF row
  <2> QED
    BY <2>1 DEF Put
<1> HIDE DEF row, mode
<1>4. TypeOK'
  BY <1>2, <1>3 DEF RequestInv, TypeOK, Accept
<1>5. i \notin DOMAIN requests /\ decided[i] = {} /\ notified[i] = 0
  BY DEF RequestInv, TypeOK, CallInv, Accept
<1>6. CallInv'
  BY <1>2, <1>3, <1>5 DEF RequestInv, TypeOK, CallInv, Accept
<1>7. /\ \A p \in Polls : poll[p].id = i => poll[p].pc = "idle"
      /\ \A k \in Approvals : approval[k].id = i => approval[k].pc = "idle" /\ approval[k].tok = NoToken
  BY DEF RequestInv, CallInv, Accept
<1>8. ASSUME NEW j \in Ids PROVE SameMode(j)'
  <2>1. CASE j = i
    <3>1. ModeIs(i, mode)'
      BY <1>2, <1>3, <1>7 DEF ModeIs, Accept
    <3> QED
      BY <1>1, <2>1, <3>1 DEF SameMode
  <2>2. CASE j # i
    <3>1. SameMode(j)
      BY DEF RequestInv
    <3>2. Follows(j)
      BY <1>3, <2>2 DEF Follows, Accept
    <3> QED
      BY <3>1, <3>2, ModeKept
  <2> QED
    BY <2>1, <2>2
<1>9. ASSUME NEW j \in accepted' \ raced'
      PROVE  Unraced(j)'
  <2>1. Issued(j)' = Issued(j)
    BY DEF Issued, Accept
  <2>2. CASE j = i
    <3>1. Issued(i) = {}
      BY DEF RequestInv, CallInv, Accept, Issued
    <3>2. /\ Issued(j)' = {} /\ j \in DOMAIN requests' /\ requests'[j].status = "pending"
          /\ decided'[j] = {} /\ notified'[j] = 0
      BY <1>2, <1>3, <1>5, <2>1, <2>2, <3>1 DEF Accept
    <3>3. /\ \A p \in Polls : poll'[p].id = j => poll'[p].pc = "idle"
          /\ \A k \in Approvals : approval'[k].id = j =>
               approval'[k].pc = "idle" /\ approval'[k].tok = NoToken
      BY <1>7, <2>2 DEF Accept
    <3> QED
      BY <3>2, <3>3 DEF Unraced, Announcing
  <2>3. CASE j # i
    <3>1. Unraced(j)
      BY <2>3 DEF RequestInv, Accept
    <3> QED
      BY <1>3, <2>1, <2>3, <3>1 DEF Unraced, Announcing, Accept
  <2> QED
    BY <2>2, <2>3
<1> QED
  BY <1>4, <1>6, <1>8, <1>9 DEF RequestInv

\* Removing a row leaves the others alone.
LEMMA RemovedRow ==
  ASSUME NEW i
  PROVE  /\ DOMAIN Remove(requests, i) = DOMAIN requests \ {i}
         /\ \A j \in DOMAIN requests : j # i => Remove(requests, i)[j] = requests[j]
BY DEF Remove

\* The deletion of an expired request: no call that went unnoticed held a copy.
LEMMA DeleteKeeps ==
  ASSUME RequestInv, NEW p \in Polls, PollDelete(p)
  PROVE  RequestInv'
<1>1. TypeOK
  BY DEF RequestInv
<1>2. PICK i \in accepted : i = poll[p].id
  BY DEF RequestInv, CallInv, PollDelete
<1>3. /\ DOMAIN requests' = DOMAIN requests \ {i}
      /\ \A j \in DOMAIN requests : j # i => requests'[j] = requests[j]
  BY <1>2, RemovedRow DEF PollDelete
<1>4. /\ poll' \in [Polls -> Poll] /\ poll'[p].pc = "idle"
      /\ \A r \in Polls : r # p => poll'[r] = poll[r]
  BY <1>1, IdleType, OnePoll DEF PollDelete
<1>5. /\ raced \subseteq raced' /\ raced' \subseteq raced \cup {i}
      /\ i \notin raced' =>
           /\ \A q \in Polls : q # p /\ poll[q].id = i => poll[q].pc \notin {"save", "consume"}
           /\ \A q \in Approvals : approval[q].id = i => approval[q].pc # "apply"
  BY <1>2, RaceNoted DEF PollDelete
<1>6. TypeOK'
  BY <1>1, <1>3, <1>4, <1>5 DEF TypeOK, PollDelete
<1>7. CallInv'
  BY <1>1, <1>3, <1>4 DEF RequestInv, CallInv, PollDelete
<1>8. ASSUME NEW j \in Ids PROVE SameMode(j)'
  <2>1. SameMode(j)
    BY DEF RequestInv
  <2>2. Follows(j)
    BY <1>3, <1>4 DEF Follows, PollDelete
  <2> QED
    BY <2>1, <2>2, ModeKept
<1>9. ASSUME NEW j \in accepted' \ raced'
      PROVE  Unraced(j)'
  <2>1. Unraced(j)
    BY <1>5 DEF RequestInv, PollDelete
  <2>2. Issued(j)' = Issued(j)
    BY DEF Issued, PollDelete
  <2>3. CASE j = i
    BY <1>3, <1>4, <1>5, <2>1, <2>2, <2>3 DEF Unraced, Announcing, PollDelete
  <2>4. CASE j # i
    BY <1>3, <1>4, <2>1, <2>2, <2>4 DEF Unraced, Announcing, PollDelete
  <2> QED
    BY <2>3, <2>4
<1> QED
  BY <1>6, <1>7, <1>8, <1>9 DEF RequestInv

\* A poll that is put off writes back the pending row it loaded, which is what the
\* store holds unless there was a race.
LEMMA SaveKeeps ==
  ASSUME RequestInv, NEW p \in Polls, PollSave(p)
  PROVE  RequestInv'
<1>1. TypeOK /\ poll[p].row \in Row
  BY SlotType DEF RequestInv
<1>2. PICK i \in accepted : i = poll[p].id
  BY DEF RequestInv, CallInv, PollSave
<1>3. PICK row \in Row : /\ row = SlowDown(poll[p].row) /\ row.status = "pending"
                         /\ row.mode = poll[p].row.mode
  BY <1>1, SlowRow DEF RequestInv, CallInv, PollSave
<1>4. /\ DOMAIN requests' = DOMAIN requests \cup {i} /\ requests'[i] = row
      /\ \A j \in DOMAIN requests : j # i => requests'[j] = requests[j]
  <2>1. requests' = Put(requests, i, row)
    BY <1>2, <1>3 DEF PollSave
  <2> QED
    BY <2>1 DEF Put
<1>5. /\ poll' \in [Polls -> Poll] /\ poll'[p].pc = "idle"
      /\ \A r \in Polls : r # p => poll'[r] = poll[r]
  BY <1>1, IdleType, OnePoll DEF PollSave
<1>6. TypeOK'
  BY <1>1, <1>4, <1>5 DEF TypeOK, PollSave
<1>7. CallInv'
  BY <1>1, <1>3, <1>4, <1>5 DEF RequestInv, CallInv, PollSave
<1>8. ASSUME NEW j \in Ids PROVE SameMode(j)'
  <2>1. SameMode(j)
    BY DEF RequestInv
  <2>2. Follows(j)
    BY <1>2, <1>3, <1>4, <1>5 DEF Follows, PollSave
  <2> QED
    BY <2>1, <2>2, ModeKept
<1>9. ASSUME NEW j \in accepted' \ raced'
      PROVE  Unraced(j)'
  <2>1. Unraced(j)
    BY DEF RequestInv, PollSave
  <2>2. Issued(j)' = Issued(j)
    BY DEF Issued, PollSave
  <2>3. CASE j = i
    <3>1. i \in DOMAIN requests /\ requests[i].status = "pending"
      BY <1>2, <2>1, <2>3 DEF Unraced, PollSave
    <3> QED
      BY <1>3, <1>4, <1>5, <2>1, <2>2, <2>3, <3>1 DEF Unraced, Announcing, PollSave
  <2>4. CASE j # i
    BY <1>4, <1>5, <2>1, <2>2, <2>4 DEF Unraced, Announcing, PollSave
  <2> QED
    BY <2>3, <2>4
<1> QED
  BY <1>6, <1>7, <1>8, <1>9 DEF RequestInv

\* The poll that finds the request approved removes it and will issue its tokens:
\* unless there was a race, no other call will.
LEMMA ConsumeKeeps ==
  ASSUME RequestInv, NEW p \in Polls, PollConsume(p)
  PROVE  RequestInv'
<1>1. TypeOK
  BY DEF RequestInv
<1>2. PICK i \in accepted : i = poll[p].id
  BY DEF RequestInv, CallInv, PollConsume
<1>3. /\ DOMAIN requests' = DOMAIN requests \ {i}
      /\ \A j \in DOMAIN requests : j # i => requests'[j] = requests[j]
  BY <1>2, RemovedRow DEF PollConsume
<1>4. /\ poll' \in [Polls -> Poll]
      /\ poll'[p].pc = "issue" /\ poll'[p].id = i /\ poll'[p].row = poll[p].row
      /\ \A r \in Polls : r # p => poll'[r] = poll[r]
  BY <1>1, <1>2, ConsumedPoll DEF PollConsume
<1>5. /\ raced \subseteq raced' /\ raced' \subseteq raced \cup {i}
      /\ i \notin raced' =>
           /\ \A q \in Polls : q # p /\ poll[q].id = i => poll[q].pc \notin {"save", "consume"}
           /\ \A q \in Approvals : approval[q].id = i => approval[q].pc # "apply"
  BY <1>2, RaceNoted DEF PollConsume
<1>6. TypeOK'
  BY <1>1, <1>3, <1>4, <1>5 DEF TypeOK, PollConsume
<1>7. CallInv'
  BY <1>1, <1>2, <1>3, <1>4 DEF RequestInv, CallInv, PollConsume
<1>8. ASSUME NEW j \in Ids PROVE SameMode(j)'
  <2>1. SameMode(j)
    BY DEF RequestInv
  <2>2. Follows(j)
    BY <1>2, <1>3, <1>4 DEF Follows, PollConsume
  <2> QED
    BY <2>1, <2>2, ModeKept
<1>9. ASSUME NEW j \in accepted' \ raced'
      PROVE  Unraced(j)'
  <2>1. Unraced(j)
    BY <1>5 DEF RequestInv, PollConsume
  <2>2. Issued(j)' = Issued(j)
    BY DEF Issued, PollConsume
  <2>3. CASE j = i
    <3>1. i \in DOMAIN requests /\ requests[i].status = "approved"
      BY <1>2, <2>1, <2>3 DEF Unraced, PollConsume
    <3>2. decided[i] = {"approved"} /\ Issued(i) = {}
      BY <2>1, <2>3, <3>1 DEF Unraced
    <3>3. \A q \in Polls : poll[q].id = i => poll[q].pc # "issue"
      BY <2>1, <2>3, <3>1 DEF Unraced
    <3>4. /\ approval' = approval /\ decided' = decided /\ notified' = notified
          /\ delivered' = delivered /\ i \notin DOMAIN requests' /\ Issued(i)' = {}
      BY <1>3, <2>2, <2>3, <3>2 DEF PollConsume
    <3>5. \A q \in Polls : poll'[q].id = i => poll'[q].pc \notin {"save", "consume"}
      BY <1>4, <1>5, <2>3
    <3>6. \A q \in Polls : poll'[q].id = i /\ poll'[q].pc = "issue" => q = p
      BY <1>4, <3>3
    <3>7. \A k \in Approvals : approval[k].id = i => approval[k].pc # "apply"
      BY <1>5, <2>3
    <3>8. /\ \A k \in Approvals : approval[k].id = i /\ Announcing(approval[k]) =>
               /\ decided[i] = {approval[k].status} /\ notified[i] = 0
               /\ \A q \in Approvals : approval[q].id = i /\ Announcing(approval[q]) => q = k
          /\ notified[i] <= 1 /\ (notified[i] = 1 => decided[i] # {})
          /\ \A k \in Approvals : approval[k].id = i /\ approval[k].pc \in {"push_consume", "push_issue"} =>
               approval[k].status = "approved"
          /\ \A k \in Approvals : approval[k].id = i /\ approval[k].tok # NoToken =>
               approval[k].tok \notin delivered
      BY <2>1, <2>3 DEF Unraced
    <3>9. Unraced(i)'
      BY <3>2, <3>4, <3>5, <3>6, <3>7, <3>8 DEF Unraced, Announcing
    <3> QED
      BY <2>3, <3>9
  <2>4. CASE j # i
    BY <1>3, <1>4, <2>1, <2>2, <2>4 DEF Unraced, Announcing, PollConsume
  <2> QED
    BY <2>3, <2>4
<1> QED
  BY <1>6, <1>7, <1>8, <1>9 DEF RequestInv

\* A token answer is recorded under a fresh name, for one request.
LEMMA NewAnswer ==
  ASSUME TypeOK, NEW t \in TokenIds, NEW i \in Ids, t \notin DOMAIN tokens,
         tokens' = Put(tokens, t, i)
  PROVE  /\ DOMAIN tokens' = DOMAIN tokens \cup {t} /\ tokens'[t] = i
         /\ \A s \in DOMAIN tokens : tokens'[s] = tokens[s]
         /\ Issued(i)' = Issued(i) \cup {t}
         /\ \A j \in Ids : j # i => Issued(j)' = Issued(j)
         /\ t \notin delivered /\ delivered \subseteq DOMAIN tokens
<1>1. /\ DOMAIN tokens' = DOMAIN tokens \cup {t} /\ tokens'[t] = i
      /\ \A s \in DOMAIN tokens : tokens'[s] = tokens[s]
  BY DEF Put
<1> QED
  BY <1>1 DEF Issued, TypeOK

\* A poll and a push do not collect the same request.
LEMMA PollOrPush ==
  ASSUME RequestInv, NEW p \in Polls, NEW k \in Approvals,
         poll[p].pc = "issue", approval[k].pc \in {"push_consume", "push_issue"}
  PROVE  poll[p].id # approval[k].id
<1>1. poll[p].row.mode # "push" /\ approval[k].mode = "push" /\ poll[p].id \in Ids
  BY DEF RequestInv, CallInv, TypeOK
<1>2. PICK m \in {"poll", "ping", "push"} : ModeIs(poll[p].id, m)
  BY <1>1 DEF RequestInv, SameMode
<1> QED
  BY <1>1, <1>2 DEF ModeIs

\* The poll answers with the tokens: they are the only ones unless there was a race.
LEMMA IssueKeeps ==
  ASSUME RequestInv, NEW p \in Polls, NEW t \in TokenIds, PollIssue(p, t)
  PROVE  RequestInv'
<1>1. TypeOK
  BY DEF RequestInv
<1>2. PICK i \in accepted : i = poll[p].id
  BY DEF RequestInv, CallInv, PollIssue
<1>3. i \in Ids /\ "approved" \in decided[i] /\ poll[p].pc = "issue"
  BY <1>2 DEF RequestInv, TypeOK, CallInv, PollIssue
<1>4. /\ DOMAIN tokens' = DOMAIN tokens \cup {t} /\ tokens'[t] = i
      /\ \A s \in DOMAIN tokens : tokens'[s] = tokens[s]
      /\ Issued(i)' = Issued(i) \cup {t}
      /\ \A j \in Ids : j # i => Issued(j)' = Issued(j)
      /\ t \notin delivered /\ delivered \subseteq DOMAIN tokens
  BY <1>1, <1>2, <1>3, NewAnswer DEF PollIssue
<1>5. /\ poll' \in [Polls -> Poll] /\ poll'[p].pc = "idle"
      /\ \A r \in Polls : r # p => poll'[r] = poll[r]
  BY <1>1, IdleType, OnePoll DEF PollIssue
<1>6. /\ requests' = requests /\ accepted' = accepted /\ approval' = approval /\ now' = now
      /\ decided' = decided /\ notified' = notified /\ raced' = raced
      /\ delivered' = delivered \cup {t} /\ t \notin DOMAIN tokens
  BY DEF PollIssue
<1>7. TypeOK'
  BY <1>1, <1>3, <1>4, <1>5, <1>6 DEF TypeOK
<1>8. CallInv'
  BY <1>1, <1>3, <1>4, <1>5, <1>6 DEF RequestInv, CallInv
<1>9. ASSUME NEW j \in Ids PROVE SameMode(j)'
  <2>1. SameMode(j)
    BY DEF RequestInv
  <2>2. Follows(j)
    BY <1>5, <1>6 DEF Follows
  <2> QED
    BY <2>1, <2>2, ModeKept
<1>10. \A k \in Approvals : approval[k].tok # NoToken =>
         approval[k].tok \in DOMAIN tokens /\ tokens[approval[k].tok] = approval[k].id
  BY DEF RequestInv, CallInv
<1>11. ASSUME NEW j \in accepted' \ raced'
       PROVE  Unraced(j)'
  <2>1. Unraced(j) /\ j \in Ids
    BY <1>1, <1>6 DEF RequestInv, TypeOK
  <2>2. CASE j = i
    <3>1. i \notin DOMAIN requests /\ Issued(i) = {} /\ "denied" \notin decided[i]
      BY <1>2, <1>3, <2>1, <2>2 DEF Unraced
    <3>2. \A q \in Polls : q # p /\ poll[q].id = i => poll[q].pc # "issue"
      BY <1>2, <1>3, <2>1, <2>2 DEF Unraced
    <3>3. \A k \in Approvals : approval[k].id = i =>
            approval[k].pc \notin {"push_consume", "push_issue"}
      BY <1>2, <1>3, PollOrPush
    <3>4. \A k \in Approvals : approval[k].id = i => approval[k].tok = NoToken
      BY <1>10, <3>1 DEF Issued
    <3>5. Issued(j)' = {t} /\ j \notin DOMAIN requests' /\ "denied" \notin decided'[j]
      BY <1>4, <1>6, <2>2, <3>1
    <3> QED
      BY <1>5, <1>6, <2>1, <2>2, <3>2, <3>3, <3>4, <3>5 DEF Unraced, Announcing
  <2>3. CASE j # i
    <3>1. Issued(j)' = Issued(j)
      BY <1>4, <2>1, <2>3
    <3> QED
      BY <1>5, <1>6, <1>10, <2>1, <2>3, <3>1 DEF Unraced, Announcing
  <2> QED
    BY <2>2, <2>3
<1> QED
  BY <1>7, <1>8, <1>9, <1>11 DEF RequestInv

\* A decision is applied to the row, if it is still there, and announced: unless
\* there was a race it is the first one.
LEMMA ApplyKeeps ==
  ASSUME RequestInv, NEW k \in Approvals, DecideApply(k)
  PROVE  RequestInv'
<1>1. TypeOK /\ approval[k] \in Approval /\ approval[k].pc = "apply"
  BY SlotType DEF RequestInv, DecideApply
<1>2. PICK i \in accepted : i = approval[k].id
  BY <1>1 DEF RequestInv, CallInv
<1>3. PICK status \in {"approved", "denied"} : status = approval[k].status
  BY <1>1 DEF Approval
<1>4. i \in Ids /\ approval[k].tok = NoToken
  BY <1>1 DEF RequestInv, TypeOK, CallInv
<1>5. /\ DOMAIN requests' = DOMAIN requests
      /\ \A j \in DOMAIN requests : /\ requests'[j] \in Row
                                    /\ requests'[j].mode = requests[j].mode
      /\ i \in DOMAIN requests => requests'[i].status = status
      /\ \A j \in DOMAIN requests : j # i => requests'[j] = requests[j]
  <2>1. \A j \in DOMAIN requests : requests[j] \in Row
    BY <1>1 DEF TypeOK
  <2>2. requests' = IF i \in DOMAIN requests
                    THEN [requests EXCEPT ![i] = [requests[i] EXCEPT !.status = status]]
                    ELSE requests
    BY <1>2, <1>3 DEF DecideApply
  <2>3. CASE i \in DOMAIN requests
    BY <2>1, <2>2, <2>3 DEF Row
  <2> QED
    BY <2>1, <2>2, <2>3
<1>6. /\ approval' \in [Approvals -> Approval]
      /\ \/ approval'[k].pc = "idle"
         \/ /\ approval'[k].pc \in {"push_consume", "notify"}
            /\ approval'[k].id = i /\ approval'[k].mode = approval[k].mode
            /\ approval'[k].status = status
            /\ approval'[k].pc = "push_consume" =>
                 approval[k].mode = "push" /\ status = "approved"
      /\ approval'[k].tok = NoToken
      /\ \A r \in Approvals : r # k => approval'[r] = approval[r]
  <2>1. approval' = [approval EXCEPT ![k] = Announce(approval[k])]
    BY <1>1 DEF DecideApply
  <2>2. Announce(approval[k]) \in Approval
    BY <1>1, AnnounceNext
  <2>3. /\ approval' \in [Approvals -> Approval] /\ approval'[k] = Announce(approval[k])
        /\ \A r \in Approvals : r # k => approval'[r] = approval[r]
    BY <1>1, <2>1, <2>2, OneApproval
  <2>4. \/ Announce(approval[k]) = ApprovalIdle
        \/ /\ Announce(approval[k]).pc \in {"push_consume", "notify"}
           /\ Announce(approval[k]).id = i /\ Announce(approval[k]).mode = approval[k].mode
           /\ Announce(approval[k]).status = status /\ Announce(approval[k]).tok = NoToken
           /\ Announce(approval[k]).pc = "push_consume" =>
                approval[k].mode = "push" /\ status = "approved"
    BY <1>1, <1>2, <1>3, <1>4, AnnounceNext
  <2> QED
    BY <2>3, <2>4, IdleType
<1>7. /\ decided' \in [Ids -> SUBSET {"approved", "denied"}]
      /\ decided'[i] = decided[i] \cup {status}
      /\ \A j \in Ids : j # i => decided'[j] = decided[j]
      /\ \A j \in Ids : decided[j] \subseteq decided'[j]
  BY <1>1, <1>2, <1>3, <1>4 DEF DecideApply, TypeOK
<1>8. /\ now' = now /\ accepted' = accepted /\ poll' = poll /\ notified' = notified
      /\ tokens' = tokens /\ delivered' = delivered
  BY DEF DecideApply
<1>9. /\ raced \subseteq raced' /\ raced' \subseteq raced \cup {i}
      /\ i \notin raced' =>
           /\ \A q \in Polls : poll[q].id = i => poll[q].pc \notin {"save", "consume"}
           /\ \A q \in Approvals : q # k /\ approval[q].id = i => approval[q].pc # "apply"
  BY <1>2, RaceNoted DEF DecideApply
<1>10. TypeOK'
  BY <1>1, <1>5, <1>6, <1>7, <1>8, <1>9 DEF TypeOK
<1>11. CallInv'
  <2>1. /\ \A q \in Polls : poll[q].id \in accepted => poll[q].id \in Ids
        /\ \A q \in Approvals : approval[q].id \in accepted => approval[q].id \in Ids
        /\ DOMAIN requests \subseteq Ids /\ \A t \in DOMAIN tokens : tokens[t] \in Ids
    BY <1>1 DEF TypeOK
  <2>2. \A j \in DOMAIN requests' : requests'[j].status = "approved" => "approved" \in decided'[j]
    BY <1>5, <1>7, <2>1 DEF RequestInv, CallInv
  <2> QED
    BY <1>4, <1>6, <1>7, <1>8, <2>1, <2>2 DEF RequestInv, CallInv
<1>12. ASSUME NEW j \in Ids PROVE SameMode(j)'
  <2>1. SameMode(j)
    BY DEF RequestInv
  <2>2. Follows(j)
    BY <1>1, <1>2, <1>5, <1>6, <1>8 DEF Follows
  <2> QED
    BY <2>1, <2>2, ModeKept
<1>13. ASSUME NEW j \in accepted' \ raced'
       PROVE  Unraced(j)'
  <2>1. Unraced(j) /\ j \in Ids
    BY <1>1, <1>8, <1>9 DEF RequestInv, TypeOK
  <2>2. Issued(j)' = Issued(j)
    BY <1>8 DEF Issued
  <2>3. CASE j = i
    <3>1. i \in DOMAIN requests /\ decided[i] = {}
      BY <1>1, <1>2, <2>1, <2>3 DEF Unraced
    <3>2. /\ notified[i] = 0 /\ Issued(i) = {}
          /\ \A q \in Approvals : approval[q].id = i => ~Announcing(approval[q])
      <4>1. notified[i] \in 0 .. 2
        BY <1>1, <1>4 DEF TypeOK
      <4> QED
        BY <2>1, <2>3, <3>1, <4>1 DEF Unraced
    <3>3. /\ \A q \in Polls : poll[q].id = i => poll[q].pc # "issue"
          /\ \A q \in Approvals : approval[q].id = i => approval[q].tok = NoToken
      <4>1. \A q \in Approvals : approval[q].tok # NoToken => approval[q].pc = "notify"
        BY DEF RequestInv, CallInv
      <4> QED
        BY <2>1, <2>3, <3>1, <3>2, <4>1 DEF Unraced, Announcing
    <3>4. decided'[j] = {status} /\ requests'[j].status = status /\ notified'[j] = 0
      BY <1>5, <1>7, <1>8, <2>3, <3>1, <3>2
    <3>5. Issued(j)' = {}
      BY <2>2, <2>3, <3>2
    <3>6. \A q \in Approvals : approval'[q].id = j =>
            /\ approval'[q].pc # "apply" /\ approval'[q].tok = NoToken
            /\ Announcing(approval'[q]) => q = k
      BY <1>6, <1>9, <2>3, <3>2, <3>3 DEF Announcing
    <3>7. /\ approval'[k].id = j /\ Announcing(approval'[k]) => approval'[k].status = status
          /\ approval'[k].id = j /\ approval'[k].pc \in {"push_consume", "push_issue"} =>
               approval'[k].pc = "push_consume" /\ status = "approved"
      BY <1>6 DEF Announcing
    <3>8. \A q \in Polls : poll'[q].id = j => poll'[q].pc \notin {"save", "consume", "issue"}
      BY <1>8, <1>9, <2>3, <3>3
    <3>9. \A q \in Approvals : approval'[q].id = j /\ approval'[q].pc \in {"push_consume", "push_issue"} =>
            q = k
      BY <3>6 DEF Announcing
    <3> QED
      BY <1>3, <3>4, <3>5, <3>6, <3>7, <3>8, <3>9 DEF Unraced, Announcing
  <2>4. CASE j # i
    BY <1>2, <1>5, <1>6, <1>7, <1>8, <2>1, <2>2, <2>4 DEF Unraced, Announcing
  <2> QED
    BY <2>3, <2>4
<1> QED
  BY <1>10, <1>11, <1>12, <1>13 DEF RequestInv

\* The push of tokens removes the request first, like a poll.
LEMMA PushConsumeKeeps ==
  ASSUME RequestInv, NEW k \in Approvals, PushConsume(k)
  PROVE  RequestInv'
<1>1. TypeOK /\ approval[k] \in Approval /\ approval[k].pc = "push_consume"
  BY SlotType DEF RequestInv, PushConsume
<1>2. PICK i \in accepted : i = approval[k].id
  BY <1>1 DEF RequestInv, CallInv
<1>3. /\ DOMAIN requests' = DOMAIN requests \ {i}
      /\ \A j \in DOMAIN requests : j # i => requests'[j] = requests[j]
  BY <1>2, RemovedRow DEF PushConsume
<1>4. approval[k].tok = NoToken /\ approval[k].mode = "push" /\ "approved" \in decided[i]
  BY <1>1, <1>2 DEF RequestInv, CallInv
<1>5. /\ approval' \in [Approvals -> Approval]
      /\ approval'[k].pc = "push_issue" /\ approval'[k].tok = NoToken /\ approval'[k].id = i
      /\ approval'[k].mode = approval[k].mode /\ approval'[k].status = approval[k].status
      /\ \A r \in Approvals : r # k => approval'[r] = approval[r]
  <2>1. PICK retried \in BOOLEAN, tok \in {NoToken} :
          retried = approval[k].retried /\ tok = approval[k].tok
    BY <1>1, <1>4 DEF Approval
  <2>2. approval' = [approval EXCEPT ![k] = [approval[k] EXCEPT
          !.pc = "push_issue", !.retried = retried, !.tok = tok]]
    BY <1>1, <2>1 DEF PushConsume, TypeOK, Approval
  <2> QED
    BY <1>1, <1>2, <2>2, AdvancedApproval
<1>6. /\ raced \subseteq raced' /\ raced' \subseteq raced \cup {i}
      /\ i \notin raced' =>
           /\ \A q \in Polls : poll[q].id = i => poll[q].pc \notin {"save", "consume"}
           /\ \A q \in Approvals : q # k /\ approval[q].id = i => approval[q].pc # "apply"
  BY <1>2, RaceNoted DEF PushConsume
<1>7. TypeOK'
  BY <1>1, <1>3, <1>5, <1>6 DEF TypeOK, PushConsume
<1>8. CallInv'
  BY <1>1, <1>2, <1>3, <1>4, <1>5 DEF RequestInv, CallInv, PushConsume
<1>9. ASSUME NEW j \in Ids PROVE SameMode(j)'
  <2>1. SameMode(j)
    BY DEF RequestInv
  <2>2. Follows(j)
    BY <1>1, <1>2, <1>3, <1>5 DEF Follows, PushConsume
  <2> QED
    BY <2>1, <2>2, ModeKept
<1>10. ASSUME NEW j \in accepted' \ raced'
       PROVE  Unraced(j)'
  <2>1. Unraced(j)
    BY <1>6 DEF RequestInv, PushConsume
  <2>2. Issued(j)' = Issued(j)
    BY DEF Issued, PushConsume
  <2>3. CASE j = i
    BY <1>1, <1>2, <1>3, <1>5, <1>6, <2>1, <2>2, <2>3 DEF Unraced, Announcing, PushConsume
  <2>4. CASE j # i
    <3>1. /\ poll' = poll /\ decided' = decided /\ notified' = notified
          /\ tokens' = tokens /\ delivered' = delivered
      BY DEF PushConsume
    <3>2. \A q \in Approvals : approval'[q].id = j => approval'[q] = approval[q]
      BY <1>5, <2>4
    <3>3. \A q \in Approvals : approval[q].id = j => approval'[q] = approval[q]
      BY <1>2, <1>5, <2>4
    <3>4. /\ j \in DOMAIN requests' <=> j \in DOMAIN requests
          /\ j \in DOMAIN requests => requests'[j] = requests[j]
      BY <1>3, <2>4
    <3> QED
      BY <2>1, <2>2, <3>1, <3>2, <3>3, <3>4 DEF Unraced, Announcing
  <2> QED
    BY <2>3, <2>4
<1> QED
  BY <1>7, <1>8, <1>9, <1>10 DEF RequestInv

\* The tokens of a push exist before the client has them.
LEMMA PushIssueKeeps ==
  ASSUME RequestInv, NEW k \in Approvals, NEW t \in TokenIds, PushIssue(k, t)
  PROVE  RequestInv'
<1>1. TypeOK /\ approval[k] \in Approval /\ approval[k].pc = "push_issue"
  BY SlotType DEF RequestInv, PushIssue
<1>2. PICK i \in accepted : i = approval[k].id
  BY <1>1 DEF RequestInv, CallInv
<1>3. i \in Ids /\ approval[k].mode = "push" /\ "approved" \in decided[i]
  BY <1>1, <1>2 DEF RequestInv, CallInv, TypeOK
<1>4. /\ DOMAIN tokens' = DOMAIN tokens \cup {t} /\ tokens'[t] = i
      /\ \A s \in DOMAIN tokens : tokens'[s] = tokens[s]
      /\ Issued(i)' = Issued(i) \cup {t}
      /\ \A j \in Ids : j # i => Issued(j)' = Issued(j)
      /\ t \notin delivered /\ delivered \subseteq DOMAIN tokens
  BY <1>1, <1>2, <1>3, NewAnswer DEF PushIssue
<1>5. /\ approval' \in [Approvals -> Approval]
      /\ approval'[k].pc = "notify" /\ approval'[k].tok = t /\ approval'[k].id = i
      /\ approval'[k].mode = approval[k].mode /\ approval'[k].status = approval[k].status
      /\ \A r \in Approvals : r # k => approval'[r] = approval[r]
  <2>1. approval' = [approval EXCEPT ![k] = [approval[k] EXCEPT
          !.pc = "notify", !.retried = approval[k].retried, !.tok = t]]
    BY <1>1 DEF PushIssue, TypeOK, Approval
  <2>2. approval[k].retried \in BOOLEAN
    BY <1>1 DEF Approval
  <2> QED
    BY <1>1, <1>2, <2>1, <2>2, AdvancedApproval
<1>6. /\ requests' = requests /\ accepted' = accepted /\ poll' = poll /\ now' = now
      /\ decided' = decided /\ notified' = notified /\ raced' = raced
      /\ delivered' = delivered /\ t \notin DOMAIN tokens /\ t # NoToken
  BY DEF PushIssue
<1>7. TypeOK'
  BY <1>1, <1>3, <1>4, <1>5, <1>6 DEF TypeOK
<1>8. CallInv'
  BY <1>1, <1>3, <1>4, <1>5, <1>6 DEF RequestInv, CallInv
<1>9. ASSUME NEW j \in Ids PROVE SameMode(j)'
  <2>1. SameMode(j)
    BY DEF RequestInv
  <2>2. Follows(j)
    BY <1>1, <1>2, <1>5, <1>6 DEF Follows
  <2> QED
    BY <2>1, <2>2, ModeKept
<1>10. ASSUME NEW j \in accepted' \ raced'
       PROVE  Unraced(j)'
  <2>1. Unraced(j) /\ j \in Ids
    BY <1>1, <1>6 DEF RequestInv, TypeOK
  <2>2. CASE j = i
    <3>1. /\ i \notin DOMAIN requests /\ Issued(i) = {} /\ approval[k].status = "approved"
          /\ decided[i] = {"approved"} /\ notified[i] = 0
      BY <1>1, <1>2, <2>1, <2>2 DEF Unraced, Announcing
    <3>2. \A q \in Approvals : approval[q].id = i /\ Announcing(approval[q]) => q = k
      BY <1>1, <1>2, <2>1, <2>2 DEF Unraced, Announcing
    <3>3. \A q \in Polls : poll[q].id = i => poll[q].pc # "issue"
      BY <1>1, <1>2, PollOrPush
    <3>4. \A q \in Approvals : q # k /\ approval[q].id = i => approval[q].tok = NoToken
      BY <3>2 DEF RequestInv, CallInv, Announcing
    <3>5. Issued(j)' = {t} /\ j \notin DOMAIN requests' /\ "denied" \notin decided'[j]
      BY <1>4, <1>6, <2>2, <3>1
    <3> QED
      BY <1>4, <1>5, <1>6, <2>1, <2>2, <3>1, <3>2, <3>3, <3>4, <3>5 DEF Unraced, Announcing
  <2>3. CASE j # i
    <3>1. Issued(j)' = Issued(j)
      BY <1>4, <2>1, <2>3
    <3> QED
      BY <1>2, <1>5, <1>6, <2>1, <2>3, <3>1 DEF Unraced, Announcing
  <2> QED
    BY <2>2, <2>3
<1> QED
  BY <1>7, <1>8, <1>9, <1>10 DEF RequestInv

\* A push whose issuance fails goes back to the removal once, then to the notification.
LEMMA PushFailKeeps ==
  ASSUME RequestInv, NEW k \in Approvals, PushFail(k)
  PROVE  RequestInv'
<1>1. TypeOK /\ approval[k] \in Approval /\ approval[k].pc \in {"push_consume", "push_issue"}
  BY SlotType DEF RequestInv, PushFail
<1>2. PICK i \in accepted : i = approval[k].id
  BY <1>1 DEF RequestInv, CallInv
<1>3. approval[k].tok = NoToken /\ approval[k].mode = "push" /\ "approved" \in decided[i]
  BY <1>1, <1>2 DEF RequestInv, CallInv
<1>4. /\ approval' \in [Approvals -> Approval]
      /\ approval'[k].pc \in {"notify", "push_consume"}
      /\ approval'[k].tok = NoToken /\ approval'[k].id = i
      /\ approval'[k].mode = approval[k].mode /\ approval'[k].status = approval[k].status
      /\ \A r \in Approvals : r # k => approval'[r] = approval[r]
  <2>1. PICK pc \in {"notify", "push_consume"} :
          pc = IF approval[k].retried THEN "notify" ELSE "push_consume"
    OBVIOUS
  <2>2. PICK retried \in BOOLEAN, tok \in {NoToken} : retried = TRUE /\ tok = approval[k].tok
    BY <1>3
  <2>3. approval' = [approval EXCEPT ![k] = [approval[k] EXCEPT
          !.pc = pc, !.retried = retried, !.tok = tok]]
    <3>1. approval' = [approval EXCEPT ![k].pc = pc, ![k].retried = TRUE]
      BY <2>1 DEF PushFail
    <3>2. [approval[k] EXCEPT !.pc = pc, !.retried = TRUE]
            = [approval[k] EXCEPT !.pc = pc, !.retried = retried, !.tok = tok]
      BY <1>1, <2>2 DEF Approval
    <3> QED
      BY <1>1, <3>1, <3>2 DEF TypeOK
  <2> QED
    BY <1>1, <1>2, <2>3, AdvancedApproval
<1>5. /\ requests' = requests /\ accepted' = accepted /\ poll' = poll /\ now' = now
      /\ decided' = decided /\ notified' = notified /\ raced' = raced
      /\ delivered' = delivered /\ tokens' = tokens
  BY DEF PushFail
<1>6. TypeOK'
  BY <1>1, <1>4, <1>5 DEF TypeOK
<1>7. CallInv'
  BY <1>2, <1>3, <1>4, <1>5 DEF RequestInv, CallInv
<1>8. ASSUME NEW j \in Ids PROVE SameMode(j)'
  <2>1. SameMode(j)
    BY DEF RequestInv
  <2>2. Follows(j)
    BY <1>1, <1>2, <1>4, <1>5 DEF Follows
  <2> QED
    BY <2>1, <2>2, ModeKept
<1>9. ASSUME NEW j \in accepted' \ raced'
      PROVE  Unraced(j)'
  <2>1. Unraced(j)
    BY <1>5 DEF RequestInv
  <2>2. Issued(j)' = Issued(j)
    BY <1>5 DEF Issued
  <2> QED
    BY <1>1, <1>2, <1>3, <1>4, <1>5, <2>1, <2>2 DEF Unraced, Announcing
<1> QED
  BY <1>6, <1>7, <1>8, <1>9 DEF RequestInv

\* The notification ends the call: the client is told, and may get the tokens.
LEMMA NotifyKeeps ==
  ASSUME RequestInv, NEW k \in Approvals, NEW arrives \in BOOLEAN, Notify(k, arrives)
  PROVE  RequestInv'
<1>1. TypeOK /\ approval[k] \in Approval /\ approval[k].pc = "notify"
  BY SlotType DEF RequestInv, Notify
<1>2. PICK i \in accepted : i = approval[k].id
  BY <1>1 DEF RequestInv, CallInv
<1>3. i \in Ids /\ notified[i] \in 0 .. 2
  BY <1>1, <1>2 DEF TypeOK
<1>4. /\ approval' \in [Approvals -> Approval]
      /\ approval'[k].pc = "idle" /\ approval'[k].tok = NoToken
      /\ \A r \in Approvals : r # k => approval'[r] = approval[r]
  BY <1>1, IdleType, OneApproval DEF Notify
<1>5. /\ notified' \in [Ids -> 0 .. 2] /\ notified'[i] = Twice(notified[i])
      /\ \A j \in Ids : j # i => notified'[j] = notified[j]
  <2>1. Twice(notified[i]) \in 0 .. 2
    BY <1>3 DEF Twice
  <2> QED
    BY <1>1, <1>2, <1>3, <2>1 DEF Notify, TypeOK
<1>6. /\ delivered \subseteq delivered'
      /\ delivered' \subseteq delivered \cup ({approval[k].tok} \ {NoToken})
  BY DEF Notify
<1>7. /\ requests' = requests /\ accepted' = accepted /\ poll' = poll /\ now' = now
      /\ decided' = decided /\ tokens' = tokens /\ raced' = raced
  BY DEF Notify
<1>8. \A q \in Approvals : approval[q].tok # NoToken =>
        /\ approval[q].pc = "notify" /\ approval[q].tok \in DOMAIN tokens
        /\ tokens[approval[q].tok] = approval[q].id
  BY DEF RequestInv, CallInv
<1>9. TypeOK'
  BY <1>1, <1>4, <1>5, <1>6, <1>7, <1>8 DEF TypeOK
<1>10. CallInv'
  BY <1>2, <1>3, <1>4, <1>5, <1>7 DEF RequestInv, CallInv
<1>11. ASSUME NEW j \in Ids PROVE SameMode(j)'
  <2>1. SameMode(j)
    BY DEF RequestInv
  <2>2. Follows(j)
    BY <1>4, <1>7 DEF Follows
  <2> QED
    BY <2>1, <2>2, ModeKept
<1>12. ASSUME NEW j \in accepted' \ raced'
       PROVE  Unraced(j)'
  <2>1. Unraced(j) /\ j \in Ids
    BY <1>1, <1>7 DEF RequestInv, TypeOK
  <2>2. Issued(j)' = Issued(j)
    BY <1>7 DEF Issued
  <2>3. CASE j = i
    <3>1. /\ decided[i] # {} /\ notified[i] = 0
          /\ \A q \in Approvals : approval[q].id = i /\ Announcing(approval[q]) => q = k
      BY <1>1, <1>2, <2>1, <2>3 DEF Unraced, Announcing
    <3>2. notified'[i] = 1
      BY <1>5, <3>1 DEF Twice
    <3>3. \A q \in Approvals : q # k /\ approval[q].id = i =>
            ~Announcing(approval[q]) /\ approval[q].tok = NoToken
      BY <1>8, <3>1 DEF Announcing
    <3> QED
      BY <1>4, <1>7, <2>1, <2>2, <2>3, <3>1, <3>2, <3>3 DEF Unraced, Announcing
  <2>4. CASE j # i
    BY <1>2, <1>4, <1>5, <1>6, <1>7, <1>8, <2>1, <2>2, <2>4 DEF Unraced, Announcing
  <2> QED
    BY <2>3, <2>4
<1> QED
  BY <1>9, <1>10, <1>11, <1>12 DEF RequestInv

--------------------------------------------------------------------------------
(* The invariant and what follows from it.                                  *)

\* At the start there is neither a request nor a call.
LEMMA InitInv == Init => RequestInv
<1> SUFFICES ASSUME Init PROVE RequestInv
  OBVIOUS
<1>1. TypeOK
  BY IdleType DEF Init, TypeOK
<1>2. CallInv
  BY IdleType DEF Init, CallInv
<1>3. ASSUME NEW i \in Ids PROVE SameMode(i)
  <2>1. ModeIs(i, "poll")
    BY IdleType DEF Init, ModeIs
  <2> QED
    BY <2>1 DEF SameMode
<1> QED
  BY <1>1, <1>2, <1>3 DEF Init, RequestInv

\* Every step keeps the invariant, action by action.
LEMMA StepInv == RequestInv /\ [Next]_vars => RequestInv'
<1> SUFFICES ASSUME RequestInv, [Next]_vars PROVE RequestInv'
  OBVIOUS
<1>1. now \in 0 .. MaxTime
  BY DEF RequestInv, TypeOK
<1>2. ASSUME NEW i \in Ids, NEW d \in Demands, Accept(i, d) PROVE RequestInv'
  BY <1>2, AcceptKeeps
<1>3. ASSUME NEW p \in Polls, Polling(p) PROVE RequestInv'
  <2>1. ASSUME NEW i \in Ids, PollExpired(p, i) \/ PollApproved(p, i) \/ PollPending(p, i)
        PROVE  RequestInv'
    BY <1>1, <2>1, LoadLooks, LookedKeeps
  <2>2. CASE PollDelete(p)
    BY <2>2, DeleteKeeps
  <2>3. CASE PollSave(p)
    BY <2>3, SaveKeeps
  <2>4. CASE PollConsume(p)
    BY <2>4, ConsumeKeeps
  <2>5. ASSUME NEW t \in TokenIds, PollIssue(p, t) PROVE RequestInv'
    BY <2>5, IssueKeeps
  <2>6. CASE AbortPoll(p)
    BY <2>6, AbortLooks, LookedKeeps
  <2> QED
    BY <1>3, <2>1, <2>2, <2>3, <2>4, <2>5, <2>6 DEF Polling
<1>4. ASSUME NEW k \in Approvals, Approving(k) PROVE RequestInv'
  <2>1. ASSUME NEW i \in Ids, NEW status \in {"approved", "denied"}, Decide(k, i, status)
        PROVE  RequestInv'
    BY <1>1, <2>1, DecideLooks, LookedKeeps
  <2>2. CASE DecideApply(k)
    BY <2>2, ApplyKeeps
  <2>3. CASE PushConsume(k)
    BY <2>3, PushConsumeKeeps
  <2>4. CASE PushFail(k)
    BY <2>4, PushFailKeeps
  <2>5. ASSUME NEW t \in TokenIds, PushIssue(k, t) PROVE RequestInv'
    BY <2>5, PushIssueKeeps
  <2>6. ASSUME NEW arrives \in BOOLEAN, Notify(k, arrives) PROVE RequestInv'
    BY <2>6, NotifyKeeps
  <2>7. CASE AbortApproval(k)
    BY <2>7, AbortLooks, LookedKeeps
  <2> QED
    BY <1>4, <2>1, <2>2, <2>3, <2>4, <2>5, <2>6, <2>7 DEF Approving
<1>5. CASE Tick
  BY <1>5, AbortLooks, LookedKeeps
<1>6. CASE UNCHANGED vars
  <2>1. Looked /\ now' \in 0 .. MaxTime
    BY <1>1, <1>6 DEF vars, Looked, RequestInv, TypeOK
  <2> QED
    BY <2>1, LookedKeeps
<1> QED
  BY <1>2, <1>3, <1>4, <1>5, <1>6 DEF Next

\* The strengthening of the properties below is an invariant of the store, the
\* polls, the decisions and the notifications together.
THEOREM RequestInvariant == Spec => []RequestInv
BY InitInv, StepInv, PTL DEF Spec

\* Tokens are issued only for a request somebody approved, by a poll or by a push,
\* and for none that was refused unless calls raced on it.
THEOREM ApprovalFollowed == Spec => []TokensFollowApproval
<1>1. RequestInv => TokensFollowApproval
  <2> SUFFICES ASSUME RequestInv, NEW t \in DOMAIN tokens
               PROVE  /\ "approved" \in decided[tokens[t]]
                      /\ "denied" \in decided[tokens[t]] => tokens[t] \in raced
    BY DEF TokensFollowApproval
  <2>1. PICK i \in accepted : i = tokens[t] /\ "approved" \in decided[i]
    BY DEF RequestInv, CallInv
  <2>2. t \in Issued(i)
    BY <2>1 DEF Issued
  <2>3. i \notin raced => "denied" \notin decided[i]
    BY <2>2 DEF RequestInv, Unraced
  <2> QED
    BY <2>1, <2>3
<1> QED
  BY <1>1, RequestInvariant, PTL

\* A decision is announced to the client once, whatever fails, is retried or stops
\* half-way, unless calls raced on the request.
THEOREM NotifiedOnce == Spec => []NotifiedOnceUnlessRaced
<1>1. RequestInv => NotifiedOnceUnlessRaced
  <2> SUFFICES ASSUME RequestInv, NEW i \in Ids \ raced PROVE notified[i] <= 1
    BY DEF NotifiedOnceUnlessRaced
  <2>1. CASE i \in accepted
    BY <2>1 DEF RequestInv, Unraced
  <2>2. CASE i \notin accepted
    BY <2>2 DEF RequestInv, CallInv
  <2> QED
    BY <2>1, <2>2
<1> QED
  BY <1>1, RequestInvariant, PTL

--------------------------------------------------------------------------------
(* An auth_req_id is a single-use grant.                                    *)

\* The token answers that reached the client for a request.
Out(i) == {t \in delivered : tokens[t] = i}

\* The store starts with no grant.
LEMMA InitAbstract == Init => Abstract!Init
BY DEF Init, Abstract!Init, Phase

\* A step that neither delivers tokens nor changes a phase is a stutter.
LEMMA Stutters ==
  ASSUME \A i \in Ids : Phase(i)' = Phase(i), \A i \in Ids : Out(i)' = Out(i)
  PROVE  UNCHANGED Abstract!vars
BY DEF Abstract!vars, Out

\* A step that changes the phase of one item, and delivers no tokens, is that move.
LEMMA Moves ==
  ASSUME NEW i \in Ids, \A j \in Ids : Out(j)' = Out(j),
         \A j \in Ids : j # i => Phase(j)' = Phase(j),
         \/ Phase(i)' = Phase(i)
         \/ Phase(i) = "none" /\ Phase(i)' = "live"
         \/ Phase(i) = "live" /\ Phase(i)' \in {"spent", "raced"}
  PROVE  [Abstract!Next]_(Abstract!vars)
<1>1. [j \in Ids |-> Out(j)]' = [j \in Ids |-> Out(j)]
  OBVIOUS
<1>2. [j \in Ids |-> Phase(j)]' = [[j \in Ids |-> Phase(j)] EXCEPT ![i] = Phase(i)']
  OBVIOUS
<1>3. CASE Phase(i)' = Phase(i)
  BY <1>3, Stutters
<1>4. CASE Phase(i) = "none" /\ Phase(i)' = "live"
  <2>1. Abstract!Move(i, "none", "live")
    BY <1>1, <1>2, <1>4 DEF Abstract!Move, Out
  <2> QED
    BY <2>1 DEF Abstract!Next
<1>5. CASE Phase(i) = "live" /\ Phase(i)' = "spent"
  <2>1. Abstract!Move(i, "live", "spent")
    BY <1>1, <1>2, <1>5 DEF Abstract!Move, Out
  <2> QED
    BY <2>1 DEF Abstract!Next
<1>6. CASE Phase(i) = "live" /\ Phase(i)' = "raced"
  <2>1. Abstract!Move(i, "live", "raced")
    BY <1>1, <1>2, <1>6 DEF Abstract!Move, Out
  <2> QED
    BY <2>1 DEF Abstract!Next
<1> QED
  BY <1>3, <1>4, <1>5, <1>6

\* Where neither the tokens nor their delivery change, the clients hold the same.
LEMMA OutKept ==
  ASSUME tokens' = tokens, delivered' = delivered
  PROVE  \A i \in Ids : Out(i)' = Out(i)
BY DEF Out

\* A step that delivers one more answer for i, once i is spent or raced, is an answer.
LEMMA Delivers ==
  ASSUME NEW i \in Ids, NEW t \in TokenIds,
         \/ Phase(i) = "spent" /\ Out(i) = {}
         \/ Phase(i) = "raced",
         Out(i)' = Out(i) \cup {t}, \A j \in Ids : j # i => Out(j)' = Out(j),
         \A j \in Ids : Phase(j)' = Phase(j)
  PROVE  Abstract!Next
<1>1. [j \in Ids |-> Out(j)]' = [[j \in Ids |-> Out(j)] EXCEPT ![i] = @ \cup {t}]
  OBVIOUS
<1>2. [j \in Ids |-> Phase(j)]' = [j \in Ids |-> Phase(j)]
  OBVIOUS
<1>3. Abstract!Answer(i, t)
  BY <1>1, <1>2 DEF Abstract!Answer, Out
<1> QED
  BY <1>3 DEF Abstract!Next

\* A race can only be noted for a request that is still there.
LEMMA RacedLive ==
  ASSUME RequestInv, NEW i \in accepted, NEW c, Race(i, c)
  PROVE  i \in raced' => i \in raced \/ i \in DOMAIN requests
<1> SUFFICES ASSUME i \in raced', i \notin raced
             PROVE  i \in DOMAIN requests
  OBVIOUS
<1>1. Unraced(i)
  BY DEF RequestInv
<1>2. \/ \E q \in Polls : poll[q].id = i /\ poll[q].pc \in {"save", "consume"}
      \/ \E q \in Approvals : approval[q].id = i /\ approval[q].pc = "apply"
  BY DEF Race
<1> QED
  BY <1>1, <1>2 DEF Unraced

\* Removing a row, or deciding on it, spends the request, notes a race or neither.
LEMMA RowMoves ==
  ASSUME RequestInv, NEW i \in accepted, NEW c, Race(i, c),
         \/ DOMAIN requests' = DOMAIN requests \ {i}
         \/ DOMAIN requests' = DOMAIN requests,
         accepted' = accepted, tokens' = tokens, delivered' = delivered
  PROVE  [Abstract!Next]_(Abstract!vars)
<1>1. i \in Ids
  BY DEF RequestInv, TypeOK
<1>2. raced \subseteq raced' /\ raced' \subseteq raced \cup {i}
  BY RaceNoted
<1>3. i \in raced' => i \in raced \/ i \in DOMAIN requests
  BY RacedLive
<1>4. \A j \in Ids : j # i => Phase(j)' = Phase(j)
  BY <1>2 DEF Phase
<1>5. \/ Phase(i)' = Phase(i)
      \/ Phase(i) = "live" /\ Phase(i)' \in {"spent", "raced"}
  BY <1>2, <1>3 DEF Phase
<1> QED
  BY <1>1, <1>4, <1>5, Moves, OutKept

\* The answer to a poll is the one answer of a spent request, or one of a raced request.
LEMMA PollAnswers ==
  ASSUME RequestInv, NEW p \in Polls, NEW t \in TokenIds, PollIssue(p, t)
  PROVE  Abstract!Next
<1>1. PICK i \in accepted : i = poll[p].id
  BY DEF RequestInv, CallInv, PollIssue
<1>2. TypeOK /\ i \in Ids
  BY DEF RequestInv, TypeOK
<1>3. /\ t \notin DOMAIN tokens /\ tokens' = Put(tokens, t, i) /\ delivered' = delivered \cup {t}
  BY <1>1 DEF PollIssue
<1>4. /\ tokens'[t] = i /\ \A s \in DOMAIN tokens : tokens'[s] = tokens[s]
      /\ t \notin delivered /\ delivered \subseteq DOMAIN tokens
  BY <1>2, <1>3, NewAnswer
<1>5. Phase(i) = "raced" \/ (Phase(i) = "spent" /\ Out(i) = {})
  <2>1. CASE i \in raced
    BY <2>1 DEF Phase
  <2>2. CASE i \notin raced
    <3>1. i \notin DOMAIN requests /\ Issued(i) = {}
      BY <1>1, <2>2 DEF RequestInv, Unraced, PollIssue
    <3>2. Out(i) = {}
      BY <1>4, <3>1 DEF Issued, Out
    <3> QED
      BY <2>2, <3>1, <3>2 DEF Phase
  <2> QED
    BY <2>1, <2>2
<1>6. Out(i)' = Out(i) \cup {t} /\ \A j \in Ids : j # i => Out(j)' = Out(j)
  BY <1>3, <1>4 DEF Out
<1>7. \A j \in Ids : Phase(j)' = Phase(j)
  BY DEF Phase, PollIssue
<1> QED
  BY <1>2, <1>5, <1>6, <1>7, Delivers

\* A notification brings the tokens of a push, or nothing.
LEMMA NotifyAnswers ==
  ASSUME RequestInv, NEW k \in Approvals, NEW arrives \in BOOLEAN, Notify(k, arrives)
  PROVE  [Abstract!Next]_(Abstract!vars)
<1>1. PICK i \in accepted : i = approval[k].id
  BY DEF RequestInv, CallInv, Notify
<1>2. i \in Ids
  BY DEF RequestInv, TypeOK
<1>3. tokens' = tokens /\ \A j \in Ids : Phase(j)' = Phase(j)
  BY DEF Phase, Notify
<1>4. CASE delivered' = delivered
  BY <1>3, <1>4, OutKept, Stutters
<1>5. CASE approval[k].tok # NoToken /\ delivered' = delivered \cup {approval[k].tok}
  <2>1. PICK t \in TokenIds : /\ t = approval[k].tok /\ t \in DOMAIN tokens /\ tokens[t] = i
    BY <1>1, <1>5 DEF RequestInv, CallInv, TypeOK
  <2>2. Phase(i) = "raced" \/ (Phase(i) = "spent" /\ Out(i) = {})
    <3>1. CASE i \in raced
      BY <3>1 DEF Phase
    <3>2. CASE i \notin raced
      <4>1. Unraced(i) /\ t \in Issued(i) /\ delivered \subseteq DOMAIN tokens
        BY <2>1, <3>2 DEF RequestInv, TypeOK, Issued
      <4>2. i \notin DOMAIN requests /\ Issued(i) = {t} /\ t \notin delivered
        BY <1>1, <1>5, <2>1, <4>1 DEF Unraced
      <4>3. Out(i) = {}
        BY <4>1, <4>2 DEF Issued, Out
      <4> QED
        BY <3>2, <4>2, <4>3 DEF Phase
    <3> QED
      BY <3>1, <3>2
  <2>3. Out(i)' = Out(i) \cup {t} /\ \A j \in Ids : j # i => Out(j)' = Out(j)
    BY <1>3, <1>5, <2>1 DEF Out
  <2> QED
    BY <1>2, <1>3, <2>2, <2>3, Delivers
<1>6. delivered' = delivered \/ delivered' = delivered \cup ({approval[k].tok} \ {NoToken})
  BY DEF Notify
<1>7. {approval[k].tok} \ {NoToken} = IF approval[k].tok = NoToken THEN {} ELSE {approval[k].tok}
  OBVIOUS
<1> QED
  BY <1>4, <1>5, <1>6, <1>7

\* Every step is a step of the single-use grant, or none.
LEMMA StepAbstract == RequestInv /\ [Next]_vars => [Abstract!Next]_(Abstract!vars)
<1> SUFFICES ASSUME RequestInv, [Next]_vars PROVE [Abstract!Next]_(Abstract!vars)
  OBVIOUS
<1>0. TypeOK /\ accepted \subseteq Ids
  BY DEF RequestInv, TypeOK
<1>1. ASSUME Looked PROVE [Abstract!Next]_(Abstract!vars)
  <2>1. \A i \in Ids : Phase(i)' = Phase(i)
    BY <1>1 DEF Looked, Phase
  <2>2. \A i \in Ids : Out(i)' = Out(i)
    BY <1>1, OutKept DEF Looked
  <2> QED
    BY <2>1, <2>2, Stutters
<1>2. ASSUME NEW i \in Ids, NEW d \in Demands, Accept(i, d)
      PROVE  [Abstract!Next]_(Abstract!vars)
  <2>1. DOMAIN requests' = DOMAIN requests \cup {i}
    BY <1>2 DEF Accept, Put
  <2>2. \A j \in Ids : j # i => Phase(j)' = Phase(j)
    BY <1>2, <2>1 DEF Accept, Phase
  <2>3. Phase(i) = "none" /\ Phase(i)' = "live"
    BY <1>0, <1>2, <2>1 DEF Accept, Phase, TypeOK
  <2>4. \A j \in Ids : Out(j)' = Out(j)
    BY <1>2, OutKept DEF Accept
  <2> QED
    BY <2>2, <2>3, <2>4, Moves
<1>3. ASSUME NEW p \in Polls, Polling(p) PROVE [Abstract!Next]_(Abstract!vars)
  <2>1. ASSUME NEW i \in Ids, PollExpired(p, i) \/ PollApproved(p, i) \/ PollPending(p, i)
        PROVE  [Abstract!Next]_(Abstract!vars)
    BY <1>1, <2>1, LoadLooks
  <2>2. CASE PollDelete(p) \/ PollConsume(p)
    <3>1. PICK i \in accepted : i = poll[p].id
      BY <2>2 DEF RequestInv, CallInv, PollDelete, PollConsume
    <3>2. Race(i, p) /\ requests' = Remove(requests, i)
          /\ accepted' = accepted /\ tokens' = tokens /\ delivered' = delivered
      BY <2>2, <3>1 DEF PollDelete, PollConsume
    <3>3. DOMAIN requests' = DOMAIN requests \ {i}
      BY <3>2 DEF Remove
    <3> QED
      BY <3>2, <3>3, RowMoves
  <2>3. CASE PollSave(p)
    <3>1. PICK i \in accepted : i = poll[p].id
      BY <2>3 DEF RequestInv, CallInv, PollSave
    <3>2. i \in raced \/ i \in DOMAIN requests
      BY <2>3, <3>1 DEF RequestInv, Unraced, PollSave
    <3>3. DOMAIN requests' = DOMAIN requests \cup {i}
      BY <2>3, <3>1 DEF PollSave, Put
    <3>4. \A j \in Ids : Phase(j)' = Phase(j)
      BY <2>3, <3>2, <3>3 DEF PollSave, Phase
    <3>5. \A j \in Ids : Out(j)' = Out(j)
      BY <2>3, OutKept DEF PollSave
    <3> QED
      BY <3>4, <3>5, Stutters
  <2>4. ASSUME NEW t \in TokenIds, PollIssue(p, t) PROVE [Abstract!Next]_(Abstract!vars)
    BY <2>4, PollAnswers
  <2>5. CASE AbortPoll(p)
    BY <1>1, <2>5, AbortLooks
  <2> QED
    BY <1>3, <2>1, <2>2, <2>3, <2>4, <2>5 DEF Polling
<1>4. ASSUME NEW k \in Approvals, Approving(k) PROVE [Abstract!Next]_(Abstract!vars)
  <2>1. ASSUME NEW i \in Ids, NEW status \in {"approved", "denied"}, Decide(k, i, status)
        PROVE  [Abstract!Next]_(Abstract!vars)
    BY <1>1, <2>1, DecideLooks
  <2>2. CASE DecideApply(k) \/ PushConsume(k)
    <3>1. PICK i \in accepted : i = approval[k].id
      BY <2>2 DEF RequestInv, CallInv, DecideApply, PushConsume
    <3>2. Race(i, k) /\ accepted' = accepted /\ tokens' = tokens /\ delivered' = delivered
      BY <2>2, <3>1 DEF DecideApply, PushConsume
    <3>3. \/ DOMAIN requests' = DOMAIN requests \ {i}
          \/ DOMAIN requests' = DOMAIN requests
      BY <2>2, <3>1 DEF DecideApply, PushConsume, Remove
    <3> QED
      BY <3>2, <3>3, RowMoves
  <2>3. CASE PushFail(k)
    <3>1. \A i \in Ids : Phase(i)' = Phase(i)
      BY <2>3 DEF PushFail, Phase
    <3>2. \A i \in Ids : Out(i)' = Out(i)
      BY <2>3, OutKept DEF PushFail
    <3> QED
      BY <3>1, <3>2, Stutters
  <2>4. ASSUME NEW t \in TokenIds, PushIssue(k, t) PROVE [Abstract!Next]_(Abstract!vars)
    <3>1. \A i \in Ids : Phase(i)' = Phase(i)
      BY <2>4 DEF PushIssue, Phase
    <3>2. \A s \in delivered : tokens'[s] = tokens[s]
      BY <1>0, <2>4 DEF PushIssue, Put, TypeOK
    <3>3. \A i \in Ids : Out(i)' = Out(i)
      BY <2>4, <3>2 DEF PushIssue, Out
    <3> QED
      BY <3>1, <3>3, Stutters
  <2>5. ASSUME NEW arrives \in BOOLEAN, Notify(k, arrives)
        PROVE  [Abstract!Next]_(Abstract!vars)
    BY <2>5, NotifyAnswers
  <2>6. CASE AbortApproval(k)
    BY <1>1, <2>6, AbortLooks
  <2> QED
    BY <1>4, <2>1, <2>2, <2>3, <2>4, <2>5, <2>6 DEF Approving
<1>5. CASE Tick
  BY <1>1, <1>5, AbortLooks
<1>6. CASE UNCHANGED vars
  <2>1. Looked
    BY <1>0, <1>6 DEF vars, Looked, TypeOK
  <2> QED
    BY <1>1, <2>1
<1> QED
  BY <1>2, <1>3, <1>4, <1>5, <1>6 DEF Next

\* The store of backchannel requests, with its polls, decisions, pushes and
\* notifications, implements the single-use grant.
THEOREM RequestRefines == Spec => RequestSingleUse
BY InitAbstract, StepAbstract, RequestInvariant, PTL
DEF Spec, RequestSingleUse, Abstract!Spec
================================================================================
