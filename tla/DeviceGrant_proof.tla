---------------------------- MODULE DeviceGrant_proof ----------------------------
(* Proofs about DeviceGrant, for every value of its constants.              *)
EXTENDS DeviceGrant, TLAPS

USE NameAssumption, LimitAssumption

--------------------------------------------------------------------------------
(* Types, and what one step does to a slot.                                 *)

\* The blank rows and slots have their types.
LEMMA IdleType == NoRow \in Row /\ PollIdle \in Poll /\ PageIdle \in Page
<1>1. NoRow \in Row
  BY DEF NoRow, Row, Statuses, Intervals, Never
<1>2. PollIdle \in Poll
  BY <1>1 DEF PollIdle, Poll
<1>3. PageIdle \in Page
  BY DEF PageIdle, Page, NoDecision, Decision
<1> QED
  BY <1>1, <1>2, <1>3

\* An approval names its user, and is not a refusal.
LEMMA ApprovalNames ==
  ASSUME NEW u, Approval(u) \in Decisions
  PROVE  u \in Users
<1>1. Approval(u) # NoDecision
  <2>1. Approval(u).status = "approved" /\ NoDecision.status = "denied"
    BY DEF Approval, NoDecision
  <2> QED
    BY <2>1
<1>2. PICK v \in Users : Approval(u) = Approval(v)
  BY <1>1 DEF Decisions, Approval
<1>3. Approval(u).subject = u /\ Approval(v).subject = v
  BY DEF Approval
<1> QED
  BY <1>2, <1>3

\* Every decision a user can take is a decision.
LEMMA DecisionType == Decisions \subseteq Decision
BY DEF Decisions, Decision, NoDecision

\* What the session lemmas need of a poll's slot.
LEMMA PollType ==
  ASSUME TypeOK, NEW p \in Polls
  PROVE  /\ poll[p] \in Poll /\ poll[p].row \in Row
         /\ poll[p].dev \in Devices \cup {NoDevice}
BY DEF TypeOK, Poll

LEMMA PageType ==
  ASSUME TypeOK, NEW k \in Pages
  PROVE  /\ page[k] \in Page /\ page[k].decision \in Decision
         /\ page[k].dev \in Devices \cup {NoDevice}
BY DEF TypeOK, Page

\* A poll's step moves that poll alone.
LEMMA OnePoll ==
  ASSUME TypeOK, NEW p \in Polls, NEW q \in Poll, poll' = [poll EXCEPT ![p] = q]
  PROVE  /\ poll' \in [Polls -> Poll]
         /\ poll'[p] = q
         /\ \A r \in Polls : r # p => poll'[r] = poll[r]
BY DEF TypeOK

\* A decision's step moves that decision alone.
LEMMA OnePage ==
  ASSUME TypeOK, NEW k \in Pages, NEW q \in Page, page' = [page EXCEPT ![k] = q]
  PROVE  /\ page' \in [Pages -> Page]
         /\ page'[k] = q
         /\ \A r \in Pages : r # k => page'[r] = page[r]
BY DEF TypeOK

\* The poll that consumed its session keeps the device and the copy.
LEMMA ConsumedPoll ==
  ASSUME TypeOK, NEW p \in Polls, poll' = [poll EXCEPT ![p].pc = "issue"]
  PROVE  /\ poll' \in [Polls -> Poll]
         /\ poll'[p].pc = "issue" /\ poll'[p].dev = poll[p].dev /\ poll'[p].row = poll[p].row
         /\ \A r \in Polls : r # p => poll'[r] = poll[r]
<1> DEFINE q == [poll[p] EXCEPT !.pc = "issue"]
<1>1. poll' = [poll EXCEPT ![p] = q]
  BY DEF TypeOK
<1>2. q \in Poll /\ q.pc = "issue" /\ q.dev = poll[p].dev /\ q.row = poll[p].row
  BY PollType DEF Poll
<1> QED
  BY <1>1, <1>2, OnePoll

\* The rows that the store calls write are rows.
LEMMA RowsKept ==
  ASSUME TypeOK, NEW row \in Row
  PROVE  /\ SlowDown(row) \in Row
         /\ SlowDown(row).status = row.status /\ SlowDown(row).subject = row.subject
<1>1. row.interval \in Intervals /\ now \in Nat
  BY DEF Row, TypeOK
<1>2. Capped(row.interval + 5) \in Intervals
  BY <1>1 DEF Capped, Intervals
<1> QED
  BY <1>1, <1>2 DEF SlowDown, Row

LEMMA DecidedRow ==
  ASSUME NEW row \in Row, NEW e \in Decision
  PROVE  /\ Decided(row, e) \in Row
         /\ e.status = "approved" => Decided(row, e).status = "approved"
                                     /\ Decided(row, e).subject = e.subject
         /\ e.status # "approved" => Decided(row, e).status = "denied"
BY DEF Decided, Row, Decision, Statuses

\* A race is noted for the session it is about; where none is noted, no other
\* call depended on a copy of the row.
LEMMA RaceNoted ==
  ASSUME NEW d, NEW p, NEW k, Race(d, p, k)
  PROVE  /\ raced \subseteq raced' /\ raced' \subseteq raced \cup {d}
         /\ d \notin raced' => /\ \A q \in Polls : q # p => ~HoldingPoll(d, q)
                               /\ \A q \in Pages : q # k => ~HoldingPage(d, q)
BY DEF Race
--------------------------------------------------------------------------------
(* Steps that only look: a load, a visit, an abort and the clock.           *)

\* What a step that writes neither the store nor what was decided does to the calls:
\* a slot stays as it was, is emptied, or holds a copy of the row just loaded.
Looked ==
  /\ sessions' = sessions /\ opened' = opened /\ told' = told
  /\ tokens' = tokens /\ raced' = raced /\ answered' \subseteq opened
  /\ poll' \in [Polls -> Poll] /\ page' \in [Pages -> Page]
  /\ \A p \in Polls :
       \/ poll'[p] = poll[p]
       \/ poll'[p].pc = "idle"
       \/ /\ poll'[p].dev \in DOMAIN sessions
          /\ poll'[p].row = sessions[poll'[p].dev]
          /\ \/ poll'[p].pc = "delete"
             \/ poll'[p].pc = "save" /\ poll'[p].row.status = "pending"
             \/ poll'[p].pc = "consume" /\ poll'[p].row.status = "approved"
  /\ \A k \in Pages :
       \/ page'[k] = page[k]
       \/ page'[k].pc = "idle"
       \/ /\ page'[k].dev \in DOMAIN sessions /\ page'[k].decision \in Decisions
          /\ \/ page'[k].pc = "delete"
             \/ page'[k].pc = "apply" /\ sessions[page'[k].dev].status = "pending"

\* Such a step keeps the invariant.
LEMMA LookedKeeps ==
  ASSUME SessionInv, Looked, now' \in 0 .. MaxTime
  PROVE  SessionInv'
<1>1. TypeOK'
  BY DEF SessionInv, TypeOK, Looked
<1>2. CallInv'
  BY DEF SessionInv, TypeOK, CallInv, Looked
<1>3. ASSUME NEW d \in opened' \ raced'
      PROVE  Unraced(d)'
  <2>1. Unraced(d)
    BY DEF SessionInv, Looked
  <2>2. Answers(d)' = Answers(d)
    BY DEF Answers, Looked
  <2> QED
    BY <2>1, <2>2 DEF Unraced, HoldingPoll, HoldingPage, Looked
<1> QED
  BY <1>1, <1>2, <1>3 DEF SessionInv

\* The loads and refusals of a poll, the visits of a user, the aborts and the clock
\* only look.
LEMMA LoadLooks ==
  ASSUME SessionInv, NEW p \in Polls, NEW d \in Devices, PollLoad(p, d)
  PROVE  Looked /\ now' = now
<1>1. PICK pc \in {"delete", "consume", "save"} :
        /\ Load(p, d, pc)
        /\ pc = "consume" => sessions[d].status = "approved"
        /\ pc = "save" => sessions[d].status = "pending"
  BY DEF PollLoad, PollExpired, PollApproved, PollPending
<1> DEFINE q == [pc |-> pc, dev |-> d, row |-> sessions[d]]
<1>2. sessions[d] \in Row /\ d \in DOMAIN sessions
  BY <1>1 DEF Load, SessionInv, TypeOK
<1>3. q \in Poll
  BY <1>2 DEF Poll
<1>4. /\ poll' \in [Polls -> Poll] /\ poll'[p] = q
      /\ \A r \in Polls : r # p => poll'[r] = poll[r]
  BY <1>1, <1>3, OnePoll DEF Load, SessionInv
<1>5. page' = page /\ page \in [Pages -> Page] /\ answered' \subseteq opened
  BY <1>1 DEF Load, SessionInv, TypeOK
<1> QED
  BY <1>1, <1>2, <1>4, <1>5 DEF Load, Looked

LEMMA RefusalLooks ==
  ASSUME SessionInv, NEW p \in Polls, NEW d \in Devices, PollRefused(p, d)
  PROVE  Looked /\ now' = now
BY DEF PollRefused, Looked, SessionInv, TypeOK

LEMMA VisitLooks ==
  ASSUME SessionInv, NEW k \in Pages, NEW d \in Devices, NEW e \in Decisions,
         DecideExpired(k, d, e) \/ DecidePending(k, d, e)
  PROVE  Looked /\ now' = now
<1>1. PICK pc \in {"delete", "apply"} :
        Visit(k, d, pc, e) /\ (pc = "apply" => sessions[d].status = "pending")
  BY DEF DecideExpired, DecidePending
<1> DEFINE q == [pc |-> pc, dev |-> d, decision |-> e]
<1>2. q \in Page
  BY DecisionType DEF Page
<1>3. /\ page' \in [Pages -> Page] /\ page'[k] = q
      /\ \A r \in Pages : r # k => page'[r] = page[r]
  BY <1>1, <1>2, OnePage DEF Visit, SessionInv
<1>4. poll' = poll /\ poll \in [Polls -> Poll] /\ answered' \subseteq opened
  BY <1>1 DEF Visit, SessionInv, TypeOK
<1> QED
  BY <1>1, <1>3, <1>4 DEF Visit, Looked

LEMMA AbortLooks ==
  ASSUME SessionInv,
         (\E p \in Polls : AbortPoll(p)) \/ (\E k \in Pages : AbortPage(k)) \/ Tick
  PROVE  Looked /\ now' \in 0 .. MaxTime
<1>1. TypeOK
  BY DEF SessionInv
<1>2. ASSUME NEW p \in Polls, AbortPoll(p)
      PROVE  Looked /\ now' \in 0 .. MaxTime
  <2>1. /\ poll' \in [Polls -> Poll] /\ poll'[p].pc = "idle"
        /\ \A r \in Polls : r # p => poll'[r] = poll[r]
    BY <1>1, <1>2, IdleType, OnePoll DEF AbortPoll, PollIdle
  <2> QED
    BY <1>1, <1>2, <2>1 DEF AbortPoll, Looked, TypeOK
<1>3. ASSUME NEW k \in Pages, AbortPage(k)
      PROVE  Looked /\ now' \in 0 .. MaxTime
  <2>1. /\ page' \in [Pages -> Page] /\ page'[k].pc = "idle"
        /\ \A r \in Pages : r # k => page'[r] = page[r]
    BY <1>1, <1>3, IdleType, OnePage DEF AbortPage, PageIdle
  <2> QED
    BY <1>1, <1>3, <2>1 DEF AbortPage, Looked, TypeOK
<1>4. CASE Tick
  BY <1>1, <1>4 DEF Tick, Looked, TypeOK
<1> QED
  BY <1>2, <1>3, <1>4
--------------------------------------------------------------------------------
(* Steps that write.                                                        *)

\* Removing a row leaves the others alone.
LEMMA RemovedRow ==
  ASSUME NEW d \in Devices
  PROVE  /\ DOMAIN Remove(sessions, d) = DOMAIN sessions \ {d}
         /\ \A e \in DOMAIN sessions : e # d => Remove(sessions, d)[e] = sessions[e]
BY DEF Remove

\* A new session is pending, and nobody has heard of its device code.
LEMMA OpenKeeps ==
  ASSUME SessionInv, NEW d \in Devices, Open(d)
  PROVE  SessionInv'
<1> DEFINE row == [NoRow EXCEPT !.expires = now + Ttl, !.interval = Capped(Interval)]
<1>1. row \in Row /\ row.status = "pending"
  <2>1. now + Ttl \in Nat
    BY DEF SessionInv, TypeOK
  <2>2. Capped(Interval) \in Intervals
    BY DEF Capped, Intervals
  <2>3. NoRow \in Row /\ NoRow.status = "pending"
    BY IdleType DEF NoRow
  <2> QED
    BY <2>1, <2>2, <2>3 DEF Row
<1>2. /\ DOMAIN sessions' = DOMAIN sessions \cup {d} /\ sessions'[d] = row
      /\ \A e \in DOMAIN sessions : e # d => sessions'[e] = sessions[e]
  <2>1. sessions' = Put(sessions, d, row) /\ TypeOK
    BY DEF Open, SessionInv
  <2> HIDE DEF row
  <2> QED
    BY <2>1 DEF Put
<1> HIDE DEF row
<1>3. TypeOK'
  BY <1>1, <1>2 DEF SessionInv, TypeOK, Open
<1>4. d \notin DOMAIN sessions /\ told[d] = {}
  BY DEF SessionInv, TypeOK, CallInv, Open
<1>5. CallInv'
  BY <1>1, <1>2, <1>4 DEF SessionInv, TypeOK, CallInv, Open
<1>6. ASSUME NEW e \in opened' \ raced'
      PROVE  Unraced(e)'
  <2>1. Answers(e)' = Answers(e)
    BY DEF Answers, Open
  <2>2. CASE e = d
    <3>1. \A p \in Polls : poll[p].dev = d => poll[p].pc = "idle"
      BY DEF SessionInv, CallInv, Open
    <3>2. \A k \in Pages : page[k].dev = d => page[k].pc = "idle"
      BY DEF SessionInv, CallInv, Open
    <3>3. Answers(e) = {}
      BY <2>2 DEF SessionInv, CallInv, Open, Answers
    <3> QED
      BY <1>1, <1>2, <1>4, <2>1, <2>2, <3>1, <3>2, <3>3
      DEF Unraced, HoldingPoll, HoldingPage, Open
  <2>3. CASE e # d
    <3>1. Unraced(e)
      BY <2>3 DEF SessionInv, Open
    <3> QED
      BY <1>2, <2>1, <2>3, <3>1 DEF Unraced, HoldingPoll, HoldingPage, Open
  <2> QED
    BY <2>2, <2>3
<1> QED
  BY <1>3, <1>5, <1>6 DEF SessionInv

\* A step that removes d's row and ends the call that did it.
Dropped(d) ==
  /\ DOMAIN sessions' = DOMAIN sessions \ {d}
  /\ \A e \in DOMAIN sessions : e # d => sessions'[e] = sessions[e]
  /\ now' = now /\ opened' = opened /\ told' = told /\ tokens' = tokens
  /\ answered' \subseteq opened
  /\ raced \subseteq raced' /\ raced' \subseteq raced \cup {d}
  /\ poll' \in [Polls -> Poll] /\ page' \in [Pages -> Page]
  /\ \A p \in Polls : poll'[p] = poll[p] \/ poll'[p].pc = "idle"
  /\ \A k \in Pages : page'[k] = page[k] \/ page'[k].pc = "idle"
  /\ d \notin raced' =>
       /\ \A p \in Polls : poll'[p].dev = d => poll'[p].pc \notin {"save", "consume"}
       /\ \A k \in Pages : page'[k].dev = d => page'[k].pc # "apply"

\* Removing a row keeps the invariant: no call that went unnoticed held a copy.
LEMMA DroppedKeeps ==
  ASSUME SessionInv, NEW d \in opened, Dropped(d)
  PROVE  SessionInv'
<1>1. TypeOK'
  BY DEF SessionInv, TypeOK, Dropped
<1>2. CallInv'
  BY DEF SessionInv, TypeOK, CallInv, Dropped
<1>3. ASSUME NEW e \in opened' \ raced'
      PROVE  Unraced(e)'
  <2>1. Unraced(e)
    BY DEF SessionInv, Dropped
  <2>2. Answers(e)' = Answers(e)
    BY DEF Answers, Dropped
  <2>3. CASE e = d
    BY <2>1, <2>2, <2>3 DEF Unraced, HoldingPoll, HoldingPage, Dropped
  <2>4. CASE e # d
    BY <2>1, <2>2, <2>4 DEF Unraced, HoldingPoll, HoldingPage, Dropped
  <2> QED
    BY <2>3, <2>4
<1> QED
  BY <1>1, <1>2, <1>3 DEF SessionInv

\* Both deletions of an expired session are such steps.
LEMMA DeleteDrops ==
  ASSUME SessionInv
  PROVE  /\ \A p \in Polls : PollDelete(p) => poll[p].dev \in opened /\ Dropped(poll[p].dev)
         /\ \A k \in Pages : DecideDelete(k) => page[k].dev \in opened /\ Dropped(page[k].dev)
<1>1. TypeOK /\ opened \subseteq Devices
  BY DEF SessionInv, TypeOK
<1>2. ASSUME NEW p \in Polls, PollDelete(p)
      PROVE  poll[p].dev \in opened /\ Dropped(poll[p].dev)
  <2> DEFINE d == poll[p].dev
  <2>1. d \in opened
    BY <1>2 DEF SessionInv, CallInv, PollDelete
  <2>2. /\ DOMAIN sessions' = DOMAIN sessions \ {d}
        /\ \A e \in DOMAIN sessions : e # d => sessions'[e] = sessions[e]
    BY <1>1, <1>2, <2>1, RemovedRow DEF PollDelete
  <2>3. /\ poll' \in [Polls -> Poll] /\ poll'[p].pc = "idle"
        /\ \A r \in Polls : r # p => poll'[r] = poll[r]
    BY <1>1, <1>2, IdleType, OnePoll DEF PollDelete, PollIdle
  <2>4. page' = page /\ page' \in [Pages -> Page] /\ answered' \subseteq opened
    BY <1>1, <1>2, <2>1 DEF PollDelete, TypeOK
  <2>5. Race(d, p, NoDevice)
    BY <1>2 DEF PollDelete
  <2>6. /\ raced \subseteq raced' /\ raced' \subseteq raced \cup {d}
        /\ d \notin raced' => /\ \A q \in Polls : q # p => ~HoldingPoll(d, q)
                              /\ \A q \in Pages : q # NoDevice => ~HoldingPage(d, q)
    BY <2>5, RaceNoted
  <2>7. ASSUME d \notin raced'
        PROVE  /\ \A q \in Polls : poll'[q].dev = d => poll'[q].pc \notin {"save", "consume"}
               /\ \A q \in Pages : page'[q].dev = d => page'[q].pc # "apply"
    BY <2>3, <2>4, <2>6, <2>7, <1>2 DEF HoldingPoll, HoldingPage, PollDelete
  <2> QED
    BY <1>2, <2>1, <2>2, <2>3, <2>4, <2>6, <2>7 DEF Dropped, PollDelete
<1>3. ASSUME NEW k \in Pages, DecideDelete(k)
      PROVE  page[k].dev \in opened /\ Dropped(page[k].dev)
  <2> DEFINE d == page[k].dev
  <2>1. d \in opened
    BY <1>3 DEF SessionInv, CallInv, DecideDelete
  <2>2. /\ DOMAIN sessions' = DOMAIN sessions \ {d}
        /\ \A e \in DOMAIN sessions : e # d => sessions'[e] = sessions[e]
    BY <1>1, <1>3, <2>1, RemovedRow DEF DecideDelete
  <2>3. /\ page' \in [Pages -> Page] /\ page'[k].pc = "idle"
        /\ \A r \in Pages : r # k => page'[r] = page[r]
    BY <1>1, <1>3, IdleType, OnePage DEF DecideDelete, PageIdle
  <2>4. poll' = poll /\ poll' \in [Polls -> Poll] /\ answered' \subseteq opened
    BY <1>1, <1>3 DEF DecideDelete, TypeOK
  <2>5. Race(d, NoDevice, k)
    BY <1>3 DEF DecideDelete
  <2>6. /\ raced \subseteq raced' /\ raced' \subseteq raced \cup {d}
        /\ d \notin raced' => /\ \A q \in Polls : q # NoDevice => ~HoldingPoll(d, q)
                              /\ \A q \in Pages : q # k => ~HoldingPage(d, q)
    BY <2>5, RaceNoted
  <2>7. ASSUME d \notin raced'
        PROVE  /\ \A q \in Polls : poll'[q].dev = d => poll'[q].pc \notin {"save", "consume"}
               /\ \A q \in Pages : page'[q].dev = d => page'[q].pc # "apply"
    BY <2>3, <2>4, <2>6, <2>7, <1>3 DEF HoldingPoll, HoldingPage, DecideDelete
  <2> QED
    BY <1>3, <2>1, <2>2, <2>3, <2>4, <2>6, <2>7 DEF Dropped, DecideDelete
<1> QED
  BY <1>2, <1>3
\* The full-row save: unless there was a race, the row is still there and pending.
LEMMA SaveKeeps ==
  ASSUME SessionInv, NEW p \in Polls, PollSave(p)
  PROVE  SessionInv'
<1>1. TypeOK /\ opened \subseteq Devices
  BY DEF SessionInv, TypeOK
<1>2. PICK d \in opened : d = poll[p].dev
  BY DEF SessionInv, CallInv, PollSave
<1>3. PICK row \in Row : row = SlowDown(poll[p].row) /\ row.status = "pending"
  BY <1>1, PollType, RowsKept DEF SessionInv, CallInv, PollSave
<1>4. /\ DOMAIN sessions' = DOMAIN sessions \cup {d} /\ sessions'[d] = row
      /\ \A e \in DOMAIN sessions : e # d => sessions'[e] = sessions[e]
  <2>1. sessions' = Put(sessions, d, row)
    BY <1>2, <1>3 DEF PollSave
  <2> QED
    BY <2>1 DEF Put
<1>5. /\ poll' \in [Polls -> Poll] /\ poll'[p].pc = "idle"
      /\ \A r \in Polls : r # p => poll'[r] = poll[r]
  BY <1>1, IdleType, OnePoll DEF PollSave, PollIdle
<1>6. /\ now' = now /\ opened' = opened /\ page' = page /\ told' = told
      /\ tokens' = tokens /\ answered' = answered /\ raced' = raced
  BY DEF PollSave
<1>7. TypeOK'
  BY <1>1, <1>4, <1>5, <1>6 DEF TypeOK
<1>8. CallInv'
  BY <1>1, <1>3, <1>4, <1>5, <1>6 DEF SessionInv, TypeOK, CallInv
<1>9. ASSUME NEW e \in opened' \ raced'
      PROVE  Unraced(e)'
  <2>1. Unraced(e)
    BY <1>6 DEF SessionInv
  <2>2. Answers(e)' = Answers(e)
    BY <1>6 DEF Answers
  <2>3. e = d => d \in DOMAIN sessions /\ sessions[d].status = "pending"
    BY <1>2, <2>1 DEF Unraced, HoldingPoll, PollSave
  <2> QED
    BY <1>3, <1>4, <1>5, <1>6, <2>1, <2>2, <2>3 DEF Unraced, HoldingPoll, HoldingPage
<1> QED
  BY <1>7, <1>8, <1>9 DEF SessionInv

\* The approved path removes the session; unless there was a race no other poll
\* has consumed it, so that this one alone goes on to issue.
LEMMA ConsumeKeeps ==
  ASSUME SessionInv, NEW p \in Polls, PollConsume(p)
  PROVE  SessionInv'
<1>1. TypeOK /\ opened \subseteq Devices
  BY DEF SessionInv, TypeOK
<1>2. PICK d \in opened : d = poll[p].dev
  BY DEF SessionInv, CallInv, PollConsume
<1>3. /\ DOMAIN sessions' = DOMAIN sessions \ {d}
      /\ \A e \in DOMAIN sessions : e # d => sessions'[e] = sessions[e]
  BY <1>1, <1>2, RemovedRow DEF PollConsume
<1>4. /\ poll' \in [Polls -> Poll] /\ poll'[p].pc = "issue"
      /\ poll'[p].dev = d /\ poll'[p].row = poll[p].row
      /\ \A r \in Polls : r # p => poll'[r] = poll[r]
  BY <1>1, <1>2, ConsumedPoll DEF PollConsume
<1>5. /\ now' = now /\ opened' = opened /\ page' = page /\ told' = told
      /\ tokens' = tokens /\ answered' = answered
  BY DEF PollConsume
<1>6. /\ raced \subseteq raced' /\ raced' \subseteq raced \cup {d}
      /\ d \notin raced' => /\ \A q \in Polls : q # p => ~HoldingPoll(d, q)
                            /\ \A q \in Pages : q # NoDevice => ~HoldingPage(d, q)
  <2>1. Race(d, p, NoDevice)
    BY <1>2 DEF PollConsume
  <2> QED
    BY <2>1, RaceNoted
<1>7. TypeOK'
  BY <1>1, <1>3, <1>4, <1>5, <1>6 DEF TypeOK
<1>8. CallInv'
  BY <1>1, <1>2, <1>3, <1>4, <1>5 DEF SessionInv, TypeOK, CallInv, PollConsume
<1>9. ASSUME NEW e \in opened' \ raced'
      PROVE  Unraced(e)'
  <2>1. Unraced(e)
    BY <1>5, <1>6 DEF SessionInv
  <2>2. Answers(e)' = Answers(e)
    BY <1>5 DEF Answers
  <2>3. CASE e = d
    <3>1. d \in DOMAIN sessions /\ sessions[d].status = "approved"
      BY <1>2, <2>1, <2>3 DEF Unraced, HoldingPoll, PollConsume
    <3>2. Answers(d) = {} /\ NoDecision \notin told[d]
      BY <2>1, <2>3, <3>1 DEF Unraced
    <3>3. \A q \in Polls : poll[q].dev = d => poll[q].pc # "issue"
      BY <2>1, <2>3, <3>1 DEF Unraced
    <3>4. \A q \in Polls : q # p => ~HoldingPoll(d, q)
      BY <1>6, <2>3
    <3>5. \A q \in Pages : ~HoldingPage(d, q)
      BY <1>6, <2>3
    <3> QED
      BY <1>3, <1>4, <1>5, <2>2, <2>3, <3>2, <3>3, <3>4, <3>5
      DEF Unraced, HoldingPoll, HoldingPage
  <2>4. CASE e # d
    BY <1>3, <1>4, <1>5, <2>1, <2>2, <2>4 DEF Unraced, HoldingPoll, HoldingPage
  <2> QED
    BY <2>3, <2>4
<1> QED
  BY <1>7, <1>8, <1>9 DEF SessionInv

\* The token answer: its subject approved the device, and no other answer is due.
LEMMA IssueKeeps ==
  ASSUME SessionInv, NEW p \in Polls, NEW t \in TokenIds, PollIssue(p, t)
  PROVE  SessionInv'
<1>1. TypeOK /\ opened \subseteq Devices
  BY DEF SessionInv, TypeOK
<1>2. PICK d \in opened : d = poll[p].dev
  BY DEF SessionInv, CallInv, PollIssue
<1>3. PICK u \in Users : u = poll[p].row.subject /\ Approval(u) \in told[d]
  BY <1>1, <1>2, ApprovalNames DEF SessionInv, CallInv, PollIssue
<1>4. /\ DOMAIN tokens' = DOMAIN tokens \cup {t} /\ t \notin DOMAIN tokens
      /\ tokens'[t].dev = d /\ tokens'[t].subject = u
      /\ tokens'[t] \in [dev : Devices, subject : Users]
      /\ \A s \in DOMAIN tokens : tokens'[s] = tokens[s]
  <2>1. tokens' = Put(tokens, t, [dev |-> d, subject |-> u]) /\ t \notin DOMAIN tokens
    BY <1>2, <1>3 DEF PollIssue
  <2> QED
    BY <1>1, <2>1 DEF Put
<1>5. /\ poll' \in [Polls -> Poll] /\ poll'[p].pc = "idle"
      /\ \A r \in Polls : r # p => poll'[r] = poll[r]
  BY <1>1, IdleType, OnePoll DEF PollIssue, PollIdle
<1>6. /\ now' = now /\ opened' = opened /\ page' = page /\ told' = told
      /\ sessions' = sessions /\ raced' = raced /\ answered' = answered \cup {d}
  BY <1>2 DEF PollIssue
<1>7. TypeOK'
  BY <1>1, <1>4, <1>5, <1>6 DEF TypeOK
<1>8. CallInv'
  BY <1>1, <1>3, <1>4, <1>5, <1>6 DEF SessionInv, TypeOK, CallInv
<1>9. ASSUME NEW e \in opened' \ raced'
      PROVE  Unraced(e)'
  <2>1. Unraced(e)
    BY <1>6 DEF SessionInv
  <2>2. CASE e = d
    <3>1. d \notin DOMAIN sessions /\ NoDecision \notin told[d]
      BY <1>2, <2>1, <2>2 DEF Unraced, PollIssue
    <3>2. \A q \in Polls : poll[q].dev = d /\ poll[q].pc = "issue" => q = p
      BY <1>2, <2>1, <2>2 DEF Unraced, PollIssue
    <3> QED
      BY <1>5, <1>6, <2>1, <2>2, <3>1, <3>2 DEF Unraced, HoldingPoll, HoldingPage
  <2>3. CASE e # d
    <3>1. Answers(e)' = Answers(e)
      BY <1>4, <2>3 DEF Answers
    <3> QED
      BY <1>5, <1>6, <2>1, <2>3, <3>1 DEF Unraced, HoldingPoll, HoldingPage
  <2> QED
    BY <2>2, <2>3
<1> QED
  BY <1>7, <1>8, <1>9 DEF SessionInv

\* A decision: unless there was a race it is the first, and it reaches the row.
LEMMA ApplyKeeps ==
  ASSUME SessionInv, NEW k \in Pages, DecideApply(k)
  PROVE  SessionInv'
<1>1. TypeOK /\ opened \subseteq Devices
  BY DEF SessionInv, TypeOK
<1>2. PICK d \in opened : d = page[k].dev
  BY DEF SessionInv, CallInv, DecideApply
<1>3. PICK e \in Decisions : e = page[k].decision
  BY DEF SessionInv, CallInv, DecideApply
<1>4. /\ DOMAIN sessions' = DOMAIN sessions
      /\ d \in DOMAIN sessions => sessions'[d] = Decided(sessions[d], e)
      /\ \A x \in DOMAIN sessions : x # d => sessions'[x] = sessions[x]
  <2>1. sessions' = IF d \in DOMAIN sessions
                    THEN [sessions EXCEPT ![d] = Decided(@, e)] ELSE sessions
    BY <1>2, <1>3 DEF DecideApply
  <2> QED
    BY <2>1
<1>5. /\ d \in DOMAIN sessions => sessions'[d] \in Row
      /\ d \in DOMAIN sessions /\ e # NoDecision =>
           sessions'[d].status = "approved" /\ e = Approval(sessions'[d].subject)
      /\ d \in DOMAIN sessions /\ e = NoDecision => sessions'[d].status = "denied"
  <2>1. e # NoDecision => e.status = "approved" /\ e = Approval(e.subject)
    BY DEF Decisions, Approval
  <2>2. NoDecision.status = "denied"
    BY DEF NoDecision
  <2> QED
    BY <1>1, <1>4, <2>1, <2>2, DecisionType, DecidedRow DEF TypeOK
<1>6. /\ told' \in [Devices -> SUBSET Decision] /\ told'[d] = told[d] \cup {e}
      /\ \A x \in Devices : x # d => told'[x] = told[x]
  BY <1>1, <1>2, <1>3, DecisionType DEF TypeOK, DecideApply
<1>7. /\ page' \in [Pages -> Page] /\ page'[k].pc = "idle"
      /\ \A r \in Pages : r # k => page'[r] = page[r]
  BY <1>1, IdleType, OnePage DEF DecideApply, PageIdle
<1>8. /\ now' = now /\ opened' = opened /\ poll' = poll /\ tokens' = tokens
      /\ answered' = answered
  BY DEF DecideApply
<1>9. /\ raced \subseteq raced' /\ raced' \subseteq raced \cup {d}
      /\ d \notin raced' => /\ \A q \in Polls : q # NoDevice => ~HoldingPoll(d, q)
                            /\ \A q \in Pages : q # k => ~HoldingPage(d, q)
  <2>1. Race(d, NoDevice, k)
    BY <1>2 DEF DecideApply
  <2> QED
    BY <2>1, RaceNoted
<1>10. TypeOK'
  BY <1>1, <1>4, <1>5, <1>6, <1>7, <1>8, <1>9 DEF TypeOK
<1>11. CallInv'
  <2>1. \A x \in Devices : told[x] \subseteq told'[x] /\ told'[x] \subseteq told[x] \cup {e}
    BY <1>6
  <2>2. \A x \in DOMAIN sessions' : sessions'[x].status = "approved" =>
          Approval(sessions'[x].subject) \in told'[x]
    BY <1>1, <1>4, <1>5, <1>6 DEF SessionInv, TypeOK, CallInv
  <2> QED
    BY <1>1, <1>3, <1>6, <1>7, <1>8, <2>1, <2>2 DEF SessionInv, TypeOK, CallInv
<1>12. ASSUME NEW x \in opened' \ raced'
       PROVE  Unraced(x)'
  <2>1. Unraced(x)
    BY <1>8, <1>9 DEF SessionInv
  <2>2. Answers(x)' = Answers(x)
    BY <1>8 DEF Answers
  <2>3. CASE x = d
    <3>1. d \in DOMAIN sessions /\ sessions[d].status = "pending" /\ told[d] = {}
      BY <1>2, <2>1, <2>3 DEF Unraced, HoldingPage, DecideApply
    <3>2. Answers(d) = {} /\ \A q \in Polls : poll[q].dev = d => poll[q].pc # "issue"
      BY <2>1, <2>3, <3>1 DEF Unraced
    <3>3. \A q \in Polls : ~HoldingPoll(d, q)
      BY <1>9, <2>3
    <3>4. \A q \in Pages : page'[q].dev = d => page'[q].pc # "apply"
      BY <1>7, <1>9, <2>3 DEF HoldingPage
    <3>5. /\ sessions'[d].status # "pending"
          /\ sessions'[d].status = "approved" => NoDecision \notin told'[d]
      BY <1>5, <1>6, <3>1
    <3> QED
      BY <1>4, <1>8, <2>2, <2>3, <3>1, <3>2, <3>3, <3>4, <3>5
      DEF Unraced, HoldingPoll, HoldingPage
  <2>4. CASE x # d
    BY <1>1, <1>4, <1>6, <1>7, <1>8, <2>1, <2>2, <2>4 DEF Unraced, HoldingPoll, HoldingPage
  <2> QED
    BY <2>3, <2>4
<1> QED
  BY <1>10, <1>11, <1>12 DEF SessionInv
--------------------------------------------------------------------------------
(* The invariant and what follows from it.                                  *)

\* At the start there is neither a session nor a call.
LEMMA InitInv == Init => SessionInv
<1> SUFFICES ASSUME Init PROVE SessionInv
  OBVIOUS
<1>1. TypeOK
  BY IdleType DEF Init, TypeOK
<1>2. CallInv
  BY DEF Init, CallInv, PollIdle, PageIdle
<1> QED
  BY <1>1, <1>2 DEF Init, SessionInv

\* Every step keeps the invariant, action by action.
LEMMA StepInv == SessionInv /\ [Next]_vars => SessionInv'
<1> SUFFICES ASSUME SessionInv, [Next]_vars PROVE SessionInv'
  OBVIOUS
<1>1. now \in 0 .. MaxTime
  BY DEF SessionInv, TypeOK
<1>2. ASSUME NEW d \in Devices, Open(d) PROVE SessionInv'
  BY <1>2, OpenKeeps
<1>3. ASSUME NEW p \in Polls, Polling(p) PROVE SessionInv'
  <2>1. ASSUME NEW d \in Devices, PollLoad(p, d) PROVE SessionInv'
    BY <1>1, <2>1, LoadLooks, LookedKeeps
  <2>1a. ASSUME NEW d \in Devices, PollRefused(p, d) PROVE SessionInv'
    BY <1>1, <2>1a, RefusalLooks, LookedKeeps
  <2>2. CASE PollDelete(p)
    BY <2>2, DeleteDrops, DroppedKeeps
  <2>3. CASE PollSave(p)
    BY <2>3, SaveKeeps
  <2>4. CASE PollConsume(p)
    BY <2>4, ConsumeKeeps
  <2>5. ASSUME NEW t \in TokenIds, PollIssue(p, t) PROVE SessionInv'
    BY <2>5, IssueKeeps
  <2>6. CASE AbortPoll(p)
    BY <2>6, AbortLooks, LookedKeeps
  <2> QED
    BY <1>3, <2>1, <2>1a, <2>2, <2>3, <2>4, <2>5, <2>6 DEF Polling
<1>4. ASSUME NEW k \in Pages, Deciding(k) PROVE SessionInv'
  <2>1. ASSUME NEW d \in Devices, NEW e \in Decisions,
               DecideExpired(k, d, e) \/ DecidePending(k, d, e)
        PROVE  SessionInv'
    BY <1>1, <2>1, VisitLooks, LookedKeeps
  <2>2. CASE DecideDelete(k)
    BY <2>2, DeleteDrops, DroppedKeeps
  <2>3. CASE DecideApply(k)
    BY <2>3, ApplyKeeps
  <2>4. CASE AbortPage(k)
    BY <2>4, AbortLooks, LookedKeeps
  <2> QED
    BY <1>4, <2>1, <2>2, <2>3, <2>4 DEF Deciding
<1>5. CASE Tick
  BY <1>5, AbortLooks, LookedKeeps
<1>6. CASE UNCHANGED vars
  <2>1. Looked /\ now' \in 0 .. MaxTime
    BY <1>1, <1>6 DEF vars, Looked, SessionInv, TypeOK
  <2> QED
    BY <2>1, LookedKeeps
<1> QED
  BY <1>2, <1>3, <1>4, <1>5, <1>6 DEF Next

\* The strengthening of the two properties below is an invariant of the store, the
\* polls and the decision pages together.
THEOREM SessionInvariant == Spec => []SessionInv
BY InitInv, StepInv, PTL DEF Spec

\* The tokens of a device are those of a user who approved that device and was told
\* so, and a refused device gets none unless calls raced on its session.
THEOREM DecisionFollowed == Spec => []TokensFollowDecision
<1>1. SessionInv => TokensFollowDecision
  <2> SUFFICES ASSUME SessionInv, NEW t \in DOMAIN tokens
               PROVE  LET d == tokens[t].dev IN
                      /\ Approval(tokens[t].subject) \in told[d]
                      /\ NoDecision \in told[d] => d \in raced
    BY DEF TokensFollowDecision, Approval
  <2> DEFINE d == tokens[t].dev
  <2>1. d \in opened /\ Approval(tokens[t].subject) \in told[d]
    BY DEF SessionInv, CallInv
  <2>2. t \in Answers(d)
    BY DEF Answers
  <2>3. d \notin raced => NoDecision \notin told[d]
    BY <2>1, <2>2 DEF SessionInv, Unraced
  <2> QED
    BY <2>1, <2>3
<1> QED
  BY <1>1, SessionInvariant, PTL

--------------------------------------------------------------------------------
(* A device session is a single-use grant.                                  *)

\* The store starts with no grant.
LEMMA InitAbstract == Init => Abstract!Init
BY DEF Init, Abstract!Init, Phase, Answers

\* A step that neither answers a poll nor changes a phase is a stutter.
LEMMA Stutters ==
  ASSUME \A d \in Devices : Phase(d)' = Phase(d), tokens' = tokens
  PROVE  UNCHANGED Abstract!vars
<1>1. \A d \in Devices : Answers(d)' = Answers(d)
  BY DEF Answers
<1> QED
  BY <1>1 DEF Abstract!vars

\* A step that changes the phase of one item, and answers no poll, is that move.
LEMMA Moves ==
  ASSUME NEW d \in Devices, tokens' = tokens,
         \A e \in Devices : e # d => Phase(e)' = Phase(e),
         \/ Phase(d)' = Phase(d)
         \/ Phase(d) = "none" /\ Phase(d)' = "live"
         \/ Phase(d) = "live" /\ Phase(d)' \in {"spent", "raced"}
  PROVE  [Abstract!Next]_(Abstract!vars)
<1>1. \A e \in Devices : Answers(e)' = Answers(e)
  BY DEF Answers
<1>2. [e \in Devices |-> Answers(e)]' = [e \in Devices |-> Answers(e)]
  BY <1>1
<1>3. [e \in Devices |-> Phase(e)]' = [[e \in Devices |-> Phase(e)] EXCEPT ![d] = Phase(d)']
  OBVIOUS
<1>4. CASE Phase(d)' = Phase(d)
  BY <1>4, Stutters
<1>5. CASE Phase(d) = "none" /\ Phase(d)' = "live"
  <2>1. Abstract!Move(d, "none", "live")
    BY <1>2, <1>3, <1>5 DEF Abstract!Move
  <2> QED
    BY <2>1 DEF Abstract!Next
<1>6. CASE Phase(d) = "live" /\ Phase(d)' = "spent"
  <2>1. Abstract!Move(d, "live", "spent")
    BY <1>2, <1>3, <1>6 DEF Abstract!Move
  <2> QED
    BY <2>1 DEF Abstract!Next
<1>7. CASE Phase(d) = "live" /\ Phase(d)' = "raced"
  <2>1. Abstract!Move(d, "live", "raced")
    BY <1>2, <1>3, <1>7 DEF Abstract!Move
  <2> QED
    BY <2>1 DEF Abstract!Next
<1> QED
  BY <1>4, <1>5, <1>6, <1>7
\* A race can only be noted for a session that is still there.
LEMMA RacedLive ==
  ASSUME SessionInv, NEW d \in opened, NEW p, NEW k, Race(d, p, k)
  PROVE  d \in raced' => d \in raced \/ d \in DOMAIN sessions
<1> SUFFICES ASSUME d \in raced', d \notin raced
             PROVE  d \in DOMAIN sessions
  OBVIOUS
<1>1. Unraced(d)
  BY DEF SessionInv
<1>2. (\E q \in Polls : HoldingPoll(d, q)) \/ (\E q \in Pages : HoldingPage(d, q))
  BY DEF Race
<1> QED
  BY <1>1, <1>2 DEF Unraced

\* Removing a row, by whichever call, spends the session or notes a race on it.
LEMMA RemovalMoves ==
  ASSUME SessionInv, NEW d \in opened, NEW p, NEW k, Race(d, p, k),
         DOMAIN sessions' = DOMAIN sessions \ {d}, opened' = opened, tokens' = tokens
  PROVE  [Abstract!Next]_(Abstract!vars)
<1>1. d \in Devices
  BY DEF SessionInv, TypeOK
<1>2. raced \subseteq raced' /\ raced' \subseteq raced \cup {d}
  BY RaceNoted
<1>3. d \in raced' => d \in raced \/ d \in DOMAIN sessions
  BY RacedLive
<1>4. \A e \in Devices : e # d => Phase(e)' = Phase(e)
  BY <1>2 DEF Phase
<1>5. \/ Phase(d)' = Phase(d)
      \/ Phase(d) = "live" /\ Phase(d)' \in {"spent", "raced"}
  BY <1>2, <1>3 DEF Phase
<1> QED
  BY <1>1, <1>4, <1>5, Moves

\* A token answer is the one answer of a spent session, or one of a raced session.
LEMMA IssueAnswers ==
  ASSUME SessionInv, NEW p \in Polls, NEW t \in TokenIds, PollIssue(p, t)
  PROVE  Abstract!Next
<1>1. PICK d \in opened : d = poll[p].dev
  BY DEF SessionInv, CallInv, PollIssue
<1>2. d \in Devices
  BY DEF SessionInv, TypeOK
<1>3. Phase(d) = "raced" \/ (Phase(d) = "spent" /\ Answers(d) = {})
  <2>1. CASE d \in raced
    BY <2>1 DEF Phase
  <2>2. CASE d \notin raced
    <3>1. Unraced(d)
      BY <2>2 DEF SessionInv
    <3>2. d \notin DOMAIN sessions /\ Answers(d) = {}
      BY <1>1, <3>1 DEF Unraced, PollIssue
    <3> QED
      BY <2>2, <3>2 DEF Phase
  <2> QED
    BY <2>1, <2>2
<1>4. /\ DOMAIN tokens' = DOMAIN tokens \cup {t} /\ tokens'[t].dev = d
      /\ t \notin DOMAIN tokens /\ \A s \in DOMAIN tokens : tokens'[s] = tokens[s]
  <2>1. /\ tokens' = Put(tokens, t, [dev |-> d, subject |-> poll[p].row.subject])
        /\ t \notin DOMAIN tokens
    BY <1>1 DEF PollIssue
  <2> QED
    BY <2>1 DEF Put
<1>5. Answers(d)' = Answers(d) \cup {t}
  BY <1>4 DEF Answers
<1>6. \A e \in Devices : e # d => Answers(e)' = Answers(e)
  BY <1>4 DEF Answers
<1>7. [e \in Devices |-> Answers(e)]'
        = [[e \in Devices |-> Answers(e)] EXCEPT ![d] = @ \cup {t}]
  BY <1>2, <1>5, <1>6
<1>8. \A e \in Devices : Phase(e)' = Phase(e)
  BY DEF Phase, PollIssue
<1>9. [e \in Devices |-> Phase(e)]' = [e \in Devices |-> Phase(e)]
  BY <1>8
<1>10. Abstract!Answer(d, t)
  BY <1>2, <1>3, <1>7, <1>9 DEF Abstract!Answer
<1> QED
  BY <1>2, <1>10 DEF Abstract!Next

\* Every step is a step of the single-use grant, or none.
LEMMA StepAbstract == SessionInv /\ [Next]_vars => [Abstract!Next]_(Abstract!vars)
<1> SUFFICES ASSUME SessionInv, [Next]_vars PROVE [Abstract!Next]_(Abstract!vars)
  OBVIOUS
<1>0. TypeOK /\ opened \subseteq Devices
  BY DEF SessionInv, TypeOK
<1>1. ASSUME Looked PROVE [Abstract!Next]_(Abstract!vars)
  <2>1. (\A d \in Devices : Phase(d)' = Phase(d)) /\ tokens' = tokens
    BY <1>1 DEF Looked, Phase
  <2> QED
    BY <2>1, Stutters
<1>2. ASSUME NEW d \in Devices, Open(d) PROVE [Abstract!Next]_(Abstract!vars)
  <2>1. DOMAIN sessions' = DOMAIN sessions \cup {d}
    BY <1>2 DEF Open, Put
  <2>2. \A e \in Devices : e # d => Phase(e)' = Phase(e)
    BY <1>2, <2>1 DEF Open, Phase
  <2>3. Phase(d) = "none" /\ Phase(d)' = "live"
    BY <1>0, <1>2, <2>1 DEF Open, Phase, TypeOK
  <2>4. tokens' = tokens
    BY <1>2 DEF Open
  <2> QED
    BY <2>2, <2>3, <2>4, Moves
<1>3. ASSUME NEW p \in Polls, Polling(p) PROVE [Abstract!Next]_(Abstract!vars)
  <2>1. ASSUME NEW d \in Devices, PollLoad(p, d) PROVE [Abstract!Next]_(Abstract!vars)
    BY <1>1, <2>1, LoadLooks
  <2>1a. ASSUME NEW d \in Devices, PollRefused(p, d) PROVE [Abstract!Next]_(Abstract!vars)
    BY <1>1, <2>1a, RefusalLooks
  <2>2. CASE PollDelete(p) \/ PollConsume(p)
    <3>1. PICK d \in opened : d = poll[p].dev
      BY <2>2 DEF SessionInv, CallInv, PollDelete, PollConsume
    <3>2. Race(d, p, NoDevice) /\ sessions' = Remove(sessions, d)
          /\ opened' = opened /\ tokens' = tokens
      BY <2>2, <3>1 DEF PollDelete, PollConsume
    <3>3. DOMAIN sessions' = DOMAIN sessions \ {d}
      BY <3>2 DEF Remove
    <3> QED
      BY <3>2, <3>3, RemovalMoves
  <2>3. CASE PollSave(p)
    <3>1. PICK d \in opened : d = poll[p].dev
      BY <2>3 DEF SessionInv, CallInv, PollSave
    <3>2. d \in raced \/ d \in DOMAIN sessions
      BY <2>3, <3>1 DEF SessionInv, Unraced, HoldingPoll, PollSave
    <3>3. DOMAIN sessions' = DOMAIN sessions \cup {d}
      BY <2>3, <3>1 DEF PollSave, Put
    <3>4. /\ \A e \in Devices : Phase(e)' = Phase(e)
          /\ tokens' = tokens
      BY <2>3, <3>2, <3>3 DEF PollSave, Phase
    <3> QED
      BY <3>4, Stutters
  <2>4. ASSUME NEW t \in TokenIds, PollIssue(p, t) PROVE [Abstract!Next]_(Abstract!vars)
    BY <2>4, IssueAnswers
  <2>5. CASE AbortPoll(p)
    BY <1>1, <2>5, AbortLooks
  <2> QED
    BY <1>3, <2>1, <2>1a, <2>2, <2>3, <2>4, <2>5 DEF Polling
<1>4. ASSUME NEW k \in Pages, Deciding(k) PROVE [Abstract!Next]_(Abstract!vars)
  <2>1. ASSUME NEW d \in Devices, NEW e \in Decisions,
               DecideExpired(k, d, e) \/ DecidePending(k, d, e)
        PROVE  [Abstract!Next]_(Abstract!vars)
    BY <1>1, <2>1, VisitLooks
  <2>2. CASE DecideDelete(k)
    <3>1. PICK d \in opened : d = page[k].dev
      BY <2>2 DEF SessionInv, CallInv, DecideDelete
    <3>2. Race(d, NoDevice, k) /\ sessions' = Remove(sessions, d)
          /\ opened' = opened /\ tokens' = tokens
      BY <2>2, <3>1 DEF DecideDelete
    <3>3. DOMAIN sessions' = DOMAIN sessions \ {d}
      BY <3>2 DEF Remove
    <3> QED
      BY <3>2, <3>3, RemovalMoves
  <2>3. CASE DecideApply(k)
    <3>1. PICK d \in opened : d = page[k].dev
      BY <2>3 DEF SessionInv, CallInv, DecideApply
    <3>2. Race(d, NoDevice, k) /\ DOMAIN sessions' = DOMAIN sessions
          /\ opened' = opened /\ tokens' = tokens
      BY <2>3, <3>1 DEF DecideApply
    <3>3. /\ raced \subseteq raced' /\ raced' \subseteq raced \cup {d}
          /\ d \in raced' => d \in raced \/ d \in DOMAIN sessions
      BY <3>2, RaceNoted, RacedLive
    <3>4. /\ \A e \in Devices : e # d => Phase(e)' = Phase(e)
          /\ \/ Phase(d)' = Phase(d)
             \/ Phase(d) = "live" /\ Phase(d)' \in {"spent", "raced"}
      BY <3>2, <3>3 DEF Phase
    <3> QED
      BY <1>0, <3>2, <3>4, Moves
  <2>4. CASE AbortPage(k)
    BY <1>1, <2>4, AbortLooks
  <2> QED
    BY <1>4, <2>1, <2>2, <2>3, <2>4 DEF Deciding
<1>5. CASE Tick
  BY <1>1, <1>5, AbortLooks
<1>6. CASE UNCHANGED vars
  <2>1. Looked
    BY <1>0, <1>6 DEF vars, Looked, TypeOK
  <2> QED
    BY <1>1, <2>1
<1> QED
  BY <1>2, <1>3, <1>4, <1>5, <1>6 DEF Next

\* The store of device sessions, with polls and decisions that interleave and write
\* whole rows back, implements the single-use grant.
THEOREM SessionRefines == Spec => SessionSingleUse
BY InitAbstract, StepAbstract, SessionInvariant, PTL
DEF Spec, SessionSingleUse, Abstract!Spec
================================================================================
