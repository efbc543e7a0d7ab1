------------------------------ MODULE DeviceGrant ------------------------------
(***************************************************************************)
(* The Device Authorization Grant (RFC 8628): /device_authorization opens  *)
(* a session, a user decides on the verification page, and the device      *)
(* polls /token until the session is consumed.  The session store has no   *)
(* conditional write: a poll saves the whole row it loaded, so it may      *)
(* write over a decision, or bring back a row, that it has not seen.       *)
(*                                                                         *)
(* A poll and a decision are slots with a program counter; the load and    *)
(* its checks are one step, the store call they lead to another.  A poll   *)
(* that finds no session, or a refused one, is answered at once; a         *)
(* decision that finds no pending session changes nothing and is not       *)
(* modelled.                                                               *)
(***************************************************************************)
EXTENDS Integers

CONSTANTS
  Devices, NoDevice, \* device codes (random, never reused)
  Users, NoUser,     \* subjects; the empty subject
  Polls,             \* slots for polls in progress
  Pages,             \* slots for decisions in progress
  TokenIds,          \* token answers
  Ttl, Interval,     \* lifetime of a session, initial polling interval
  MaxTime            \* bound on the clock

ASSUME NameAssumption ==
  NoUser \notin Users /\ NoDevice \notin Devices \cup Polls \cup Pages
ASSUME LimitAssumption == Ttl \in Nat /\ Interval \in Nat /\ MaxTime \in Nat

VARIABLES
  now,
  sessions,    \* the store: device code -> row
  opened,      \* device codes handed out so far
  poll, page,  \* the calls in progress
  told,        \* history: device code -> the decisions users were told are applied
  tokens,      \* history: token answer -> its device code and subject
  answered,    \* history: devices told that their session is over
  raced        \* history: sessions decided or removed while a call held a copy

vars == <<now, sessions, opened, poll, page, told, tokens, answered, raced>>

--------------------------------------------------------------------------------
(* Rows and slots.                                                          *)

Statuses == {"pending", "approved", "denied"}

\* Every interval beyond the last instant refuses the same polls.
Intervals == 0 .. MaxTime + 1
Capped(i) == IF i > MaxTime + 1 THEN MaxTime + 1 ELSE i
Never == -1

Row == [status : Statuses, subject : Users \cup {NoUser}, expires : Nat,
        interval : Intervals, polled : Nat \cup {Never}]

NoRow == [status |-> "pending", subject |-> NoUser, expires |-> 0, interval |-> 0,
          polled |-> Never]

Decision == [status : {"approved", "denied"}, subject : Users \cup {NoUser}]

Poll == [pc : {"idle", "delete", "consume", "save", "issue"},
         dev : Devices \cup {NoDevice}, row : Row]
PollIdle == [pc |-> "idle", dev |-> NoDevice, row |-> NoRow]

NoDecision == [status |-> "denied", subject |-> NoUser]
Page == [pc : {"idle", "delete", "apply"}, dev : Devices \cup {NoDevice}, decision : Decision]
PageIdle == [pc |-> "idle", dev |-> NoDevice, decision |-> NoDecision]

Put(f, k, v) == [x \in DOMAIN f \cup {k} |-> IF x = k THEN v ELSE f[x]]
Remove(f, k) == [x \in DOMAIN f \ {k} |-> f[x]]

Init ==
  /\ now = 0
  /\ sessions = [d \in {} |-> NoRow]
  /\ opened = {}
  /\ poll = [p \in Polls |-> PollIdle]
  /\ page = [k \in Pages |-> PageIdle]
  /\ told = [d \in Devices |-> {}]
  /\ tokens = [t \in {} |-> {}]
  /\ answered = {}
  /\ raced = {}

Expired(row) == row.expires < now

\* The calls whose next step depends on a copy of d's row.
HoldingPoll(d, p) == poll[p].dev = d /\ poll[p].pc \in {"save", "consume"}
HoldingPage(d, k) == page[k].dev = d /\ page[k].pc = "apply"

\* d is decided or removed by poll p or page k, under the eyes of another call.
Race(d, p, k) ==
  raced' = IF \/ \E q \in Polls \ {p} : HoldingPoll(d, q)
              \/ \E q \in Pages \ {k} : HoldingPage(d, q)
           THEN raced \cup {d} ELSE raced

--------------------------------------------------------------------------------
(* Opening a session: DeviceAuthorizationUseCase.execute.                   *)

Open(d) ==
  /\ d \notin opened
  /\ now + Ttl < MaxTime   \* bound: the session can expire within the run
  /\ opened' = opened \cup {d}
  /\ sessions' = Put(sessions, d, [NoRow EXCEPT !.expires = now + Ttl,
                                                !.interval = Capped(Interval)])
  /\ UNCHANGED <<now, poll, page, told, tokens, answered, raced>>

--------------------------------------------------------------------------------
(* Polling: _device_code.                                                   *)

Load(p, d, pc) ==
  /\ poll[p].pc = "idle" /\ d \in DOMAIN sessions
  /\ poll' = [poll EXCEPT ![p] = [pc |-> pc, dev |-> d, row |-> sessions[d]]]
  /\ UNCHANGED <<now, sessions, opened, page, told, tokens, answered, raced>>

PollExpired(p, d) == Load(p, d, "delete") /\ Expired(sessions[d])

\* Faulty variant: every unexpired session goes down the approved path.
PollAnyStatus(p, d) == Load(p, d, "consume") /\ ~Expired(sessions[d])

PollApproved(p, d) ==
  /\ Load(p, d, "consume")
  /\ ~Expired(sessions[d]) /\ sessions[d].status = "approved"

\* Faulty variant: the expiry of a pending session is not looked at.
PollForgetsExpiry(p, d) == Load(p, d, "save") /\ sessions[d].status = "pending"

PollPending(p, d) ==
  /\ Load(p, d, "save")
  /\ ~Expired(sessions[d]) /\ sessions[d].status = "pending"

\* invalid_grant when there is no session, access_denied when a user refused it:
\* the device is told so, and the store is left as it is.
PollRefused(p, d) ==
  /\ poll[p].pc = "idle" /\ d \in opened
  /\ d \in DOMAIN sessions => ~Expired(sessions[d]) /\ sessions[d].status = "denied"
  /\ answered' = answered \cup {d}
  /\ UNCHANGED <<now, sessions, opened, poll, page, told, tokens, raced>>

\* expired_token: the session is over, and so is the poll.
PollDelete(p) ==
  /\ poll[p].pc = "delete"
  /\ sessions' = Remove(sessions, poll[p].dev)
  /\ Race(poll[p].dev, p, NoDevice)
  /\ answered' = answered \cup {poll[p].dev}
  /\ poll' = [poll EXCEPT ![p] = PollIdle]
  /\ UNCHANGED <<now, opened, page, told, tokens>>

\* _device_pending_response: a poll that comes too fast lengthens the interval.
SlowDown(row) ==
  IF row.polled # Never /\ now - row.polled < row.interval
  THEN [row EXCEPT !.polled = now, !.interval = Capped(@ + 5)]
  ELSE [row EXCEPT !.polled = now]

\* The full-row upsert of the copy the load returned.
PollSave(p) ==
  /\ poll[p].pc = "save"
  /\ sessions' = Put(sessions, poll[p].dev, SlowDown(poll[p].row))
  /\ poll' = [poll EXCEPT ![p] = PollIdle]
  /\ UNCHANGED <<now, opened, page, told, tokens, answered, raced>>

\* Faulty variant: the session is not removed before its tokens are issued.
ConsumeForgotten(p) ==
  /\ poll[p].pc = "consume"
  /\ Race(poll[p].dev, p, NoDevice)
  /\ poll' = [poll EXCEPT ![p].pc = "issue"]
  /\ UNCHANGED <<now, sessions, opened, page, told, tokens, answered>>

\* _device_approved_flow: the session is deleted, then the tokens are issued.
PollConsume(p) ==
  /\ poll[p].pc = "consume"
  /\ sessions' = Remove(sessions, poll[p].dev)
  /\ Race(poll[p].dev, p, NoDevice)
  /\ poll' = [poll EXCEPT ![p].pc = "issue"]
  /\ UNCHANGED <<now, opened, page, told, tokens, answered>>

PollIssue(p, t) ==
  /\ poll[p].pc = "issue"
  /\ t \notin DOMAIN tokens
  /\ tokens' = Put(tokens, t, [dev |-> poll[p].dev, subject |-> poll[p].row.subject])
  /\ answered' = answered \cup {poll[p].dev}
  /\ poll' = [poll EXCEPT ![p] = PollIdle]
  /\ UNCHANGED <<now, sessions, opened, page, told, raced>>

--------------------------------------------------------------------------------
(* Deciding: _decide, called by approve (a subject) and deny (none).        *)

Visit(k, d, pc, decision) ==
  /\ page[k].pc = "idle" /\ d \in DOMAIN sessions
  /\ page' = [page EXCEPT ![k] = [pc |-> pc, dev |-> d, decision |-> decision]]
  /\ UNCHANGED <<now, sessions, opened, poll, told, tokens, answered, raced>>

Decisions ==
  {[status |-> "approved", subject |-> u] : u \in Users} \cup {NoDecision}

DecideExpired(k, d, decision) ==
  Visit(k, d, "delete", decision) /\ Expired(sessions[d])

DecidePending(k, d, decision) ==
  /\ Visit(k, d, "apply", decision)
  /\ ~Expired(sessions[d]) /\ sessions[d].status = "pending"

DecideDelete(k) ==
  /\ page[k].pc = "delete"
  /\ sessions' = Remove(sessions, page[k].dev)
  /\ Race(page[k].dev, NoDevice, k)
  /\ page' = [page EXCEPT ![k] = PageIdle]
  /\ UNCHANGED <<now, opened, poll, told, tokens, answered>>

\* approve and deny of the store: a refusal leaves the subject alone.
Decided(row, decision) ==
  IF decision.status = "approved"
  THEN [row EXCEPT !.status = "approved", !.subject = decision.subject]
  ELSE [row EXCEPT !.status = "denied"]

\* The user is told of success even when the session is gone by now.
DecideApply(k) ==
  LET d == page[k].dev IN
  /\ page[k].pc = "apply"
  /\ sessions' = IF d \in DOMAIN sessions
                 THEN [sessions EXCEPT ![d] = Decided(@, page[k].decision)]
                 ELSE sessions
  /\ Race(d, NoDevice, k)
  /\ told' = [told EXCEPT ![d] = @ \cup {page[k].decision}]
  /\ page' = [page EXCEPT ![k] = PageIdle]
  /\ UNCHANGED <<now, opened, poll, tokens, answered>>

--------------------------------------------------------------------------------
(* The environment: calls that end half-way, and the clock.                 *)

AbortPoll(p) ==
  /\ poll[p].pc # "idle"
  /\ poll' = [poll EXCEPT ![p] = PollIdle]
  /\ UNCHANGED <<now, sessions, opened, page, told, tokens, answered, raced>>

AbortPage(k) ==
  /\ page[k].pc # "idle"
  /\ page' = [page EXCEPT ![k] = PageIdle]
  /\ UNCHANGED <<now, sessions, opened, poll, told, tokens, answered, raced>>

Tick ==
  /\ now < MaxTime
  /\ now' = now + 1
  /\ UNCHANGED <<sessions, opened, poll, page, told, tokens, answered, raced>>

PollLoad(p, d) == PollExpired(p, d) \/ PollApproved(p, d) \/ PollPending(p, d)

Polling(p) ==
  \/ \E d \in Devices : PollLoad(p, d) \/ PollRefused(p, d)
  \/ PollDelete(p) \/ PollSave(p) \/ PollConsume(p)
  \/ \E t \in TokenIds : PollIssue(p, t)
  \/ AbortPoll(p)

Deciding(k) ==
  \/ \E d \in Devices, decision \in Decisions :
       DecideExpired(k, d, decision) \/ DecidePending(k, d, decision)
  \/ DecideDelete(k) \/ DecideApply(k)
  \/ AbortPage(k)

Next ==
  \/ \E d \in Devices : Open(d)
  \/ \E p \in Polls : Polling(p)
  \/ \E k \in Pages : Deciding(k)
  \/ Tick

\* A device polls until it is told that its session is over, and no longer (RFC
\* 8628 sections 3.4 and 3.5).
PollAgain(d) ==
  d \notin answered /\ \E p \in Polls : PollLoad(p, d) \/ PollRefused(p, d)

\* Time passes, devices poll, and their calls are not interrupted for ever.
Fairness ==
  /\ WF_vars(Tick)
  /\ \A d \in Devices : SF_vars(PollAgain(d))
  /\ \A p \in Polls : SF_vars(PollDelete(p)) /\ WF_vars(PollSave(p) \/ PollConsume(p) \/ AbortPoll(p))

Spec == Init /\ [][Next]_vars /\ Fairness

--------------------------------------------------------------------------------
(* Properties.                                                              *)

TypeOK ==
  /\ now \in 0 .. MaxTime
  /\ DOMAIN sessions \subseteq opened
  /\ \A d \in DOMAIN sessions : sessions[d] \in Row
  /\ opened \subseteq Devices
  /\ poll \in [Polls -> Poll]
  /\ page \in [Pages -> Page]
  /\ told \in [Devices -> SUBSET Decision]
  /\ DOMAIN tokens \subseteq TokenIds
  /\ \A t \in DOMAIN tokens : tokens[t] \in [dev : Devices, subject : Users]
  /\ answered \subseteq opened
  /\ raced \subseteq opened

\* The tokens of a device are those of a user who approved that very device and
\* was told so (the subject goes from _decide through the row, possibly a copy
\* of it, to _issue_tokens); and unless calls raced on the session, a device
\* somebody refused never gets any.
TokensFollowDecision ==
  \A t \in DOMAIN tokens :
    LET d == tokens[t].dev IN
    /\ [status |-> "approved", subject |-> tokens[t].subject] \in told[d]
    /\ NoDecision \in told[d] => d \in raced

Answers(d) == {t \in DOMAIN tokens : tokens[t].dev = d}

Phase(d) ==
  IF d \notin opened THEN "none"
  ELSE IF d \in raced THEN "raced"
  ELSE IF d \in DOMAIN sessions THEN "live"
  ELSE "spent"

Abstract == INSTANCE SingleUseGrant WITH
  Items <- Devices, Tokens <- TokenIds,
  phase <- [d \in Devices |-> Phase(d)],
  out <- [d \in Devices |-> Answers(d)]

\* A device session is a single-use grant: unless calls race on it, it never
\* comes back once it is consumed or has expired, and one poll is answered with
\* tokens.
SessionSingleUse == Abstract!Spec

\* A session is over for the server when its device stops asking: a row that is
\* still there then was refused by a user, or put back by a call that had raced.
Settled(d) ==
  /\ d \in answered
  /\ d \in DOMAIN sessions => sessions[d].status = "denied" \/ d \in raced

\* Whatever polls and decisions overlap, and however often a late full-row save
\* brings a session back, a device that polls is not told authorization_pending or
\* slow_down for ever (_load_device_session, _device_pending_response); and since
\* no job purges the store, the last answer must have removed the row, a refused
\* one apart.
SessionsSettled == \A d \in Devices : d \in opened ~> []Settled(d)

--------------------------------------------------------------------------------
(* The inductive strengthening of TokensFollowDecision and SessionSingleUse. *)

Approval(u) == [status |-> "approved", subject |-> u]

\* What the calls under way, and the rows, have in common whether or not there
\* was a race: an approval that a row or a copy of it carries was told to its user.
CallInv ==
  /\ \A p \in Polls : poll[p].pc # "idle" => poll[p].dev \in opened
  /\ \A p \in Polls : poll[p].pc = "save" => poll[p].row.status = "pending"
  /\ \A p \in Polls : poll[p].pc \in {"consume", "issue"} =>
       Approval(poll[p].row.subject) \in told[poll[p].dev]
  /\ \A k \in Pages : page[k].pc # "idle" =>
       page[k].dev \in opened /\ page[k].decision \in Decisions
  /\ \A d \in Devices : told[d] \subseteq Decisions
  /\ \A d \in Devices \ opened : told[d] = {}
  /\ \A d \in DOMAIN sessions : sessions[d].status = "approved" =>
       Approval(sessions[d].subject) \in told[d]
  /\ \A t \in DOMAIN tokens : tokens[t].dev \in opened
                              /\ Approval(tokens[t].subject) \in told[tokens[t].dev]

\* Unless calls raced on it, the copies of a session agree with the session, the
\* session agrees with what users were told, and one poll at most has consumed it.
Unraced(d) ==
  /\ d \in DOMAIN sessions =>
       /\ sessions[d].status = "pending" => told[d] = {}
       /\ sessions[d].status = "approved" => NoDecision \notin told[d]
  /\ \A p \in Polls : HoldingPoll(d, p) =>
       /\ d \in DOMAIN sessions
       /\ sessions[d].status = IF poll[p].pc = "save" THEN "pending" ELSE "approved"
  /\ \A k \in Pages : HoldingPage(d, k) =>
       d \in DOMAIN sessions /\ sessions[d].status = "pending"
  /\ \A p \in Polls : poll[p].dev = d /\ poll[p].pc = "issue" =>
       /\ d \notin DOMAIN sessions /\ Answers(d) = {} /\ NoDecision \notin told[d]
       /\ \A q \in Polls : poll[q].dev = d /\ poll[q].pc = "issue" => q = p
  /\ Answers(d) # {} => d \notin DOMAIN sessions /\ NoDecision \notin told[d]

SessionInv == TypeOK /\ CallInv /\ \A d \in opened \ raced : Unraced(d)
================================================================================
