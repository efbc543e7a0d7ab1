--------------------------------- MODULE Ciba ----------------------------------
(***************************************************************************)
(* Client-Initiated Backchannel Authentication: /bc-authorize accepts a    *)
(* request, /ciba/approve decides on it and notifies the client, and a     *)
(* client in poll or ping mode collects its tokens at /token.  A client in *)
(* push mode gets them in the notification.                                *)
(*                                                                         *)
(* The store is used like the one of the device grant: a poll saves the    *)
(* whole row it loaded.  A decision does not look at the expiry, and goes  *)
(* on, after it is applied, with the copy it loaded before.  A call that   *)
(* is refused changes nothing and is not modelled.                         *)
(***************************************************************************)
EXTENDS BackchannelRequest

CONSTANTS
  Ids, NoId,       \* auth_req_ids (random, never reused)
  Demands,         \* the requests clients make to /bc-authorize
  Polls,           \* slots for polls in progress
  Approvals,       \* slots for decisions in progress
  TokenIds, NoToken,
  Interval,        \* initial polling interval
  MaxTime          \* bound on the clock

ASSUME NameAssumption ==
  NoId \notin Ids /\ NoToken \notin TokenIds /\ Polls \cap Approvals = {}
ASSUME LimitAssumption == Interval \in Nat /\ MaxTime \in Nat

\* requested_expiry is read as a number, or refused, before anything else is made of it.
ASSUME DemandAssumption == \A d \in Demands : Merged(d).requested_expiry \in Int

VARIABLES
  now,
  requests,       \* the store: auth_req_id -> row
  accepted,       \* auth_req_ids handed out so far
  poll, approval, \* the calls in progress
  decided,        \* history: auth_req_id -> the decisions applied to it
  notified,       \* history: auth_req_id -> notifications sent, counted up to 2
  tokens,         \* history: token answer -> its auth_req_id
  delivered,      \* history: the token answers that reached the client
  raced           \* history: requests decided or removed while a call held a copy

vars == <<now, requests, accepted, poll, approval, decided, notified, tokens, delivered, raced>>

--------------------------------------------------------------------------------
(* Rows and slots.                                                          *)

\* Every interval beyond the last instant refuses the same polls.
Capped(i) == IF i > MaxTime + 1 THEN MaxTime + 1 ELSE i
Never == -1

Row == [status : {"pending", "approved", "denied"}, mode : {"poll", "ping", "push"},
        expires : Nat, interval : 0 .. MaxTime + 1, polled : Nat \cup {Never}]
NoRow == [status |-> "pending", mode |-> "poll", expires |-> 0, interval |-> 0, polled |-> Never]

Poll == [pc : {"idle", "delete", "consume", "save", "issue"}, id : Ids \cup {NoId}, row : Row]
PollIdle == [pc |-> "idle", id |-> NoId, row |-> NoRow]

\* retried: issue_ciba_push_tokens failed once.  tok: the answer to be pushed.
Approval == [pc : {"idle", "apply", "push_consume", "push_issue", "notify"},
             id : Ids \cup {NoId}, mode : {"poll", "ping", "push"},
             status : {"approved", "denied"}, retried : BOOLEAN, tok : TokenIds \cup {NoToken}]
ApprovalIdle == [pc |-> "idle", id |-> NoId, mode |-> "poll", status |-> "denied",
                 retried |-> FALSE, tok |-> NoToken]

Put(f, k, v) == [x \in DOMAIN f \cup {k} |-> IF x = k THEN v ELSE f[x]]
Remove(f, k) == [x \in DOMAIN f \ {k} |-> f[x]]

Init ==
  /\ now = 0
  /\ requests = [i \in {} |-> NoRow]
  /\ accepted = {}
  /\ poll = [p \in Polls |-> PollIdle]
  /\ approval = [k \in Approvals |-> ApprovalIdle]
  /\ decided = [i \in Ids |-> {}]
  /\ notified = [i \in Ids |-> 0]
  /\ tokens = [t \in {} |-> NoId]
  /\ delivered = {}
  /\ raced = {}

Expired(row) == row.expires < now

\* i is decided or removed by call c, while another call holds a copy of its row.
Race(i, c) ==
  raced' = IF \/ \E q \in Polls \ {c} : poll[q].id = i /\ poll[q].pc \in {"save", "consume"}
              \/ \E q \in Approvals \ {c} : approval[q].id = i /\ approval[q].pc = "apply"
           THEN raced \cup {i} ELSE raced

--------------------------------------------------------------------------------
(* Accepting a request: /bc-authorize.                                      *)

Accept(i, d) ==
  /\ i \notin accepted
  /\ Accepted(d)
  /\ accepted' = accepted \cup {i}
  /\ requests' = Put(requests, i, [NoRow EXCEPT !.mode = Client[ClientId(d)].mode,
                                                !.expires = now + Lifetime(Merged(d)),
                                                !.interval = Capped(Interval)])
  /\ UNCHANGED <<now, poll, approval, decided, notified, tokens, delivered, raced>>

--------------------------------------------------------------------------------
(* Polling: _ciba.                                                          *)

Load(p, i, pc) ==
  /\ poll[p].pc = "idle" /\ i \in DOMAIN requests
  /\ poll' = [poll EXCEPT ![p] = [pc |-> pc, id |-> i, row |-> requests[i]]]
  /\ UNCHANGED <<now, requests, accepted, approval, decided, notified, tokens, delivered, raced>>

PollExpired(p, i) == Load(p, i, "delete") /\ Expired(requests[i])

\* An unexpired request that a poll may collect.
Collectable(row) == ~Expired(row) /\ row.mode # "push"

PollApproved(p, i) ==
  Load(p, i, "consume") /\ Collectable(requests[i]) /\ requests[i].status = "approved"

PollPending(p, i) ==
  Load(p, i, "save") /\ Collectable(requests[i]) /\ requests[i].status = "pending"

PollDelete(p) ==
  /\ poll[p].pc = "delete"
  /\ requests' = Remove(requests, poll[p].id)
  /\ Race(poll[p].id, p)
  /\ poll' = [poll EXCEPT ![p] = PollIdle]
  /\ UNCHANGED <<now, accepted, approval, decided, notified, tokens, delivered>>

\* _ciba_pending_response: a poll that comes too fast lengthens the interval.
SlowDown(row) ==
  IF row.polled # Never /\ now - row.polled < row.interval
  THEN [row EXCEPT !.polled = now, !.interval = Capped(@ + 5)]
  ELSE [row EXCEPT !.polled = now]

PollSave(p) ==
  /\ poll[p].pc = "save"
  /\ requests' = Put(requests, poll[p].id, SlowDown(poll[p].row))
  /\ poll' = [poll EXCEPT ![p] = PollIdle]
  /\ UNCHANGED <<now, accepted, approval, decided, notified, tokens, delivered, raced>>

\* _ciba_approved_flow: the request is deleted, then the tokens are issued.
PollConsume(p) ==
  /\ poll[p].pc = "consume"
  /\ requests' = Remove(requests, poll[p].id)
  /\ Race(poll[p].id, p)
  /\ poll' = [poll EXCEPT ![p].pc = "issue"]
  /\ UNCHANGED <<now, accepted, approval, decided, notified, tokens, delivered>>

PollIssue(p, t) ==
  /\ poll[p].pc = "issue"
  /\ t \notin DOMAIN tokens
  /\ tokens' = Put(tokens, t, poll[p].id)
  /\ delivered' = delivered \cup {t}
  /\ poll' = [poll EXCEPT ![p] = PollIdle]
  /\ UNCHANGED <<now, requests, accepted, approval, decided, notified, raced>>

--------------------------------------------------------------------------------
(* Deciding: CibaApprovalUseCase.execute.                                   *)

\* Faulty variant: a request already decided is decided again.
DecideAgain(k, i, status) ==
  /\ approval[k].pc = "idle" /\ i \in DOMAIN requests
  /\ approval' = [approval EXCEPT ![k] = [ApprovalIdle EXCEPT
       !.pc = "apply", !.id = i, !.mode = requests[i].mode, !.status = status]]
  /\ UNCHANGED <<now, requests, accepted, poll, decided, notified, tokens, delivered, raced>>

\* A pending request is found, expired or not.
Decide(k, i, status) ==
  /\ approval[k].pc = "idle" /\ i \in DOMAIN requests
  /\ requests[i].status = "pending"
  /\ approval' = [approval EXCEPT ![k] = [ApprovalIdle EXCEPT
       !.pc = "apply", !.id = i, !.mode = requests[i].mode, !.status = status]]
  /\ UNCHANGED <<now, requests, accepted, poll, decided, notified, tokens, delivered, raced>>

\* Faulty variant: a refused request in push mode is pushed like an approved one.
PushWhatever(q) ==
  CASE q.mode = "poll" -> ApprovalIdle
    [] q.mode = "ping" -> [q EXCEPT !.pc = "notify"]
    [] q.mode = "push" -> [q EXCEPT !.pc = "push_consume"]

\* What follows the decision: no notification, a ping, or a push, with tokens
\* if the request was approved.
Announce(q) ==
  CASE q.mode = "poll" -> ApprovalIdle
    [] q.mode = "ping" -> [q EXCEPT !.pc = "notify"]
    [] q.mode = "push" -> [q EXCEPT !.pc = IF q.status = "approved" THEN "push_consume" ELSE "notify"]

DecideApply(k) ==
  LET i == approval[k].id IN
  /\ approval[k].pc = "apply"
  /\ requests' = IF i \in DOMAIN requests
                 THEN [requests EXCEPT ![i].status = approval[k].status] ELSE requests
  /\ Race(i, k)
  /\ decided' = [decided EXCEPT ![i] = @ \cup {approval[k].status}]
  /\ approval' = [approval EXCEPT ![k] = Announce(@)]
  /\ UNCHANGED <<now, accepted, poll, notified, tokens, delivered>>

\* Faulty variant: the request stays in the store while its tokens are pushed.
PushWithoutConsuming(k) ==
  /\ approval[k].pc = "push_consume"
  /\ Race(approval[k].id, k)
  /\ approval' = [approval EXCEPT ![k].pc = "push_issue"]
  /\ UNCHANGED <<now, requests, accepted, poll, decided, notified, tokens, delivered>>

\* issue_ciba_push_tokens runs _ciba_approved_flow on the copy loaded first.
PushConsume(k) ==
  /\ approval[k].pc = "push_consume"
  /\ requests' = Remove(requests, approval[k].id)
  /\ Race(approval[k].id, k)
  /\ approval' = [approval EXCEPT ![k].pc = "push_issue"]
  /\ UNCHANGED <<now, accepted, poll, decided, notified, tokens, delivered>>

PushIssue(k, t) ==
  /\ approval[k].pc = "push_issue"
  /\ t \notin DOMAIN tokens
  /\ tokens' = Put(tokens, t, approval[k].id)
  /\ approval' = [approval EXCEPT ![k].pc = "notify", ![k].tok = t]
  /\ UNCHANGED <<now, requests, accepted, poll, decided, notified, delivered, raced>>

\* The issuance ends in an error, before the request is deleted (its client is
\* gone) or after: create_ciba_push_notification tries it again, and after a
\* second error notifies the client without tokens.
PushFail(k) ==
  /\ approval[k].pc \in {"push_consume", "push_issue"}
  /\ approval' = [approval EXCEPT ![k].pc = IF approval[k].retried THEN "notify" ELSE "push_consume",
                                  ![k].retried = TRUE]
  /\ UNCHANGED <<now, requests, accepted, poll, decided, notified, tokens, delivered, raced>>

Twice(n) == IF n >= 2 THEN 2 ELSE n + 1

\* notify_ping or notify_push: one attempt, whose failure is ignored.
Notify(k, arrives) ==
  /\ approval[k].pc = "notify"
  /\ notified' = [notified EXCEPT ![approval[k].id] = Twice(@)]
  /\ delivered' = IF arrives THEN delivered \cup ({approval[k].tok} \ {NoToken}) ELSE delivered
  /\ approval' = [approval EXCEPT ![k] = ApprovalIdle]
  /\ UNCHANGED <<now, requests, accepted, poll, decided, tokens, raced>>

--------------------------------------------------------------------------------
(* The environment.                                                         *)

AbortPoll(p) ==
  /\ poll[p].pc # "idle"
  /\ poll' = [poll EXCEPT ![p] = PollIdle]
  /\ UNCHANGED <<now, requests, accepted, approval, decided, notified, tokens, delivered, raced>>

AbortApproval(k) ==
  /\ approval[k].pc # "idle"
  /\ approval' = [approval EXCEPT ![k] = ApprovalIdle]
  /\ UNCHANGED <<now, requests, accepted, poll, decided, notified, tokens, delivered, raced>>

Tick ==
  /\ now < MaxTime
  /\ now' = now + 1
  /\ UNCHANGED <<requests, accepted, poll, approval, decided, notified, tokens, delivered, raced>>

Polling(p) ==
  \/ \E i \in Ids : PollExpired(p, i) \/ PollApproved(p, i) \/ PollPending(p, i)
  \/ PollDelete(p) \/ PollSave(p) \/ PollConsume(p)
  \/ \E t \in TokenIds : PollIssue(p, t)
  \/ AbortPoll(p)

Approving(k) ==
  \/ \E i \in Ids, status \in {"approved", "denied"} : Decide(k, i, status)
  \/ DecideApply(k)
  \/ PushConsume(k) \/ PushFail(k) \/ \E t \in TokenIds : PushIssue(k, t)
  \/ \E arrives \in BOOLEAN : Notify(k, arrives)
  \/ AbortApproval(k)

Next ==
  \/ \E i \in Ids, d \in Demands : Accept(i, d)
  \/ \E p \in Polls : Polling(p)
  \/ \E k \in Approvals : Approving(k)
  \/ Tick

Spec == Init /\ [][Next]_vars

--------------------------------------------------------------------------------
(* Properties.                                                              *)

TypeOK ==
  /\ now \in 0 .. MaxTime
  /\ DOMAIN requests \subseteq accepted /\ accepted \subseteq Ids
  /\ \A i \in DOMAIN requests : requests[i] \in Row
  /\ poll \in [Polls -> Poll]
  /\ approval \in [Approvals -> Approval]
  /\ decided \in [Ids -> SUBSET {"approved", "denied"}]
  /\ notified \in [Ids -> 0 .. 2]
  /\ DOMAIN tokens \subseteq TokenIds /\ \A t \in DOMAIN tokens : tokens[t] \in Ids
  /\ delivered \subseteq DOMAIN tokens
  /\ raced \subseteq accepted

\* Tokens are issued only for a request somebody approved, through /token or
\* through a push; and unless calls raced on the request (a push goes on with the
\* copy it loaded before the decision), for none that somebody refused.
TokensFollowApproval ==
  \A t \in DOMAIN tokens :
    /\ "approved" \in decided[tokens[t]]
    /\ "denied" \in decided[tokens[t]] => tokens[t] \in raced

\* CibaApprovalUseCase says a decision is idempotent, "never a double notification".
\* That holds, whatever is retried and whichever calls stop half-way, as long as
\* no two calls race on the request: two decisions that both find it pending, or a
\* poll that saves its old copy over a decision, do notify the client twice.
NotifiedOnceUnlessRaced ==
  \A i \in Ids \ raced : notified[i] <= 1

Phase(i) ==
  IF i \notin accepted THEN "none"
  ELSE IF i \in raced THEN "raced"
  ELSE IF i \in DOMAIN requests THEN "live"
  ELSE "spent"

Abstract == INSTANCE SingleUseGrant WITH
  Items <- Ids, Tokens <- TokenIds,
  phase <- [i \in Ids |-> Phase(i)],
  out <- [i \in Ids |-> {t \in delivered : tokens[t] = i}]

\* An auth_req_id is a single-use grant in all three modes: unless calls race on
\* it, one poll or one push brings tokens, after the request has left the store.
RequestSingleUse == Abstract!Spec

--------------------------------------------------------------------------------
(* The inductive strengthening of the properties above.                     *)

\* A decision that is applied and not yet announced.
Announcing(q) == q.pc \in {"push_consume", "push_issue", "notify"}

\* The mode of a request is the same wherever a copy of it is.
ModeIs(i, m) ==
  /\ i \in DOMAIN requests => requests[i].mode = m
  /\ \A p \in Polls : poll[p].pc # "idle" /\ poll[p].id = i => poll[p].row.mode = m
  /\ \A k \in Approvals : approval[k].pc # "idle" /\ approval[k].id = i => approval[k].mode = m

SameMode(i) == \E m \in {"poll", "ping", "push"} : ModeIs(i, m)

\* What holds of the calls under way whether or not there was a race: tokens are
\* on their way only after an approval, and a push never meets a poll.
CallInv ==
  /\ \A p \in Polls : poll[p].pc # "idle" => poll[p].id \in accepted
  /\ \A p \in Polls : poll[p].pc = "save" => poll[p].row.status = "pending"
  /\ \A p \in Polls : poll[p].pc \in {"consume", "issue"} => "approved" \in decided[poll[p].id]
  /\ \A p \in Polls : poll[p].pc \in {"save", "consume", "issue"} => poll[p].row.mode # "push"
  /\ \A k \in Approvals : approval[k].pc # "idle" => approval[k].id \in accepted
  /\ \A k \in Approvals : approval[k].pc \in {"push_consume", "push_issue"} =>
       approval[k].mode = "push" /\ "approved" \in decided[approval[k].id]
  /\ \A k \in Approvals : approval[k].tok # NoToken =>
       /\ approval[k].pc = "notify" /\ approval[k].mode = "push"
       /\ approval[k].tok \in DOMAIN tokens /\ tokens[approval[k].tok] = approval[k].id
  /\ \A i \in Ids \ accepted : decided[i] = {} /\ notified[i] = 0
  /\ \A i \in DOMAIN requests : requests[i].status = "approved" => "approved" \in decided[i]
  /\ \A t \in DOMAIN tokens : tokens[t] \in accepted /\ "approved" \in decided[tokens[t]]

Issued(i) == {t \in DOMAIN tokens : tokens[t] = i}

\* Unless calls raced on it, the row of a request agrees with the copies of it and
\* with the one decision taken, one call announces that decision, and one call,
\* a poll or a push, has its tokens.
Unraced(i) ==
  /\ i \in DOMAIN requests =>
       decided[i] = IF requests[i].status = "pending" THEN {} ELSE {requests[i].status}
  /\ \A p \in Polls : poll[p].id = i /\ poll[p].pc \in {"save", "consume"} =>
       /\ i \in DOMAIN requests
       /\ requests[i].status = IF poll[p].pc = "save" THEN "pending" ELSE "approved"
  /\ \A k \in Approvals : approval[k].id = i /\ approval[k].pc = "apply" =>
       i \in DOMAIN requests /\ requests[i].status = "pending"
  /\ \A k \in Approvals : approval[k].id = i /\ Announcing(approval[k]) =>
       /\ decided[i] = {approval[k].status} /\ notified[i] = 0
       /\ \A q \in Approvals : approval[q].id = i /\ Announcing(approval[q]) => q = k
  /\ notified[i] <= 1 /\ (notified[i] = 1 => decided[i] # {})
  /\ \A p \in Polls : poll[p].id = i /\ poll[p].pc = "issue" =>
       /\ i \notin DOMAIN requests /\ Issued(i) = {} /\ "denied" \notin decided[i]
       /\ \A q \in Polls : poll[q].id = i /\ poll[q].pc = "issue" => q = p
  /\ \A k \in Approvals : approval[k].id = i /\ approval[k].pc \in {"push_consume", "push_issue"} =>
       /\ Issued(i) = {} /\ approval[k].status = "approved"
       /\ approval[k].pc = "push_issue" => i \notin DOMAIN requests
  /\ \A k \in Approvals : approval[k].id = i /\ approval[k].tok # NoToken =>
       approval[k].tok \notin delivered
  /\ \A t \in Issued(i) : i \notin DOMAIN requests /\ "denied" \notin decided[i] /\ Issued(i) = {t}

RequestInv ==
  /\ TypeOK /\ CallInv
  /\ \A i \in Ids : SameMode(i)
  /\ \A i \in accepted \ raced : Unraced(i)
================================================================================
