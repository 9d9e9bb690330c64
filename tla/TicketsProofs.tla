---------------------------- MODULE TicketsProofs ----------------------------
(* Theorems about Tickets, for any requests, lifetimes and latencies: no   *)
(* expired ticket is sent, a retry uses a new login, and one change of the *)
(* signing key does not show.                                              *)
EXTENDS Tickets, TLAPS

(* The node has issued the ticket.                                         *)
Issued(t) == t \in Ticket /\ t.login <= logins /\ t.key <= key

(* The ticket outlives every flight that begins now.                       *)
Lasts(t, at) == at + Latency < t.issued + Lifetime

(* The client's expiresAt is at most a flight later than the node's.       *)
CacheKept ==
  cached # None => Issued(cached) /\ cached.expiresAt <= cached.issued + Latency + Lifetime

(* The login in flight is young, and so is the ticket it brings; only a    *)
(* wrong password is refused.                                              *)
LoginKept ==
  pending # None =>
    /\ pending.at <= now /\ now <= pending.at + Latency
    /\ pending.with # None => Issued(pending.with)
    /\ pending.reply \in Ticket => Issued(pending.reply) /\ pending.at <= pending.reply.issued
    /\ pending.with = None /\ pending.reply = Refusal => ~passwordOk

(* A request under way carries a ticket that outlives its flight.          *)
Carries(r) ==
  pc[r] = "sent" =>
    /\ Issued(sent[r].ticket) /\ Lasts(sent[r].ticket, sent[r].at)
    /\ now <= sent[r].at + Latency

(* The second attempt waits for the login that follows the refusal.        *)
Retrying(r) == pc[r] = "refresh" \/ (pc[r] = "ticket" /\ tries[r] = 2)

InLine(r) ==
  /\ pc[r] = "new" => tries[r] = 1
  /\ pc[r] \in {"waiting", "refresh"} => tries[r] = 2
  /\ pc[r] \in {"ticket", "waiting", "refresh"} => pending # None

Renewed(r) ==
  /\ refused[r] <= logins
  /\ Retrying(r) => /\ pending.with = None
                    /\ pending.reply \in Ticket => pending.reply.login > refused[r]
  /\ pc[r] = "sent" /\ tries[r] = 2 => sent[r].ticket.login > refused[r]

(* While the key has changed at most once, a refusal means that it has, and*)
(* the login that follows brings a ticket of the new key.                  *)
Followed(r) ==
  ~skewed /\ key <= 1 =>
    /\ tries[r] = 2 => key = 1
    /\ pc[r] = "sent" /\ sent[r].reply = "401" => key = 1 /\ tries[r] = 1
    /\ Retrying(r) /\ pending.reply \in Ticket => pending.reply.key = key
    /\ pc[r] = "sent" /\ tries[r] = 2 => sent[r].ticket.key = key
    /\ passwordOk => pc[r] # "denied"

Request(r) == InLine(r) /\ Carries(r) /\ Renewed(r) /\ Followed(r)

IInv == TypeOK /\ CacheKept /\ LoginKept /\ \A r \in Requests : Request(r)

-----------------------------------------------------------------------------
(* Steps of the client.                                                    *)

(* A login that starts now, with the password or a ticket of the node's.   *)
LEMMA LoginStarts ==
  ASSUME IInv, NEW t \in Ticket \cup {None}, t # None => Issued(t)
  PROVE  /\ StartLogin(t) \in Login /\ StartLogin(t) # None
         /\ StartLogin(t).at = now /\ StartLogin(t).with = t
         /\ StartLogin(t).reply = None
BY ValuesAssumption DEF IInv, TypeOK, StartLogin, Login

(* The login in flight settles, and every waiter goes on.                  *)
LEMMA SettleIInv ==
  ASSUME IInv, pending # None,
         NEW ticket \in Ticket \cup {None}, NEW outcome \in Over,
         ticket # None =>
           /\ Issued(ticket) /\ Lasts(ticket, now)
           /\ ticket.expiresAt <= ticket.issued + Latency + Lifetime
           /\ \A r \in Requests :
                Retrying(r) => /\ ticket.login > refused[r]
                               /\ ~skewed /\ key <= 1 => ticket.key = key,
         outcome = "denied" => ~passwordOk,
         Settle(ticket, outcome),
         UNCHANGED <<now, node, logins, tries, refused>>
  PROVE  IInv'
<1> USE DEF node
<1> DEFINE waiting == {r \in Requests : pc[r] = "waiting"}
<1>1. /\ StartLogin(None) \in Login /\ StartLogin(None) # None
      /\ StartLogin(None).at = now /\ StartLogin(None).with = None
      /\ StartLogin(None).reply = None
  BY LoginStarts
<1>2. \A r \in Requests :
        /\ pc[r] \notin {"waiting", "ticket", "refresh"} =>
             pc'[r] = pc[r] /\ sent'[r] = sent[r]
        /\ pc[r] = "waiting" =>
             pc'[r] = "refresh" /\ pending' = StartLogin(None) /\ sent'[r] = sent[r]
        /\ pc[r] \in {"ticket", "refresh"} /\ ticket = None =>
             pc'[r] = outcome /\ sent'[r] = sent[r]
        /\ pc[r] \in {"ticket", "refresh"} /\ ticket # None =>
             \/ pc'[r] = "sent" /\ sent'[r] = Send(ticket)
             \/ /\ pc'[r] = "ticket" /\ tries[r] = 2 /\ pending' = StartLogin(None)
                /\ sent'[r] = sent[r]
  <2> SUFFICES ASSUME NEW r \in Requests
               PROVE  /\ pc[r] \notin {"waiting", "ticket", "refresh"} =>
                           pc'[r] = pc[r] /\ sent'[r] = sent[r]
                      /\ pc[r] = "waiting" =>
                           /\ pc'[r] = "refresh" /\ pending' = StartLogin(None)
                           /\ sent'[r] = sent[r]
                      /\ pc[r] \in {"ticket", "refresh"} /\ ticket = None =>
                           pc'[r] = outcome /\ sent'[r] = sent[r]
                      /\ pc[r] \in {"ticket", "refresh"} /\ ticket # None =>
                           \/ pc'[r] = "sent" /\ sent'[r] = Send(ticket)
                           \/ /\ pc'[r] = "ticket" /\ tries[r] = 2
                              /\ pending' = StartLogin(None) /\ sent'[r] = sent[r]
    OBVIOUS
  <2>1. outcome # "sent"
    BY DEF Over
  <2>2. CASE pc[r] \notin {"waiting", "ticket", "refresh"}
    BY <2>2 DEF Settle
  <2>3. CASE pc[r] = "waiting"
    BY <2>3 DEF Settle
  <2>4. CASE pc[r] = "ticket"
    BY <2>1, <2>4 DEF Settle
  <2>5. CASE pc[r] = "refresh"
    <3>1. tries[r] = 2
      BY <2>5 DEF IInv, Request, InLine
    <3>2. QED
      BY <2>1, <2>5, <3>1 DEF Settle
  <2>6. QED
    BY <2>2, <2>3, <2>4, <2>5
<1>3. /\ pending' \in {None, StartLogin(None)}
      /\ cached' \in {None, cached} \/ (ticket # None /\ cached' = ticket)
      /\ pc' = [r \in Requests |-> pc'[r]] /\ sent' = [r \in Requests |-> sent'[r]]
  BY DEF Settle
<1>4. Send(ticket).ticket = ticket /\ Send(ticket).at = now /\ Send(ticket).reply = "none"
  BY DEF Send
<1>5. TypeOK'
  <2>1. ASSUME NEW r \in Requests
        PROVE  /\ pc'[r] \in {"new", "ticket", "sent", "waiting", "refresh"} \cup Over
               /\ sent'[r] \in [ticket : Ticket \cup {None}, at : Nat,
                                reply : {"none", "200", "401"}]
    BY <1>2 DEF IInv, TypeOK, Send
  <2>2. pending' \in Login \cup {None} /\ cached' \in Ticket \cup {None}
    BY <1>1, <1>3 DEF IInv, TypeOK
  <2>3. QED
    BY <1>3, <2>1, <2>2 DEF IInv, TypeOK
<1>6. CacheKept'
  BY <1>3 DEF IInv, CacheKept, Issued
<1>7. LoginKept'
  BY <1>1, <1>3, TimeAssumption, ValuesAssumption DEF IInv, TypeOK, LoginKept
<1>8. ASSUME NEW r \in Requests PROVE Request(r)'
  <2>1. Request(r)
    BY DEF IInv
  <2>2. CASE pc[r] \notin {"waiting", "ticket", "refresh"}
    BY <1>2, <2>1, <2>2 DEF Request, InLine, Carries, Renewed, Followed, Retrying, Issued, Lasts
  <2>3. CASE pc[r] = "waiting"
    BY <1>1, <1>2, <2>1, <2>3, ValuesAssumption
       DEF Request, InLine, Carries, Renewed, Followed, Retrying
  <2>4. CASE pc[r] \in {"ticket", "refresh"} /\ ticket = None
    BY <1>2, <2>1, <2>4 DEF Request, InLine, Carries, Renewed, Followed, Retrying, Over
  <2>5. CASE /\ pc[r] \in {"ticket", "refresh"} /\ ticket # None
             /\ pc'[r] = "sent" /\ sent'[r] = Send(ticket)
    BY <1>4, <2>1, <2>5, TimeAssumption
       DEF IInv, TypeOK, Request, InLine, Carries, Renewed, Followed, Retrying, Issued, Lasts
  <2>6. CASE /\ pc[r] \in {"ticket", "refresh"} /\ ticket # None
             /\ pc'[r] = "ticket" /\ tries[r] = 2 /\ pending' = StartLogin(None)
    BY <1>1, <2>1, <2>6, ValuesAssumption
       DEF Request, InLine, Carries, Renewed, Followed, Retrying
  <2>7. QED
    BY <1>2, <2>2, <2>3, <2>4, <2>5, <2>6
<1>9. QED
  BY <1>5, <1>6, <1>7, <1>8 DEF IInv

LEMMA LoginFailsIInv ==
  ASSUME IInv, LoginFails
  PROVE  IInv'
BY SettleIInv DEF LoginFails, Over

(* The ticket that a login brings is new, and the client stamps it.        *)
LEMMA NewTicket ==
  ASSUME IInv, pending # None, pending.reply # None, pending.reply # Refusal,
         NEW t, t = [pending.reply EXCEPT !.expiresAt = now + Lifetime]
  PROVE  /\ t \in Ticket /\ Issued(t) /\ Lasts(t, now)
         /\ t.expiresAt <= t.issued + Latency + Lifetime
         /\ \A r \in Requests :
              Retrying(r) => /\ t.login > refused[r]
                             /\ ~skewed /\ key <= 1 => t.key = key
<1>1. pending \in Login /\ pending.reply \in Ticket /\ now \in Nat
  BY TimeAssumption DEF IInv, TypeOK, Login
<1>2. /\ t \in Ticket /\ t.login = pending.reply.login /\ t.key = pending.reply.key
      /\ t.issued = pending.reply.issued /\ t.expiresAt = now + Lifetime
  BY <1>1, TimeAssumption DEF Ticket
<1>3. /\ Issued(pending.reply) /\ pending.at <= pending.reply.issued
      /\ now <= pending.at + Latency /\ pending.at \in Nat
      /\ pending.reply.issued \in Nat
  BY <1>1 DEF IInv, LoginKept, Login, Ticket
<1>4. now <= t.issued + Latency
  BY <1>1, <1>2, <1>3, TimeAssumption
<1>5. Lasts(t, now) /\ t.expiresAt <= t.issued + Latency + Lifetime
  BY <1>1, <1>2, <1>3, <1>4, TimeAssumption DEF Lasts
<1>6. \A r \in Requests : Retrying(r) => /\ t.login > refused[r]
                                         /\ ~skewed /\ key <= 1 => t.key = key
  BY <1>1, <1>2 DEF IInv, Request, Renewed, Followed
<1>7. QED
  BY <1>2, <1>3, <1>5, <1>6 DEF Issued

LEMMA LoginReturnsIInv ==
  ASSUME IInv, LoginReturns
  PROVE  IInv'
<1>1. CASE pending.reply # Refusal
  BY <1>1, NewTicket, SettleIInv DEF LoginReturns, Over
<1>2. CASE pending.reply = Refusal /\ pending.with # None
  <2> USE DEF LoginReturns, node
  <2>1. /\ StartLogin(None) \in Login /\ StartLogin(None) # None
        /\ StartLogin(None).at = now /\ StartLogin(None).with = None
        /\ StartLogin(None).reply = None
    BY LoginStarts
  <2>2. TypeOK' /\ CacheKept'
    BY <1>2, <2>1 DEF IInv, TypeOK, CacheKept
  <2>3. LoginKept'
    BY <1>2, <2>1, TimeAssumption, ValuesAssumption DEF IInv, TypeOK, LoginKept
  <2>4. ASSUME NEW r \in Requests PROVE Request(r)'
    BY <1>2, <2>1, ValuesAssumption
       DEF IInv, Request, InLine, Carries, Renewed, Followed, Retrying, Issued, Lasts
  <2>5. QED
    BY <2>2, <2>3, <2>4 DEF IInv
<1>3. CASE pending.reply = Refusal /\ pending.with = None
  <2>1. ~passwordOk
    BY <1>3 DEF IInv, LoginKept, LoginReturns
  <2>2. QED
    BY <1>3, <2>1, SettleIInv DEF LoginReturns, Over
<1>4. QED
  BY <1>1, <1>2, <1>3

LEMMA DestroyIInv ==
  ASSUME IInv, Destroy
  PROVE  IInv'
<1> USE DEF Destroy, node
<1>1. TypeOK' /\ CacheKept' /\ LoginKept'
  BY DEF IInv, TypeOK, CacheKept, LoginKept, Issued
<1>2. \A r \in Requests : Request(r)'
  BY DEF IInv, Request, InLine, Carries, Renewed, Followed, Retrying, Issued, Lasts
<1>3. QED
  BY <1>1, <1>2 DEF IInv

(* What is known of a request stays so when a step leaves it, the login in *)
(* flight, the clock and the node alone.                                   *)
LEMMA Others ==
  ASSUME IInv, NEW r \in Requests, UNCHANGED <<now, node, logins, pending>>,
         pc'[r] = pc[r], tries'[r] = tries[r], sent'[r] = sent[r], refused'[r] = refused[r]
  PROVE  Request(r)'
BY DEF IInv, Request, InLine, Carries, Renewed, Followed, Retrying, Issued, Lasts, node

(* A request starts a login when none is in flight, so nobody waited for it. *)
LEMMA OthersWhenIdle ==
  ASSUME IInv, NEW r \in Requests, UNCHANGED <<now, node, logins>>,
         pending = None, pending' # None,
         pc'[r] = pc[r], tries'[r] = tries[r], sent'[r] = sent[r], refused'[r] = refused[r]
  PROVE  Request(r)'
BY DEF IInv, Request, InLine, Carries, Renewed, Followed, Retrying, Issued, Lasts, node

LEMMA BeginIInv ==
  ASSUME IInv, NEW r \in Requests, Begin(r)
  PROVE  IInv'
<1> USE DEF Begin, node
<1>1. tries[r] = 1 /\ pc \in [Requests -> {"new", "ticket", "sent", "waiting", "refresh"} \cup Over]
  BY DEF IInv, TypeOK, Request, InLine
<1>2. CASE Fresh(cached)
  <2>1. /\ cached \in Ticket /\ Issued(cached) /\ now < cached.expiresAt - Margin
        /\ cached.expiresAt <= cached.issued + Latency + Lifetime
    BY <1>2 DEF IInv, TypeOK, CacheKept, Fresh
  <2>2. Lasts(cached, now)
    <3>1. now \in Nat /\ cached.issued \in Nat /\ cached.expiresAt \in Nat
      BY <2>1, TimeAssumption DEF IInv, TypeOK, Ticket
    <3>2. QED
      BY <2>1, <3>1, TimeAssumption DEF Lasts
  <2>3. sent' = [sent EXCEPT ![r] = Send(cached)] /\ pc' = [pc EXCEPT ![r] = "sent"]
    BY <1>2
  <2>4. /\ Send(cached).ticket = cached /\ Send(cached).at = now /\ Send(cached).reply = "none"
        /\ Send(cached) \in [ticket : Ticket \cup {None}, at : Nat, reply : {"none", "200", "401"}]
    BY <2>1, TimeAssumption DEF Send, IInv, TypeOK
  <2>5. TypeOK' /\ CacheKept' /\ LoginKept'
    BY <1>2, <2>3, <2>4 DEF IInv, TypeOK, CacheKept, LoginKept, Issued
  <2>6. Request(r)'
    <3>1. sent'[r] = Send(cached) /\ pc'[r] = "sent"
      BY <2>3 DEF IInv, TypeOK
    <3>2. Carries(r)'
      BY <2>1, <2>2, <2>4, <3>1, TimeAssumption DEF IInv, TypeOK, Carries, Issued, Lasts
    <3>3. Request(r)
      BY DEF IInv
    <3>4. QED
      BY <1>1, <1>2, <2>4, <3>1, <3>2, <3>3 DEF Request, InLine, Renewed, Followed, Retrying
  <2>7. \A q \in Requests \ {r} : Request(q)'
    BY <1>2, <2>3, Others
  <2>8. QED
    BY <2>5, <2>6, <2>7 DEF IInv
<1>3. CASE ~Fresh(cached)
  <2>1. cached \in Ticket \cup {None} /\ (cached # None => Issued(cached))
    BY DEF IInv, TypeOK, CacheKept
  <2>2. /\ StartLogin(cached) \in Login /\ StartLogin(cached) # None
        /\ StartLogin(cached).at = now /\ StartLogin(cached).with = cached
        /\ StartLogin(cached).reply = None
    BY <2>1, LoginStarts
  <2>3. pc'[r] = "ticket" /\ pc' = [pc EXCEPT ![r] = "ticket"] /\ UNCHANGED sent
    BY <1>1, <1>3
  <2>4. /\ pending' # None
        /\ (pending = None /\ pending' = StartLogin(cached)) \/ pending' = pending
    BY <1>3, <2>2
  <2>5. TypeOK' /\ CacheKept'
    BY <2>2, <2>3, <2>4 DEF IInv, TypeOK, CacheKept, Issued
  <2>6. LoginKept'
    <3>1. CASE pending' = pending
      BY <3>1 DEF IInv, LoginKept, Issued
    <3>2. CASE pending' = StartLogin(cached)
      BY <2>1, <2>2, <3>2, TimeAssumption, ValuesAssumption
         DEF IInv, TypeOK, LoginKept, Issued
    <3>3. QED
      BY <2>4, <3>1, <3>2
  <2>7. Request(r)'
    <3>1. Request(r)
      BY DEF IInv
    <3>2. QED
      BY <1>1, <2>3, <2>4, <3>1 DEF Request, InLine, Carries, Renewed, Followed, Retrying
  <2>8. \A q \in Requests \ {r} : Request(q)'
    BY <2>3, <2>4, Others, OthersWhenIdle
  <2>9. QED
    BY <2>5, <2>6, <2>7, <2>8 DEF IInv
<1>4. QED
  BY <1>2, <1>3

(* A request ends, in an auth error only when the second ticket is refused. *)
LEMMA EndsIInv ==
  ASSUME IInv, NEW r \in Requests, NEW end \in Over,
         pc[r] = "sent", end = "denied" => tries[r] = 2 /\ sent[r].reply = "401",
         pc' = [pc EXCEPT ![r] = end], sent' = [sent EXCEPT ![r] = Idle],
         UNCHANGED <<now, node, logins, cached, pending, tries, refused>>
  PROVE  IInv'
<1> USE DEF node
<1>1. TypeOK' /\ CacheKept' /\ LoginKept'
  BY DEF IInv, TypeOK, CacheKept, LoginKept, Issued, Idle
<1>2. Request(r)'
  <2>1. Request(r) /\ pc'[r] = end
    BY DEF IInv, TypeOK
  <2>2. QED
    BY <2>1 DEF Request, InLine, Carries, Renewed, Followed, Retrying, Over
<1>3. \A q \in Requests \ {r} : Request(q)'
  BY Others
<1>4. QED
  BY <1>1, <1>2, <1>3 DEF IInv

LEMMA AnsweredIInv ==
  ASSUME IInv, NEW r \in Requests, Answered(r)
  PROVE  IInv'
<1> USE DEF Answered, node
<1>1. Request(r) /\ sent[r].reply \in {"200", "401"} /\ tries[r] \in 1..2
  BY DEF IInv, TypeOK
<1>2. CASE sent[r].reply = "200"
  BY <1>2, EndsIInv DEF Over
<1>3. CASE sent[r].reply = "401" /\ tries[r] = 2
  BY <1>3, EndsIInv DEF Over
<1>4. CASE sent[r].reply = "401" /\ tries[r] = 1
  <2>1. /\ tries' = [tries EXCEPT ![r] = 2] /\ refused' = [refused EXCEPT ![r] = sent[r].ticket.login]
        /\ sent' = [sent EXCEPT ![r] = Idle] /\ Refresh(r)
    BY <1>4
  <2>2. /\ Issued(sent[r].ticket) /\ sent[r].ticket.login \in Nat
        /\ sent[r].ticket.login <= logins
    BY <1>1 DEF Request, Carries, Issued, Ticket
  <2>3. ~skewed /\ key <= 1 => key = 1
    BY <1>1, <1>4 DEF Request, Followed
  <2>4. /\ StartLogin(None) \in Login /\ StartLogin(None) # None
        /\ StartLogin(None).at = now /\ StartLogin(None).with = None
        /\ StartLogin(None).reply = None
    BY LoginStarts
  <2>5. CASE pending # None
    <3>1. pc' = [pc EXCEPT ![r] = "waiting"] /\ UNCHANGED <<cached, pending>>
      BY <2>1, <2>5 DEF Refresh
    <3>2. TypeOK' /\ CacheKept' /\ LoginKept'
      BY <2>1, <2>2, <3>1 DEF IInv, TypeOK, CacheKept, LoginKept, Issued, Idle
    <3>3. pc'[r] = "waiting" /\ tries'[r] = 2 /\ refused'[r] = sent[r].ticket.login
      BY <2>1, <3>1 DEF IInv, TypeOK
    <3>4. Request(r)'
      BY <2>2, <2>3, <2>5, <3>1, <3>3
         DEF Request, InLine, Carries, Renewed, Followed, Retrying
    <3>5. \A q \in Requests \ {r} : Request(q)'
      BY <2>1, <3>1, Others
    <3>6. QED
      BY <3>2, <3>4, <3>5 DEF IInv
  <2>6. CASE pending = None
    <3>1. pc' = [pc EXCEPT ![r] = "refresh"] /\ cached' = None /\ pending' = StartLogin(None)
      BY <2>1, <2>6 DEF Refresh
    <3>2. TypeOK' /\ CacheKept'
      BY <2>1, <2>2, <2>4, <3>1 DEF IInv, TypeOK, CacheKept, Idle
    <3>3. LoginKept'
      BY <2>4, <3>1, TimeAssumption, ValuesAssumption DEF IInv, TypeOK, LoginKept
    <3>4. pc'[r] = "refresh" /\ tries'[r] = 2 /\ refused'[r] = sent[r].ticket.login
      BY <2>1, <3>1 DEF IInv, TypeOK
    <3>5. Request(r)'
      BY <2>2, <2>3, <2>4, <3>1, <3>4, ValuesAssumption
         DEF Request, InLine, Carries, Renewed, Followed, Retrying
    <3>6. \A q \in Requests \ {r} : Request(q)'
      BY <2>1, <2>4, <2>6, <3>1, OthersWhenIdle
    <3>7. QED
      BY <3>2, <3>3, <3>5, <3>6 DEF IInv
  <2>7. QED
    BY <2>5, <2>6
<1>5. QED
  BY <1>1, <1>2, <1>3, <1>4

LEMMA RequestFailsIInv ==
  ASSUME IInv, NEW r \in Requests, RequestFails(r)
  PROVE  IInv'
BY EndsIInv DEF RequestFails, Over

-----------------------------------------------------------------------------
(* Steps of the node and of the clock.                                     *)

(* The node answers the login in flight: it issues a ticket, or refuses.   *)
LEMMA NodeLoginIInv ==
  ASSUME IInv, NodeLogin
  PROVE  IInv'
<1> USE DEF node
<1> DEFINE Issue(n) == [login |-> n, key |-> key, issued |-> now, expiresAt |-> 0]
<1>1. /\ pending \in Login /\ pending.reply = None /\ UNCHANGED <<now, node, cached, pc, tries, sent, refused>>
      /\ now \in Nat /\ key \in Nat /\ logins \in Nat
  BY TimeAssumption DEF IInv, TypeOK, NodeLogin
<1>2. \A n \in Nat : /\ Issue(n) \in Ticket /\ Issue(n).login = n /\ Issue(n).key = key
                     /\ Issue(n).issued = now
  BY <1>1 DEF Ticket
<1>3. /\ logins' \in Nat /\ logins <= logins'
      /\ \E x \in Ticket \cup {Refusal} :
           /\ pending' = [pending EXCEPT !.reply = x]
           /\ x \in Ticket => /\ x.login <= logins' /\ x.key = key /\ x.issued = now
                              /\ pending.with = None => x.login = logins + 1
           /\ pending.with = None /\ x = Refusal => ~passwordOk
  <2>1. CASE pending.with = None /\ passwordOk
    <3>1. logins' = logins + 1 /\ pending' = [pending EXCEPT !.reply = Issue(logins + 1)]
      BY <2>1 DEF NodeLogin
    <3>2. Issue(logins + 1) # Refusal
      BY <1>1, <1>2, ValuesAssumption
    <3> HIDE DEF Issue
    <3>3. QED
      BY <1>1, <1>2, <3>1, <3>2
  <2>2. CASE pending.with = None /\ ~passwordOk
    <3>1. logins' = logins /\ pending' = [pending EXCEPT !.reply = Refusal]
      BY <2>2 DEF NodeLogin
    <3>2. QED
      BY <1>1, <2>2, <3>1, ValuesAssumption
  <2>3. CASE pending.with # None
    <3>1. pending.with \in Ticket /\ Issued(pending.with) /\ pending.with.login \in Nat
      BY <1>1, <2>3, ValuesAssumption DEF IInv, LoginKept, Login, Ticket
    <3>2. /\ logins' = logins
          /\ \/ pending' = [pending EXCEPT !.reply = Issue(pending.with.login)]
             \/ pending' = [pending EXCEPT !.reply = Refusal]
      BY <2>3 DEF NodeLogin
    <3> HIDE DEF Issue
    <3>3. QED
      BY <1>1, <1>2, <2>3, <3>1, <3>2, ValuesAssumption DEF Issued
  <2>4. QED
    BY <2>1, <2>2, <2>3
<1>4. PICK x \in Ticket \cup {Refusal} :
           /\ pending' = [pending EXCEPT !.reply = x]
           /\ x \in Ticket => /\ x.login <= logins' /\ x.key = key /\ x.issued = now
                              /\ pending.with = None => x.login = logins + 1
           /\ pending.with = None /\ x = Refusal => ~passwordOk
  BY <1>3
<1>5. /\ pending' \in Login /\ pending' # None /\ pending'.reply = x
      /\ pending'.with = pending.with /\ pending'.at = pending.at
  BY <1>1, <1>4, ValuesAssumption DEF Login
<1>6. \A t : Issued(t) => Issued(t)'
  BY <1>1, <1>3 DEF Issued, Ticket
<1>7. TypeOK' /\ CacheKept'
  BY <1>1, <1>3, <1>5, <1>6 DEF IInv, TypeOK, CacheKept
<1>8. LoginKept'
  <2>1. LoginKept /\ pending # None
    BY DEF IInv, NodeLogin
  <2>2. x \in Ticket => Issued(x)'
    BY <1>1, <1>4 DEF Issued
  <2>3. QED
    BY <1>1, <1>4, <1>5, <1>6, <2>1, <2>2 DEF LoginKept
<1>9. ASSUME NEW r \in Requests PROVE Request(r)'
  <2>1. Request(r) /\ refused[r] \in Nat
    BY DEF IInv, TypeOK
  <2>2. InLine(r)' /\ Carries(r)'
    BY <1>1, <1>5, <1>6, <2>1 DEF Request, InLine, Carries, Lasts
  <2>3. Renewed(r)'
    BY <1>1, <1>3, <1>4, <1>5, <2>1 DEF Request, Renewed, Retrying
  <2>4. Followed(r)'
    BY <1>1, <1>4, <1>5, <2>1 DEF Request, Followed, Retrying
  <2>5. QED
    BY <2>2, <2>3, <2>4 DEF Request
<1>10. QED
  BY <1>7, <1>8, <1>9 DEF IInv

(* Within its lifetime, a ticket is refused for its key only.              *)
LEMMA NodeAnswersIInv ==
  ASSUME IInv, NEW r \in Requests, NodeAnswers(r)
  PROVE  IInv'
<1> USE DEF NodeAnswers, node
<1> DEFINE answer == IF Honours(sent[r].ticket) THEN "200" ELSE "401"
<1>1. /\ sent' = [sent EXCEPT ![r].reply = answer]
      /\ sent[r] \in [ticket : Ticket \cup {None}, at : Nat, reply : {"none", "200", "401"}]
  BY DEF IInv, TypeOK
<1>2. /\ sent'[r].ticket = sent[r].ticket /\ sent'[r].at = sent[r].at
      /\ sent'[r].reply = answer
      /\ \A q \in Requests \ {r} : sent'[q] = sent[q]
      /\ sent' \in [Requests -> [ticket : Ticket \cup {None}, at : Nat,
                                reply : {"none", "200", "401"}]]
  BY <1>1 DEF IInv, TypeOK
<1>3. TypeOK' /\ CacheKept' /\ LoginKept'
  BY <1>2 DEF IInv, TypeOK, CacheKept, LoginKept, Issued
<1>4. Request(r)'
  <2>1. Request(r) /\ Carries(r) /\ Followed(r)
    BY DEF IInv, Request
  <2>2. InLine(r)' /\ Carries(r)' /\ Renewed(r)'
    BY <1>2, <2>1 DEF Request, InLine, Carries, Renewed, Retrying, Issued, Lasts
  <2>3. ~skewed /\ key <= 1 /\ answer = "401" => key = 1 /\ tries[r] = 1
    <3>1. SUFFICES ASSUME ~skewed, key <= 1, answer = "401" PROVE key = 1 /\ tries[r] = 1
      OBVIOUS
    <3>2. now < sent[r].ticket.issued + Lifetime
      BY <2>1, TimeAssumption DEF IInv, TypeOK, Carries, Lasts, Issued, Ticket
    <3>3. sent[r].ticket.key # key
      BY <3>1, <3>2 DEF Honours
    <3>4. sent[r].ticket.key \in Nat /\ sent[r].ticket.key <= key /\ key \in Nat
      BY <2>1, TimeAssumption DEF IInv, TypeOK, Carries, Issued, Ticket
    <3>5. key = 1
      BY <3>1, <3>3, <3>4
    <3>6. tries[r] # 2
      BY <2>1, <3>1, <3>3 DEF Followed
    <3>7. QED
      BY <3>5, <3>6 DEF IInv, TypeOK
  <2>4. Followed(r)'
    BY <1>2, <2>1, <2>3 DEF Followed, Retrying
  <2>5. QED
    BY <2>2, <2>4 DEF Request
<1>5. \A q \in Requests \ {r} : Request(q)'
  BY <1>2, Others
<1>6. QED
  BY <1>3, <1>4, <1>5 DEF IInv

LEMMA RotateKeyIInv ==
  ASSUME IInv, RotateKey
  PROVE  IInv'
<1> USE DEF RotateKey
<1>1. key \in Nat /\ key + 1 \in 0..MaxRotations
  BY TimeAssumption DEF IInv, TypeOK
<1>2. \A t : Issued(t) => Issued(t)'
  BY <1>1 DEF Issued, Ticket
<1>3. TypeOK' /\ CacheKept' /\ LoginKept'
  BY <1>1, <1>2 DEF IInv, TypeOK, CacheKept, LoginKept
<1>4. ASSUME NEW r \in Requests PROVE Request(r)'
  <2>1. Request(r) /\ tries[r] \in 1..2
    BY DEF IInv, TypeOK
  <2>2. InLine(r)' /\ Carries(r)' /\ Renewed(r)'
    BY <1>2, <2>1 DEF Request, InLine, Carries, Renewed, Retrying, Lasts
  <2>3. key + 1 <= 1 => key = 0
    BY <1>1
  <2>4. Followed(r)'
    BY <1>1, <2>1, <2>3 DEF Request, Followed, Retrying, InLine
  <2>5. QED
    BY <2>2, <2>4 DEF Request
<1>5. QED
  BY <1>3, <1>4 DEF IInv

LEMMA ChangePasswordIInv ==
  ASSUME IInv, ChangePassword
  PROVE  IInv'
<1> USE DEF ChangePassword
<1>1. TypeOK' /\ CacheKept' /\ LoginKept'
  BY DEF IInv, TypeOK, CacheKept, LoginKept, Issued
<1>2. \A r \in Requests : Request(r)'
  BY DEF IInv, Request, InLine, Carries, Renewed, Followed, Retrying, Issued, Lasts
<1>3. QED
  BY <1>1, <1>2 DEF IInv

LEMMA TickIInv ==
  ASSUME IInv, Tick
  PROVE  IInv'
<1> USE DEF Tick, node
<1>1. now \in Nat /\ now + 1 \in 0..MaxTime
  BY TimeAssumption DEF IInv, TypeOK
<1>2. TypeOK' /\ CacheKept'
  BY <1>1 DEF IInv, TypeOK, CacheKept, Issued
<1>3. LoginKept'
  <2>1. pending # None => pending.at \in Nat
    BY DEF IInv, TypeOK, Login
  <2>2. QED
    BY <1>1, <2>1, TimeAssumption DEF IInv, LoginKept, Issued
<1>4. ASSUME NEW r \in Requests PROVE Request(r)'
  <2>1. Request(r) /\ sent[r].at \in Nat
    BY DEF IInv, TypeOK
  <2>2. Carries(r)'
    BY <1>1, <2>1, TimeAssumption DEF Request, Carries, Issued, Lasts
  <2>3. QED
    BY <2>1, <2>2 DEF Request, InLine, Renewed, Followed, Retrying
<1>5. QED
  BY <1>2, <1>3, <1>4 DEF IInv

-----------------------------------------------------------------------------
(* The invariant and what follows from it.                                 *)

LEMMA InitIInv == Init => IInv
<1> SUFFICES ASSUME Init PROVE IInv
  OBVIOUS
<1>1. TypeOK
  BY TimeAssumption DEF Init, TypeOK, Ticket, Idle
<1>2. CacheKept
  <2> DEFINE first == [login |-> 1, key |-> 0, issued |-> 0, expiresAt |-> Lifetime]
  <2>1. /\ first \in Ticket /\ first.login = 1 /\ first.key = 0 /\ first.issued = 0
        /\ first.expiresAt = Lifetime
    BY TimeAssumption DEF Ticket
  <2>2. cached = None \/ (logins = 1 /\ cached = first /\ key = 0)
    BY DEF Init
  <2> HIDE DEF first
  <2>3. QED
    BY <2>1, <2>2, TimeAssumption DEF CacheKept, Issued
<1>3. LoginKept
  BY DEF Init, LoginKept
<1>4. \A r \in Requests : Request(r)
  <2> SUFFICES ASSUME NEW r \in Requests PROVE Request(r)
    OBVIOUS
  <2>1. pc[r] = "new" /\ tries[r] = 1 /\ refused[r] = 0 /\ logins \in Nat
    BY <1>1 DEF Init, TypeOK
  <2>2. QED
    BY <2>1 DEF Request, InLine, Carries, Renewed, Followed, Retrying
<1>5. QED
  BY <1>1, <1>2, <1>3, <1>4 DEF IInv

LEMMA NextIInv == IInv /\ [Next]_vars => IInv'
<1> SUFFICES ASSUME IInv, [Next]_vars PROVE IInv'
  OBVIOUS
<1>1. ASSUME NEW r \in Requests, RequestStep(r) PROVE IInv'
  BY <1>1, BeginIInv, AnsweredIInv, RequestFailsIInv, NodeAnswersIInv DEF RequestStep
<1>2. CASE UNCHANGED vars
  <2>1. TypeOK' /\ CacheKept' /\ LoginKept'
    BY <1>2 DEF IInv, TypeOK, CacheKept, LoginKept, Issued, vars, node
  <2>2. \A r \in Requests : Request(r)'
    BY <1>2, Others DEF vars
  <2>3. QED
    BY <2>1, <2>2 DEF IInv
<1>3. QED
  BY <1>1, <1>2, LoginReturnsIInv, LoginFailsIInv, DestroyIInv, NodeLoginIInv,
     RotateKeyIInv, ChangePasswordIInv, TickIInv DEF Next

LEMMA Invariance == Spec => []IInv
BY InitIInv, NextIInv, PTL DEF Spec

(* The state is well typed.                                                *)
THEOREM TypeCorrect == Spec => []TypeOK
<1>1. IInv => TypeOK
  BY DEF IInv
<1>2. QED
  BY <1>1, Invariance, PTL

(* With a margin of two flights, getTicket never hands out a ticket that   *)
(* expires before the node reads it, though the client's expiresAt is late.*)
THEOREM NothingExpired == Spec => []NeverSendsExpired
<1>1. IInv => NeverSendsExpired
  BY TimeAssumption
     DEF IInv, TypeOK, Request, Carries, Issued, Lasts, Ticket, NeverSendsExpired
<1>2. QED
  BY <1>1, Invariance, PTL

(* The retry of PveClient.request carries a ticket of a later login than   *)
(* the one a 401 answered.                                                 *)
THEOREM FreshRetry == Spec => []RetryUsesNewLogin
<1>1. IInv => RetryUsesNewLogin
  BY DEF IInv, TypeOK, Request, Carries, Renewed, Issued, Ticket, RetryUsesNewLogin
<1>2. QED
  BY <1>1, Invariance, PTL

(* As long as the node changed its signing key at most once, no request    *)
(* ends in an auth error while the password is right and the clock true.   *)
THEOREM OneRotation == Spec => [](key <= 1 => RotationIsInvisible)
<1>1. IInv => (key <= 1 => RotationIsInvisible)
  BY DEF IInv, Request, Followed, RotationIsInvisible
<1>2. QED
  BY <1>1, Invariance, PTL
=============================================================================
