------------------------------ MODULE Tickets -------------------------------
(***************************************************************************)
(* The ticket tier of the client: PveAuth's cached ticket and the login in *)
(* flight that concurrent callers share (core/auth.ts), under the requests *)
(* of PveClient.request, each of which is retried once after a 401         *)
(* (core/client.ts), against a node that may change its signing key.       *)
(*                                                                         *)
(* An action is one uninterrupted run of the event loop.  The promises of  *)
(* one settled login wake their waiters in one action: a forceRefresh that *)
(* waited for it runs before every caller that takes its ticket from it,   *)
(* being fewer promise hops away.  Time is counted in ticks.               *)
(*                                                                         *)
(* A definition named X_Something and commented "Wrong:" is a mutant of X, *)
(* a bug the properties below must catch.                                  *)
(***************************************************************************)
EXTENDS Naturals

CONSTANTS
  Requests,      \* calls of PveClient.request on the ticket tier
  Lifetime,      \* TICKET_LIFETIME_MS: how long the node honours a ticket
  Margin,        \* TICKET_RENEW_MARGIN_MS
  Latency,       \* the HTTP timeout: longest flight of a request
  MaxTime,       \* bound on the clock
  MaxRotations,  \* bound on the changes of the node's signing key
  Refusal,       \* an answer of the node that carries no ticket
  None

ASSUME TimeAssumption ==
  /\ Lifetime \in Nat /\ Margin \in Nat /\ Latency \in Nat
  /\ MaxTime \in Nat /\ MaxRotations \in Nat
  /\ 2 * Latency <= Margin /\ Margin + Latency < Lifetime

VARIABLES
  now,         \* Date.now(), and the node's clock
  key,         \* how often the node changed its signing key
  skewed,      \* the node refuses every ticket, fresh ones too
  passwordOk,  \* the configured password is the user's password
  logins,      \* password logins the node accepted
  cached,      \* PveAuth.currentTicket
  pending,     \* PveAuth.pending: the POST /access/ticket in flight
  pc,          \* pc[r]: what request r waits for
  tries,       \* tries[r]: the attempt it is in
  sent,        \* sent[r]: the ticket in its headers, when, and the answer
  refused      \* refused[r]: the login behind the ticket a 401 answered

node == <<key, skewed, passwordOk>>
vars == <<now, node, logins, cached, pending, pc, tries, sent, refused>>

\* A ticket: the password login it descends from, the key that signed it, the
\* node's time of issue, and expiresAt as the client computed it.
Ticket == [login : Nat, key : Nat, issued : Nat, expiresAt : Nat]

\* What a login in flight carries: the password, or the ticket to renew.
Login == [with : Ticket \cup {None}, at : Nat,
          reply : Ticket \cup {None, Refusal}]
Idle == [ticket |-> None, at |-> 0, reply |-> "none"]

ASSUME ValuesAssumption ==
  None # Refusal /\ None \notin Ticket /\ Refusal \notin Ticket /\ None \notin Login

Over == {"ok", "denied", "failed"}

\* The client is new, or an earlier request has just logged in.
Init ==
  /\ now = 0
  /\ key = 0
  /\ skewed \in BOOLEAN
  /\ passwordOk = TRUE
  /\ \/ logins = 0 /\ cached = None
     \/ /\ logins = 1
        /\ cached = [login |-> 1, key |-> 0, issued |-> 0, expiresAt |-> Lifetime]
  /\ pending = None
  /\ pc = [r \in Requests |-> "new"]
  /\ tries = [r \in Requests |-> 1]
  /\ sent = [r \in Requests |-> Idle]
  /\ refused = [r \in Requests |-> 0]

-----------------------------------------------------------------------------
(* PveAuth.                                                                *)

\* Wrong: the cached ticket is used to the end of its lifetime.
Fresh_NoMargin(t) == t # None /\ now < t.expiresAt

\* getTicket answers from the cache until the last quarter hour.
Fresh(t) == t # None /\ now < t.expiresAt - Margin

\* login(): renew with the cached ticket, or log in with the password.
StartLogin(ticket) == [with |-> ticket, at |-> now, reply |-> None]

Send(t) == [ticket |-> t, at |-> now, reply |-> "none"]

\* authHeaders: the ticket is at hand, or authenticate() is joined or started.
Begin(r) ==
  /\ pc[r] = "new"
  /\ IF Fresh(cached)
     THEN /\ pc' = [pc EXCEPT ![r] = "sent"]
          /\ sent' = [sent EXCEPT ![r] = Send(cached)]
          /\ UNCHANGED pending
     ELSE /\ pc' = [pc EXCEPT ![r] = "ticket"]
          /\ pending' = IF pending = None THEN StartLogin(cached) ELSE pending
          /\ UNCHANGED sent
  /\ UNCHANGED <<now, node, logins, cached, tries, refused>>

\* The login settled: pending is cleared, every waiter goes on.  A
\* forceRefresh that waited for it discards the ticket and logs in again; a
\* caller with a ticket sends it, unless a refresh discarded the one a retry
\* would look up; without a ticket it gives up with the login's outcome.
Settle(ticket, outcome) ==
  LET waiting == {r \in Requests : pc[r] = "waiting"}
      kept == IF waiting = {} THEN ticket ELSE None
      Next1(r) ==
        CASE pc[r] = "waiting" -> "refresh"
          [] pc[r] = "ticket" -> IF ticket # None THEN "sent" ELSE outcome
          [] pc[r] = "refresh" -> IF ticket = None THEN outcome
                                  ELSE IF kept # None THEN "sent" ELSE "ticket"
          [] OTHER -> pc[r]
  IN
  /\ pc' = [r \in Requests |-> Next1(r)]
  /\ sent' = [r \in Requests |->
       IF pc[r] \in {"ticket", "refresh"} /\ Next1(r) = "sent"
       THEN Send(ticket) ELSE sent[r]]
  /\ pending' = IF waiting = {} THEN None ELSE StartLogin(None)
  /\ cached' = IF waiting # {} THEN None
               ELSE IF ticket # None THEN ticket ELSE cached

\* Wrong: a rejected renewal is tried again with the ticket it was for.
LoginReturns_RenewsAgain ==
  /\ pending # None
  /\ pending.reply # None
  /\ IF pending.reply # Refusal
     THEN Settle([pending.reply EXCEPT !.expiresAt = now + Lifetime], "ok")
     ELSE IF pending.with # None
     THEN /\ pending' = StartLogin(pending.with)
          /\ UNCHANGED <<cached, pc, sent>>
     ELSE Settle(None, "denied")
  /\ UNCHANGED <<now, node, logins, tries, refused>>

\* The answer to the POST arrives.
LoginReturns ==
  /\ pending # None
  /\ pending.reply # None
  /\ IF pending.reply # Refusal
     THEN Settle([pending.reply EXCEPT !.expiresAt = now + Lifetime], "ok")
     ELSE IF pending.with # None
     THEN \* a rejected renewal falls back to the password
          /\ cached' = None
          /\ pending' = StartLogin(None)
          /\ UNCHANGED <<pc, sent>>
     ELSE Settle(None, "denied")
  /\ UNCHANGED <<now, node, logins, tries, refused>>

\* The POST dies in a timeout, a reset, or an answer that is no ticket.
LoginFails ==
  /\ pending # None
  /\ Settle(None, "failed")
  /\ UNCHANGED <<now, node, logins, tries, refused>>

\* destroy(), from PveClient.close: a login in flight is left alone.
Destroy ==
  /\ cached # None
  /\ cached' = None
  /\ UNCHANGED <<now, node, logins, pending, pc, tries, sent, refused>>

-----------------------------------------------------------------------------
(* PveClient.request.                                                      *)

\* Wrong: forceRefresh joins the login in flight.
Refresh_Joins(r) ==
  /\ pc' = [pc EXCEPT ![r] = "refresh"]
  /\ cached' = None
  /\ pending' = IF pending = None THEN StartLogin(None) ELSE pending

\* forceRefresh first waits for a login that is in flight.
Refresh(r) ==
  IF pending # None
  THEN /\ pc' = [pc EXCEPT ![r] = "waiting"]
       /\ UNCHANGED <<cached, pending>>
  ELSE /\ pc' = [pc EXCEPT ![r] = "refresh"]
       /\ cached' = None
       /\ pending' = StartLogin(None)

\* Wrong: a 401 is final.
Answered_Once(r) ==
  /\ pc[r] = "sent"
  /\ sent[r].reply # "none"
  /\ pc' = [pc EXCEPT ![r] = IF sent[r].reply = "200" THEN "ok" ELSE "denied"]
  /\ sent' = [sent EXCEPT ![r] = Idle]
  /\ UNCHANGED <<now, node, logins, cached, pending, tries, refused>>

\* Wrong: every 401 is retried.
Answered_Always(r) ==
  /\ pc[r] = "sent"
  /\ sent[r].reply # "none"
  /\ IF sent[r].reply = "200"
     THEN pc' = [pc EXCEPT ![r] = "ok"] /\ UNCHANGED <<cached, pending, tries, refused>>
     ELSE /\ tries' = [tries EXCEPT ![r] = @ + 1]
          /\ refused' = [refused EXCEPT ![r] = sent[r].ticket.login]
          /\ pc' = [pc EXCEPT ![r] = "refresh"]
          /\ cached' = None
          /\ pending' = StartLogin(None)
  /\ sent' = [sent EXCEPT ![r] = Idle]
  /\ UNCHANGED <<now, node, logins>>

\* A 401 discards the ticket and logs in again, once.
Answered(r) ==
  /\ pc[r] = "sent"
  /\ sent[r].reply # "none"
  /\ IF sent[r].reply = "200"
     THEN pc' = [pc EXCEPT ![r] = "ok"] /\ UNCHANGED <<cached, pending, tries, refused>>
     ELSE IF tries[r] = 2
     THEN pc' = [pc EXCEPT ![r] = "denied"] /\ UNCHANGED <<cached, pending, tries, refused>>
     ELSE /\ tries' = [tries EXCEPT ![r] = 2]
          /\ refused' = [refused EXCEPT ![r] = sent[r].ticket.login]
          /\ Refresh(r)
  /\ sent' = [sent EXCEPT ![r] = Idle]
  /\ UNCHANGED <<now, node, logins>>

RequestFails(r) ==
  /\ pc[r] = "sent"
  /\ pc' = [pc EXCEPT ![r] = "failed"]
  /\ sent' = [sent EXCEPT ![r] = Idle]
  /\ UNCHANGED <<now, node, logins, cached, pending, tries, refused>>

-----------------------------------------------------------------------------
(* The node: external code, as the client's comments describe it.          *)

Honours(t) == ~skewed /\ t.key = key /\ now < t.issued + Lifetime

NodeLogin ==
  /\ pending # None
  /\ pending.reply = None
  /\ LET Issue(n) == [login |-> n, key |-> key, issued |-> now, expiresAt |-> 0]
     IN IF pending.with = None
        THEN /\ logins' = IF passwordOk THEN logins + 1 ELSE logins
             /\ pending' = [pending EXCEPT !.reply =
                  IF passwordOk THEN Issue(logins + 1) ELSE Refusal]
        ELSE /\ UNCHANGED logins
             /\ \E honour \in {FALSE, Honours(pending.with)} :
                  pending' = [pending EXCEPT !.reply =
                    IF honour THEN Issue(pending.with.login) ELSE Refusal]
  /\ UNCHANGED <<now, node, cached, pc, tries, sent, refused>>

NodeAnswers(r) ==
  /\ pc[r] = "sent"
  /\ sent[r].reply = "none"
  /\ sent' = [sent EXCEPT ![r].reply =
       IF Honours(sent[r].ticket) THEN "200" ELSE "401"]
  /\ UNCHANGED <<now, node, logins, cached, pending, pc, tries, refused>>

RotateKey ==
  /\ key < MaxRotations
  /\ key' = key + 1
  /\ UNCHANGED <<now, skewed, passwordOk, logins, cached, pending, pc, tries,
                 sent, refused>>

ChangePassword ==
  /\ passwordOk
  /\ passwordOk' = FALSE
  /\ UNCHANGED <<now, key, skewed, logins, cached, pending, pc, tries, sent,
                 refused>>

\* The HTTP timeout ends a flight before it is older than Latency.
Tick ==
  /\ now < MaxTime
  /\ pending # None => now < pending.at + Latency
  /\ \A r \in Requests : pc[r] = "sent" => now < sent[r].at + Latency
  /\ now' = now + 1
  /\ UNCHANGED <<node, logins, cached, pending, pc, tries, sent, refused>>

-----------------------------------------------------------------------------
RequestStep(r) == Begin(r) \/ Answered(r) \/ RequestFails(r) \/ NodeAnswers(r)

Next ==
  \/ \E r \in Requests : RequestStep(r)
  \/ LoginReturns \/ LoginFails \/ Destroy \/ NodeLogin
  \/ RotateKey \/ ChangePassword \/ Tick

\* The HTTP timeout settles every flight; a settled promise runs on.
Fairness ==
  /\ \A r \in Requests : WF_vars(Answered(r) \/ RequestFails(r))
  /\ WF_vars(LoginReturns \/ LoginFails)

Spec == Init /\ [][Next]_vars
FairSpec == Spec /\ Fairness

-----------------------------------------------------------------------------
(* Properties.                                                             *)

\* Type invariant.
TypeOK ==
  /\ now \in 0..MaxTime
  /\ key \in 0..MaxRotations
  /\ skewed \in BOOLEAN /\ passwordOk \in BOOLEAN
  /\ logins \in Nat
  /\ cached \in Ticket \cup {None}
  /\ pending \in Login \cup {None}
  /\ pc \in [Requests -> {"new", "ticket", "sent", "waiting", "refresh"} \cup Over]
  /\ tries \in [Requests -> 1..2]
  /\ sent \in [Requests -> [ticket : Ticket \cup {None}, at : Nat,
                            reply : {"none", "200", "401"}]]
  /\ refused \in [Requests -> Nat]

\* The renewal margin does its work: a ticket the client sends, cached or from
\* the login it shared, is still within its lifetime when the node reads it,
\* although expiresAt is computed from the arrival of the answer and not from
\* the time of issue.
NeverSendsExpired ==
  \A r \in Requests :
    (pc[r] = "sent" /\ sent[r].reply = "none")
      => now < sent[r].ticket.issued + Lifetime

\* The retry never repeats the refused credential: its ticket descends from a
\* password login later than the one behind the refused ticket, although a
\* renewal of that ticket, or another request's refresh, was in flight.
RetryUsesNewLogin ==
  \A r \in Requests :
    (pc[r] = "sent" /\ tries[r] = 2) => sent[r].ticket.login > refused[r]

\* A change of the signing key is invisible to callers: no request ends in an
\* auth error while the password is right, however the logins and refreshes of
\* the others interleave.  (Two changes during one request may show.)
RotationIsInvisible ==
  (passwordOk /\ ~skewed) => \A r \in Requests : pc[r] # "denied"

\* Every request settles: the single retry ends even against a node that
\* refuses every ticket, and a failed login releases all who share it.
RequestsSettle == \A r \in Requests : pc[r] # "new" ~> pc[r] \in Over
=============================================================================
