-------------------------- MODULE OpenIdSessions --------------------------
(***************************************************************************)
(* The sessions of OpenIdHandler (http/handlers/openid.rs): the workers of *)
(* a process share SESSION_STORE, a map behind a lock of the standard      *)
(* library, and a login takes two requests, which may come to different    *)
(* workers: one that is redirected to the provider, and the callback, with *)
(* the code that the provider gives and the state of the redirect.         *)
(*                                                                         *)
(* A section that holds the lock has no await, so it is one step.  A       *)
(* thread that waits for the lock is lost to everything else it serves.    *)
(*                                                                         *)
(* Clients and the provider are external.  Nothing is assumed of clients:  *)
(* a request may have any cookie, and a callback any code with any state,  *)
(* once or again, also those of other requests and of an earlier life of   *)
(* the process, and a state that was never issued.  The provider may give  *)
(* several codes for a nonce, and takes each of them once.  The state and  *)
(* the nonce of a redirect are named by one number.                        *)
(***************************************************************************)
EXTENDS Naturals, FiniteSets

CONSTANTS
  Requests,    \* names for the requests that are under way together
  Workers,
  Codes,       \* the codes of the provider, each for a nonce
  None,
  MaxSessions, \* bound on the redirects
  MaxRestarts  \* bound on the restarts of the process

Sessions == 1..MaxSessions
\* 0 stands for whatever was never issued.
States == {0} \cup Sessions
SessionState == [nonce: Sessions, access_token: Codes \cup {None}]
\* What a callback has in its URL; no code of the provider's is None.
CallbackPair == [code: Codes \cup {None}, state: States]

ASSUME OpenIdAssumption ==
  /\ MaxSessions \in Nat /\ MaxRestarts \in Nat
  /\ Codes \subseteq [nonce: Sessions, no: Nat]
  /\ None \notin Workers /\ None \notin States /\ None \notin Codes
  /\ None \notin SessionState /\ None \notin CallbackPair

VARIABLES
  store,    \* SESSION_STORE, by state
  issued,   \* how many states and nonces have been made
  base,     \* how many had been when the process started, a history
  stuck,    \* the workers that wait for the lock
  dead,     \* the workers that have panicked
  restarts,
  req,      \* the code and state of each request, None if it has not both
  pc,       \* where it is
  at,       \* the worker that has it
  session,  \* what it is served under
  nonce,    \* the nonce of the session as it was read
  used      \* the codes that the provider has taken

workerVars == <<stuck, dead>>
lifeVars == <<base, restarts>>
requestVars == <<req, pc, at, session, nonce>>
vars == <<store, issued, workerVars, lifeVars, requestVars, used>>

Places == {"idle", "check", "discover", "exchange", "taken", "refused", "inner"}

Goto(r, place) == pc' = [pc EXCEPT ![r] = place]
Runs(r, place) == pc[r] = place /\ at[r] \notin stuck \cup dead
Authed(s) == s \in Sessions /\ store[s] # None /\ store[s].access_token # None

\* The visits that may yet be redirected.
Visiting == {r \in Requests : pc[r] \in {"check", "discover"} /\ req[r] = None}

-----------------------------------------------------------------------------
(* Clients, the provider, and the process.                                 *)

Send(r, pair) ==
  /\ pc[r] = "idle"
  /\ \E w \in Workers \ dead : at' = [at EXCEPT ![r] = w]
  /\ req' = [req EXCEPT ![r] = pair]
  /\ Goto(r, "check")
  /\ UNCHANGED <<store, issued, workerVars, lifeVars, session, nonce, used>>

\* A request without a code or without a state.
Visit(r) ==
  /\ issued + Cardinality(Visiting) < MaxSessions
  /\ Send(r, None)

\* One with both, whosever and however old they are.
Callback(r) ==
  \E pair \in CallbackPair :
    /\ pair.state <= issued
    /\ pair.code # None => pair.code.nonce <= issued
    /\ Send(r, pair)

TakeCode(r) ==
  /\ Runs(r, "exchange")
  /\ IF req[r].code \in used \cup {None} THEN Goto(r, "refused") /\ UNCHANGED used
     ELSE Goto(r, "taken") /\ used' = used \cup {req[r].code}
  /\ UNCHANGED <<store, issued, workerVars, lifeVars, req, at, session, nonce>>

\* The requests in R are over.
End(R) ==
  LET Without(f, none) == [r \in Requests |-> IF r \in R THEN none ELSE f[r]] IN
  /\ pc' = Without(pc, "idle") /\ at' = Without(at, None) /\ req' = Without(req, None)
  /\ session' = Without(session, None) /\ nonce' = Without(nonce, None)

\* The store is in memory only.
Restart ==
  /\ restarts < MaxRestarts
  /\ restarts' = restarts + 1
  /\ store' = [s \in Sessions |-> None]
  /\ base' = issued
  /\ stuck' = {} /\ dead' = {}
  /\ End(Requests)
  /\ UNCHANGED <<issued, used>>

-----------------------------------------------------------------------------
(* OpenIdHandler::call.                                                    *)

\* The worker's requests are lost with it.
Panics(w) ==
  /\ dead' = dead \cup {w}
  /\ End({r \in Requests : at[r] = w})
  /\ UNCHANGED <<store, issued, stuck, lifeVars, used>>

\* A writer waits for the read guard of its own thread, and whoever comes after
\* it, to read or to write, waits for the writer.
Blocks(r) ==
  /\ stuck' = stuck \cup {at[r]}
  /\ UNCHANGED <<store, issued, dead, lifeVars, requestVars, used>>

\* The session of the cookie is looked up, twice, under the lock.
Check(r) ==
  /\ Runs(r, "check")
  /\ \E cookie \in {None} \cup 0..issued :
       IF cookie # None /\ stuck # {} THEN Blocks(r)
       ELSE /\ IF Authed(cookie)
               THEN session' = [session EXCEPT ![r] = cookie] /\ Goto(r, "inner")
               ELSE UNCHANGED session /\ Goto(r, "discover")
            /\ UNCHANGED <<store, issued, workerVars, lifeVars, req, at, nonce, used>>

\* unwrap of a Cookie header that is not text or does not parse.
CheckFails(r) == Runs(r, "check") /\ Panics(at[r])

\* unreachable! after handle_error; expect and unwrap in async_http_client.
DiscoverFails(r) == Runs(r, "discover") /\ Panics(at[r])

\* Faulty variant: the session is left to the callback.
RedirectForgetting(r) ==
  /\ Runs(r, "discover") /\ req[r] = None
  /\ IF stuck # {} THEN Blocks(r)
     ELSE /\ issued' = issued + 1
          /\ End({r})
          /\ UNCHANGED <<store, workerVars, lifeVars, used>>

\* The session is there before the client hears of it.
Redirect(r) ==
  /\ Runs(r, "discover") /\ req[r] = None
  /\ IF stuck # {} THEN Blocks(r)
     ELSE /\ issued' = issued + 1
          /\ store' = [store EXCEPT ![issued + 1] = [nonce |-> issued + 1,
                                                     access_token |-> None]]
          /\ End({r})
          /\ UNCHANGED <<workerVars, lifeVars, used>>

Known(r) == req[r].state \in Sessions /\ store[req[r].state] # None

\* The callback of a session that is there.
FindSession(r) ==
  /\ Runs(r, "discover") /\ req[r] # None
  /\ IF stuck # {} THEN Blocks(r)
     ELSE /\ Known(r)
          /\ nonce' = [nonce EXCEPT ![r] = store[req[r].state].nonce]
          /\ Goto(r, "exchange")
          /\ UNCHANGED <<store, issued, workerVars, lifeVars, req, at, session, used>>

\* One that is not: the write lock is taken under the read guard, which blocks,
\* or panics where the lock finds that out.
UnknownSession(r) ==
  /\ Runs(r, "discover") /\ req[r] # None
  /\ stuck = {} /\ ~Known(r)
  /\ Blocks(r) \/ Panics(at[r])

Exchanging(r) == \E place \in {"exchange", "taken", "refused"} : Runs(r, place)

\* Faulty variant: handle_error returns, and the request goes on.
ExchangeFailsServing(r) ==
  /\ Exchanging(r)
  /\ session' = [session EXCEPT ![r] = req[r].state]
  /\ Goto(r, "inner")
  /\ UNCHANGED <<store, issued, workerVars, lifeVars, req, at, nonce, used>>

\* Faulty variant: a refused login ends its session.
ExchangeFailsForgetting(r) ==
  /\ Exchanging(r)
  /\ dead' = dead \cup {at[r]}
  /\ End({q \in Requests : at[q] = at[r]})
  /\ store' = [store EXCEPT ![req[r].state] = None]
  /\ UNCHANGED <<issued, stuck, lifeVars, used>>

\* The provider does not answer, the code is refused, or the ID token has
\* another nonce.
ExchangeFails(r) == Exchanging(r) /\ Panics(at[r])

\* Has the code that the provider took the nonce of the session?
Verified(r) == req[r].code.nonce = nonce[r]

\* Faulty variant: the session that the callback found is kept, with its guard.
StoreTokenUnderGuard(r) ==
  /\ Runs(r, "taken") /\ Verified(r)
  /\ Blocks(r)

\* The session gets its token, in place of the one it may have.
StoreToken(r) ==
  /\ Runs(r, "taken") /\ Verified(r)
  /\ IF stuck # {} THEN Blocks(r)
     ELSE /\ store' = [store EXCEPT ![req[r].state].access_token = req[r].code]
          /\ session' = [session EXCEPT ![r] = req[r].state]
          /\ Goto(r, "inner")
          /\ UNCHANGED <<issued, workerVars, lifeVars, req, at, nonce, used>>

\* The inner handler returns, with an error too.
Inner(r) ==
  /\ Runs(r, "inner")
  /\ End({r})
  /\ UNCHANGED <<store, issued, workerVars, lifeVars, used>>

-----------------------------------------------------------------------------
Init ==
  /\ store = [s \in Sessions |-> None]
  /\ issued = 0 /\ base = 0
  /\ stuck = {} /\ dead = {}
  /\ restarts = 0
  /\ pc = [r \in Requests |-> "idle"]
  /\ req = [r \in Requests |-> None] /\ at = req
  /\ session = req /\ nonce = req
  /\ used = {}

Client(r) == Visit(r) \/ Callback(r)
Handle(r) == \/ Check(r) \/ Redirect(r) \/ FindSession(r) \/ UnknownSession(r)
             \/ StoreToken(r) \/ Inner(r)
Fail(r) == CheckFails(r) \/ DiscoverFails(r) \/ ExchangeFails(r)
Refused(r) == pc[r] = "refused" \/ (pc[r] = "taken" /\ ~Verified(r))

Next ==
  \/ \E r \in Requests : Client(r) \/ Handle(r) \/ TakeCode(r) \/ Fail(r)
  \/ Restart

\* Workers poll what can go on; the provider answers, and a request that is
\* refused fails.
Fairness ==
  \A r \in Requests :
    /\ WF_vars(Handle(r))
    /\ WF_vars(TakeCode(r))
    /\ WF_vars(Fail(r) /\ Refused(r))

Spec == Init /\ [][Next]_vars /\ Fairness

-----------------------------------------------------------------------------
TypeOK ==
  /\ store \in [Sessions -> SessionState \cup {None}]
  /\ issued \in 0..MaxSessions /\ base \in 0..issued
  /\ stuck \subseteq Workers /\ dead \subseteq Workers
  /\ restarts \in 0..MaxRestarts
  /\ req \in [Requests -> CallbackPair \cup {None}]
  /\ pc \in [Requests -> Places]
  /\ at \in [Requests -> Workers \cup {None}]
  /\ {session, nonce} \subseteq [Requests -> Sessions \cup {None}]
  /\ used \subseteq Codes

\* The states that this life of the process has sent out.
OfThisLife == base + 1..issued

\* A callback with a state that this life of the process has not sent out.
Foreign(r) == pc[r] = "discover" /\ req[r] # None /\ req[r].state \notin OfThisLife

\* Whenever workers wait for the lock of the store, they wait for one of them
\* that has a callback with a state that this process never sent out.  A login
\* blocks nobody, whichever workers its two requests come to, whatever is sent
\* again and with whichever other login it is mixed up: its session is there
\* before its state is sent out, and stays.
BlocksOnlyOnForeign == stuck # {} => \E r \in Requests : at[r] \in stuck /\ Foreign(r)

\* What reaches the inner handler is served under a session that this life of
\* the process made, with a token that the provider gave for the session's own
\* nonce: never for a failed exchange, a code of another login, or a session of
\* an earlier process.
ServedLoggedIn ==
  \A r \in Requests : pc[r] = "inner" =>
    LET s == session[r] IN
    /\ Authed(s) /\ s \in OfThisLife
    /\ store[s].access_token.nonce = store[s].nonce
    /\ store[s].access_token \in used

\* A session keeps its nonce until the process ends, and is not logged out, by
\* whatever callbacks fail or succeed for it on whichever workers: a token is
\* replaced only by one for the same nonce.
SessionsKept ==
  [][restarts' = restarts =>
       \A s \in Sessions : store[s] # None =>
         /\ store'[s] # None /\ store'[s].nonce = store[s].nonce
         /\ store[s].access_token # None =>
              LET old == store[s].access_token  new == store'[s].access_token IN
              new # None /\ new.nonce = old.nonce]_vars

\* Every request gets through the handler, unless a worker panics (the provider
\* fails or refuses a code, a cookie does not parse) or a callback comes with a
\* state that this life of the process has not sent out.
RequestsAnswered ==
  [](dead = {} /\ \A r \in Requests : ~Foreign(r)) =>
    \A r \in Requests : pc[r] # "idle" ~> pc[r] = "idle"

-----------------------------------------------------------------------------
(* The inductive invariant.                                                *)

\* Each visit that may yet be redirected has its session to come.
CountInv == IsFiniteSet(Visiting) /\ issued + Cardinality(Visiting) <= MaxSessions

\* The sessions are those of this life; a token is by a code of the nonce.
StoreInv ==
  \A s \in Sessions :
    /\ store[s] # None <=> s \in OfThisLife
    /\ store[s] # None =>
         /\ store[s].nonce = s
         /\ store[s].access_token # None =>
              store[s].access_token.nonce = s /\ store[s].access_token \in used

\* Where a request is, it has what it needs there; the session that it found,
\* and the nonce that it read, are still those of the store.
RequestInv ==
  \A r \in Requests :
    /\ pc[r] = "idle" <=> at[r] = None
    /\ pc[r] \in {"exchange", "taken", "refused"} =>
         req[r] # None /\ Known(r) /\ nonce[r] = req[r].state
    /\ pc[r] = "taken" => req[r].code # None /\ req[r].code \in used
    /\ pc[r] = "inner" => Authed(session[r])

IInv == TypeOK /\ CountInv /\ StoreInv /\ RequestInv /\ BlocksOnlyOnForeign
=============================================================================
