------------------------------ MODULE KeyChain ------------------------------
(***************************************************************************)
(* The agent key of a cloud session (key-chain.ts): KeyChainAuth renews it *)
(* at start, on a timer and after a 401, and ends it; authRetryingFetch    *)
(* sends a request that came back 401 once more.  The server that rotates  *)
(* keys and the services that accept them are external, and answer in any  *)
(* way the code has a case for.                                            *)
(*                                                                         *)
(* Time is what is left of each delay, so that nothing grows and there is  *)
(* no last renewal.  A key is told from others by whether it is the one    *)
(* the harness holds, one in an answer under way, or one whose answer was  *)
(* lost.  Log lines and the reasons of a refusal are left out.             *)
(***************************************************************************)
EXTENDS Integers

CONSTANTS
  Requests,     \* requests of the AI and MCP clients under way at a time
  Lifetime,     \* AGENT_KEY_LIFETIME_MS
  RenewBefore,  \* AGENT_KEY_RENEW_BEFORE_MS
  MinInterval,  \* MIN_RENEW_INTERVAL_MS
  Delay,        \* a retry's delay (retryDelays, all alike)
  MaxRetries    \* the number of retryDelays

ASSUME KeyAssumption ==
  /\ {Lifetime, RenewBefore, MinInterval, Delay} \subseteq Nat \ {0}
  /\ MaxRetries \in Nat
  /\ RenewBefore < Lifetime /\ MinInterval < Lifetime

VARIABLES
  started,   \* start() was called
  live,      \* the keys the server accepts: "current", "coming", "lost"
  left,      \* until expiresAt
  since,     \* since lastRenewedAt, up to MinInterval
  timer,     \* until the timer fires; NoTimer
  renewing,  \* the renewal under way: where it is
  reply,     \* the answer to it
  attempt,   \* its number of retries
  wait,      \* until the next of them
  again,     \* schedule() follows it
  ended,     \* ChainEnded: by the server's refusal, or given up
  stopped,
  ending,    \* where end() is
  request,   \* where each request is
  newer,     \* the chain has a newer key than the request went out with
  late       \* a renewal began after end()

chain   == <<started, left, since>>
renewal == <<renewing, reply, attempt, wait, again>>
finish  == <<ended, stopped, ending>>
clients == <<request, newer>>
vars == <<chain, live, timer, renewal, finish, clients, late>>

NoTimer == -1

Init ==
  /\ started = FALSE /\ live = {"current"} /\ left = Lifetime /\ since = MinInterval
  /\ timer = NoTimer
  /\ renewing = "none" /\ reply = "none" /\ attempt = 0 /\ wait = 0 /\ again = FALSE
  /\ ended = "none" /\ stopped = FALSE /\ ending = "none"
  /\ request = [r \in Requests |-> "idle"] /\ newer = [r \in Requests |-> FALSE]
  /\ late = FALSE

-----------------------------------------------------------------------------
(***************************************************************************)
(* renew(): one renewal at a time, which those who ask meanwhile share.    *)
(***************************************************************************)
Renew(reschedule) ==
  IF renewing = "none"
  THEN /\ renewing' = "sent" /\ attempt' = 0 /\ again' = reschedule /\ late' = stopped
       /\ UNCHANGED <<reply, wait>>
  ELSE /\ again' = (again \/ reschedule) /\ UNCHANGED <<renewing, reply, attempt, wait, late>>

Start ==
  /\ ~started /\ ~stopped /\ started' = TRUE
  /\ Renew(TRUE)
  /\ UNCHANGED <<live, left, since, timer, finish, clients>>

(* Mutant of Due: the renewal is due when the key is gone.                 *)
DueAtTheEnd(keyLeft) == IF keyLeft > MinInterval THEN keyLeft + 1 ELSE MinInterval

(* schedule(), right after a renewal.                                      *)
Due(keyLeft) ==
  IF keyLeft - RenewBefore > MinInterval THEN keyLeft - RenewBefore ELSE MinInterval

TimerFires ==
  /\ timer = 0 /\ timer' = NoTimer
  /\ Renew(TRUE)
  /\ UNCHANGED <<chain, live, finish, clients>>

-----------------------------------------------------------------------------
(***************************************************************************)
(* The renew route (external): it retires the key and mints its successor, *)
(* of which the harness may not hear; it fails, or refuses.                *)
(***************************************************************************)
Answered(r) == renewing = "sent" /\ renewing' = "answered" /\ reply' = r

Rotate ==
  /\ "current" \in live
  /\ \/ Answered("ok") /\ live' = (live \ {"current"}) \cup {"coming"}
     \/ Answered("retry") /\ live' = (live \ {"current"}) \cup {"lost"}
     \/ Answered("refused") /\ live' = live \ {"current"}
  /\ UNCHANGED <<chain, timer, attempt, wait, again, finish, clients, late>>

DoNotRotate ==
  /\ \/ Answered("retry") \/ Answered("refused")
  /\ UNCHANGED <<chain, live, timer, attempt, wait, again, finish, clients, late>>

(* The chain's time is up, or its owner no longer a member.                *)
Revoke ==
  /\ "current" \in live /\ live' = live \ {"current"}
  /\ UNCHANGED <<chain, timer, renewal, finish, clients, late>>

-----------------------------------------------------------------------------
(***************************************************************************)
(* The renewal is over; who waits for it goes on.                          *)
(***************************************************************************)
Settle(next) ==
  /\ renewing' = "none" /\ reply' = "none" /\ attempt' = 0 /\ again' = FALSE
  /\ request' = [r \in Requests |-> IF request[r] = "waiting" THEN next[r] ELSE request[r]]

(* A request that waits for the renewal of its own key, or of a later one. *)
Renewed ==
  /\ renewing = "answered" /\ reply = "ok"
  /\ live' = (live \ {"coming"}) \cup {"current"}
  /\ left' = Lifetime /\ since' = 0
  /\ newer' = [r \in Requests |-> TRUE]
  /\ Settle([r \in Requests |-> "retry"])
  /\ timer' = IF again /\ ~stopped THEN Due(Lifetime) ELSE timer
  /\ ending' = IF ending = "sent" THEN "stale" ELSE ending
  /\ UNCHANGED <<started, wait, ended, stopped, late>>

(* finish(): the runner is told, once.                                     *)
Finish(how) ==
  /\ ended' = how /\ timer' = NoTimer
  /\ Settle([r \in Requests |-> "idle"])
  /\ UNCHANGED <<chain, live, wait, stopped, ending, newer, late>>

Refused == renewing = "answered" /\ reply = "refused" /\ Finish("refused")

(* Mutant of MayRetry: retries go on until the key expires.                *)
MayRetryUntilExpiry == Delay < left

(* The next delay, and the key that outlasts it.                           *)
MayRetry == attempt < MaxRetries /\ Delay < left

GiveUp == renewing = "answered" /\ reply = "retry" /\ ~MayRetry /\ Finish("given up")

BackOff ==
  /\ renewing = "answered" /\ reply = "retry" /\ MayRetry
  /\ renewing' = "backoff" /\ reply' = "none" /\ attempt' = attempt + 1 /\ wait' = Delay
  /\ UNCHANGED <<chain, live, timer, again, finish, clients, late>>

(* The chain is stopped meanwhile: the renewal comes to nothing.           *)
TryAgain ==
  /\ renewing = "backoff" /\ wait = 0
  /\ IF stopped
     THEN /\ Settle([r \in Requests |-> IF newer[r] THEN "retry" ELSE "idle"])
          /\ UNCHANGED newer
     ELSE /\ renewing' = "sent" /\ UNCHANGED <<reply, attempt, again, clients>>
  /\ UNCHANGED <<chain, live, timer, wait, finish, late>>

-----------------------------------------------------------------------------
(* A request goes out with the key, once no renewal is under way.          *)
Send(r) ==
  /\ started /\ request[r] = "idle" /\ renewing = "none" /\ ended = "none"
  /\ request' = [request EXCEPT ![r] = "sent"] /\ newer' = [newer EXCEPT ![r] = FALSE]
  /\ UNCHANGED <<chain, live, timer, renewal, finish, late>>

(* The service (external) takes it, or answers 401, or 403                 *)
(* invalid-credentials: which it may do to a live key, too.                *)
Answer(r) ==
  /\ request[r] = "sent"
  /\ \E place \in {"idle", "unauthorized"} : request' = [request EXCEPT ![r] = place]
  /\ UNCHANGED <<chain, live, timer, renewal, finish, newer, late>>

(***************************************************************************)
(* renewAfterUnauthorized: the key was replaced since the request went     *)
(* out, or is being replaced, or is renewed now, or as soon as it may be.  *)
(***************************************************************************)
Goes(r, place) == request[r] = "unauthorized" /\ request' = [request EXCEPT ![r] = place]

TooLate(r) ==
  /\ ended # "none" /\ Goes(r, "idle")
  /\ UNCHANGED <<chain, live, timer, renewal, finish, newer, late>>

KeyWasReplaced(r) ==
  /\ ended = "none" /\ newer[r]
  /\ Goes(r, IF renewing = "none" THEN "retry" ELSE "waiting")
  /\ UNCHANGED <<chain, live, timer, renewal, finish, newer, late>>

(* Mutant of RenewSoon: the timer is stopped and not set again.            *)
RenewSoonForgets(r) ==
  /\ ended = "none" /\ ~newer[r] /\ since < MinInterval /\ Goes(r, "idle")
  /\ timer' = NoTimer
  /\ UNCHANGED <<chain, live, renewal, finish, newer, late>>

(* Mutant of RenewSoon: the request is sent again at once.                 *)
RenewSoonAndRetry(r) ==
  /\ ended = "none" /\ ~newer[r] /\ since < MinInterval /\ Goes(r, "retry")
  /\ timer' = IF stopped THEN NoTimer ELSE MinInterval - since
  /\ UNCHANGED <<chain, live, renewal, finish, newer, late>>

RenewSoon(r) ==
  /\ ended = "none" /\ ~newer[r] /\ since < MinInterval /\ Goes(r, "idle")
  /\ timer' = IF stopped THEN NoTimer ELSE MinInterval - since
  /\ UNCHANGED <<chain, live, renewal, finish, newer, late>>

RenewNow(r) ==
  /\ ended = "none" /\ ~newer[r] /\ since = MinInterval /\ Goes(r, "waiting")
  /\ Renew(FALSE)
  /\ UNCHANGED <<chain, live, timer, finish, newer>>

(* Sent once more, with the headers of now; none when the chain ended.     *)
Retry(r) ==
  /\ request[r] = "retry" /\ renewing = "none"
  /\ request' = [request EXCEPT ![r] = "idle"]
  /\ UNCHANGED <<chain, live, timer, renewal, finish, newer, late>>

-----------------------------------------------------------------------------
End ==
  /\ ~stopped /\ stopped' = TRUE /\ timer' = NoTimer /\ ending' = "waiting"
  /\ UNCHANGED <<chain, live, renewal, ended, clients, late>>

(* Mutant of PostEnd: the renewal under way is not waited for.             *)
PostEndAtOnce ==
  /\ ending = "waiting"
  /\ ending' = IF ended = "none" THEN "sent" ELSE "done"
  /\ UNCHANGED <<chain, live, timer, renewal, ended, stopped, clients, late>>

(* end() goes on when no renewal is under way.                             *)
PostEnd ==
  /\ ending = "waiting" /\ renewing = "none"
  /\ ending' = IF ended = "none" THEN "sent" ELSE "done"
  /\ UNCHANGED <<chain, live, timer, renewal, ended, stopped, clients, late>>

(* The end route (external) deletes the key it is given, or fails.         *)
EndAnswered ==
  /\ \/ ending = "sent" /\ live' = live \ {"current"} /\ ending' = "done"
     \/ ending = "stale" /\ UNCHANGED live /\ ending' = "done"
     \/ ending \in {"sent", "stale"} /\ UNCHANGED live /\ ending' = "failed"
  /\ UNCHANGED <<chain, timer, renewal, ended, stopped, clients, late>>

-----------------------------------------------------------------------------
(***************************************************************************)
(* Time passes; timers that are due run before it does.                    *)
(***************************************************************************)
Less(n) == IF n > 0 THEN n - 1 ELSE n

Tick ==
  /\ timer # 0 /\ ~(renewing = "backoff" /\ wait = 0)
  /\ left' = Less(left) /\ timer' = Less(timer) /\ wait' = Less(wait)
  /\ since' = IF since < MinInterval THEN since + 1 ELSE since
  /\ live' = IF left' = 0 THEN live \ {"current"} ELSE live
  /\ UNCHANGED <<started, renewing, reply, attempt, again, finish, clients, late>>

RenewAfterUnauthorized(r) ==
  TooLate(r) \/ KeyWasReplaced(r) \/ RenewSoon(r) \/ RenewNow(r)

RenewalStep == Renewed \/ Refused \/ GiveUp \/ BackOff \/ TryAgain
Client(r) == Answer(r) \/ RenewAfterUnauthorized(r) \/ Retry(r)

Next ==
  \/ Start \/ TimerFires \/ Rotate \/ DoNotRotate \/ Revoke \/ RenewalStep
  \/ \E r \in Requests : Send(r) \/ Client(r)
  \/ End \/ PostEnd \/ EndAnswered \/ Tick

Spec == Init /\ [][Next]_vars

(***************************************************************************)
(* Timers fire, a renewal's request is answered or times out, and what     *)
(* waits for it runs when it is over.                                      *)
(***************************************************************************)
FairSpec ==
  /\ Spec
  /\ WF_vars(Tick) /\ WF_vars(TimerFires) /\ WF_vars(RenewalStep)
  /\ WF_vars(Rotate \/ DoNotRotate)
  /\ \A r \in Requests : WF_vars(Client(r))

-----------------------------------------------------------------------------
FlagsOK ==
  /\ {started, stopped, again, late} \subseteq BOOLEAN
  /\ newer \in [Requests -> BOOLEAN]

PlacesOK ==
  /\ live \subseteq {"current", "coming", "lost"}
  /\ renewing \in {"none", "sent", "answered", "backoff"}
  /\ reply \in {"none", "ok", "retry", "refused"}
  /\ ended \in {"none", "refused", "given up"}
  /\ ending \in {"none", "waiting", "sent", "stale", "done", "failed"}
  /\ request \in [Requests -> {"idle", "sent", "unauthorized", "waiting", "retry"}]

TimesOK ==
  /\ left \in 0..Lifetime /\ since \in 0..MinInterval /\ timer \in {NoTimer} \cup 0..Lifetime
  /\ attempt \in 0..MaxRetries /\ wait \in 0..Delay

(* The state of the chain: flags, places in the code, and delays within    *)
(* their lengths (KeyChainAuth, its fields).                               *)
KeyTypeOK == FlagsOK /\ PlacesOK /\ TimesOK

(***************************************************************************)
(* A key that expired is being renewed: the timer of a chain that is not   *)
(* over comes before the end of the key, although renewals after a 401 do  *)
(* not set it and requests refused too early set it anew (key-chain.ts,    *)
(* "renews when 5 minutes of the 15 are left").  For servers that give     *)
(* full lifetimes.                                                         *)
(***************************************************************************)
ExpiredKeyIsBeingRenewed ==
  started /\ ~stopped /\ ended = "none" /\ left = 0 => renewing # "none" \/ timer = 0

(***************************************************************************)
(* A request is sent once more only with a key that is newer than the one  *)
(* it was refused with ("resolves true when a newer key is available to    *)
(* retry with", key-chain.ts).                                             *)
(***************************************************************************)
RetryCarriesNewerKey ==
  \A r \in Requests : request[r] = "retry" => newer[r]

(***************************************************************************)
(* After end() no key of the chain is left that the harness ever knew, a   *)
(* renewal that was under way or waiting for its next try included.  Not   *)
(* so when a 401 starts a renewal after end(), or the chain was over.      *)
(***************************************************************************)
EndLeavesNoKey ==
  ending = "done" /\ ended = "none" /\ ~late => live \subseteq {"lost"}

(***************************************************************************)
(* A chain whose key is dead at the server does not go on: it gets another *)
(* key, is stopped or ends, without a further request to show it ("a key   *)
(* that really was revoked still ends the chain promptly").                *)
(***************************************************************************)
DeadKeyIsNoticed ==
  started /\ "current" \notin live ~> "current" \in live \/ stopped \/ ended # "none"

=============================================================================
