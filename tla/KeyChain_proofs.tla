--------------------------- MODULE KeyChain_proofs ---------------------------
(***************************************************************************)
(* Proofs about KeyChain, for every number of requests and retries and     *)
(* every length of the delays: the type invariant, that requests are sent  *)
(* again with newer keys only, that end() leaves no key, and that no key   *)
(* expires unnoticed.                                                      *)
(***************************************************************************)
EXTENDS KeyChain, TLAPS

-----------------------------------------------------------------------------
(* The next renewal is due at some time within a key's life.               *)
LEMMA DueWithinLife == Due(Lifetime) \in 0..Lifetime
  BY KeyAssumption DEF Due

-----------------------------------------------------------------------------
(* A new chain has the shape of KeyTypeOK (the constructor of              *)
(* KeyChainAuth).                                                          *)
LEMMA KeyTypeInit == Init => KeyTypeOK
<1> SUFFICES ASSUME Init PROVE KeyTypeOK
  OBVIOUS
<1>1. FlagsOK
  BY DEF Init, FlagsOK
<1>2. PlacesOK
  BY DEF Init, PlacesOK
<1>3. TimesOK
  BY KeyAssumption DEF Init, TimesOK, NoTimer
<1>4. QED
  BY <1>1, <1>2, <1>3 DEF KeyTypeOK

(* Every action keeps the flags Boolean.                                   *)
LEMMA FlagsStep == ASSUME FlagsOK, [Next]_vars PROVE FlagsOK'
<1> USE DEF FlagsOK, chain, renewal, finish, clients
<1>1. CASE Start \/ TimerFires
  BY <1>1 DEF Start, TimerFires, Renew
<1>2. CASE Rotate \/ DoNotRotate \/ Revoke
  BY <1>2 DEF Rotate, DoNotRotate, Revoke, Answered
<1>3. CASE Renewed
  BY <1>3 DEF Renewed, Settle
<1>4. CASE Refused \/ GiveUp
  BY <1>4 DEF Refused, GiveUp, Finish, Settle
<1>5. CASE BackOff \/ TryAgain
  BY <1>5 DEF BackOff, TryAgain, Settle
<1>6. ASSUME NEW r \in Requests, Send(r) \/ Client(r)
      PROVE  FlagsOK'
  BY <1>6 DEF Send, Client, Answer, Retry, RenewAfterUnauthorized, TooLate, KeyWasReplaced,
              RenewSoon, RenewNow, Goes, Renew
<1>7. CASE End \/ PostEnd \/ EndAnswered
  BY <1>7 DEF End, PostEnd, EndAnswered
<1>9. CASE Tick
  BY <1>9 DEF Tick
<1>10. CASE UNCHANGED vars
  BY <1>10 DEF vars
<1>11. QED
  BY <1>1, <1>2, <1>3, <1>4, <1>5, <1>6, <1>7, <1>9, <1>10 DEF Next, RenewalStep

(* Every action leaves the renewal, the requests and end() at places of    *)
(* the code.                                                               *)
LEMMA PlacesStep == ASSUME PlacesOK, [Next]_vars PROVE PlacesOK'
<1> USE DEF PlacesOK, chain, renewal, finish, clients
<1>1. CASE Start \/ TimerFires
  BY <1>1 DEF Start, TimerFires, Renew
<1>2. CASE Rotate \/ DoNotRotate \/ Revoke
  BY <1>2 DEF Rotate, DoNotRotate, Revoke, Answered
<1>3. CASE Renewed
  BY <1>3 DEF Renewed, Settle
<1>4. CASE Refused \/ GiveUp
  BY <1>4 DEF Refused, GiveUp, Finish, Settle
<1>5. CASE BackOff \/ TryAgain
  BY <1>5 DEF BackOff, TryAgain, Settle
<1>6. ASSUME NEW r \in Requests, Send(r) \/ Client(r)
      PROVE  PlacesOK'
  <2>1. CASE Send(r) \/ Answer(r) \/ Retry(r)
    BY <2>1 DEF Send, Answer, Retry
  <2>2. CASE TooLate(r) \/ KeyWasReplaced(r) \/ RenewSoon(r)
    BY <2>2 DEF TooLate, KeyWasReplaced, RenewSoon, Goes
  <2>3. CASE RenewNow(r)
    BY <2>3 DEF RenewNow, Goes, Renew
  <2>4. QED
    BY <1>6, <2>1, <2>2, <2>3 DEF Client, RenewAfterUnauthorized
<1>7. CASE End \/ PostEnd \/ EndAnswered
  BY <1>7 DEF End, PostEnd, EndAnswered
<1>9. CASE Tick
  BY <1>9 DEF Tick
<1>10. CASE UNCHANGED vars
  BY <1>10 DEF vars
<1>11. QED
  BY <1>1, <1>2, <1>3, <1>4, <1>5, <1>6, <1>7, <1>9, <1>10 DEF Next, RenewalStep

(* Every action keeps the delays within their lengths.                     *)
LEMMA TimesStep == ASSUME TimesOK, [Next]_vars PROVE TimesOK'
<1> USE KeyAssumption DEF TimesOK, chain, renewal, finish, clients, NoTimer
<1>1. CASE Start \/ TimerFires
  BY <1>1 DEF Start, TimerFires, Renew
<1>2. CASE Rotate \/ DoNotRotate \/ Revoke
  BY <1>2 DEF Rotate, DoNotRotate, Revoke, Answered
<1>3. CASE Renewed
  BY <1>3 DEF Renewed, Settle, Due
<1>4. CASE Refused \/ GiveUp
  <2>1. PICK how : Finish(how)
    BY <1>4 DEF Refused, GiveUp
  <2>2. UNCHANGED <<left, since, wait>> /\ timer' = -1 /\ attempt' = 0
    BY <2>1 DEF Finish, Settle
  <2>3. QED
    BY <2>2
<1>5. CASE BackOff \/ TryAgain
  BY <1>5 DEF BackOff, TryAgain, Settle, MayRetry
<1>6. ASSUME NEW r \in Requests, Send(r) \/ Client(r)
      PROVE  TimesOK'
  BY <1>6 DEF Send, Client, Answer, Retry, RenewAfterUnauthorized, TooLate, KeyWasReplaced,
              RenewSoon, RenewNow, Goes, Renew
<1>7. CASE End \/ PostEnd \/ EndAnswered
  BY <1>7 DEF End, PostEnd, EndAnswered
<1>9. CASE Tick
  BY <1>9 DEF Tick, Less
<1>10. CASE UNCHANGED vars
  BY <1>10 DEF vars
<1>11. QED
  BY <1>1, <1>2, <1>3, <1>4, <1>5, <1>6, <1>7, <1>9, <1>10 DEF Next, RenewalStep

(* The three parts of the type invariant together.                         *)
LEMMA KeyTypeStep ==
  ASSUME KeyTypeOK, [Next]_vars
  PROVE  KeyTypeOK'
  BY FlagsStep, PlacesStep, TimesStep DEF KeyTypeOK

(* The state of the chain keeps its shape for any constants (KeyChainAuth, *)
(* every method).                                                          *)
THEOREM KeyTypeCorrect == Spec => []KeyTypeOK
  BY KeyTypeInit, KeyTypeStep, PTL DEF Spec

-----------------------------------------------------------------------------
(***************************************************************************)
(* The strengthening.  After end() went out no renewal runs but a late     *)
(* one; a key is on its way only while its answer is; the timer of a chain *)
(* that is not over, and is not set when the renewal ends, is set already  *)
(* and for a time before the key's end.                                    *)
(***************************************************************************)
EndWaits ==
  /\ stopped <=> ending # "none"
  /\ ending \notin {"none", "waiting"} /\ ~late => renewing = "none"
  /\ ending = "stale" => late

ComingIsAnswered == "coming" \in live => renewing = "answered" /\ reply = "ok"

SinceRenewal == since < MinInterval => left = Lifetime - since

TimerIsSet ==
  /\ timer # NoTimer => timer <= left
  /\ started /\ ~stopped /\ ended = "none" /\ ~(renewing # "none" /\ again) =>
       timer # NoTimer

KeyInv ==
  /\ KeyTypeOK
  /\ EndWaits /\ ComingIsAnswered /\ SinceRenewal /\ TimerIsSet
  /\ RetryCarriesNewerKey /\ EndLeavesNoKey

(* A new chain has not started, and owes nobody an answer or an end.       *)
LEMMA KeyInvInit == Init => KeyInv
  BY KeyTypeInit, KeyAssumption
     DEF Init, KeyInv, EndWaits, ComingIsAnswered, SinceRenewal, TimerIsSet, NoTimer,
         RetryCarriesNewerKey, EndLeavesNoKey

(* end() waits for the renewal under way before it asks the server, so no  *)
(* step leaves one beside it but a late one.                               *)
LEMMA EndWaitsStep ==
  ASSUME KeyInv, [Next]_vars
  PROVE  EndWaits' /\ ComingIsAnswered' /\ EndLeavesNoKey'
<1> USE DEF KeyInv, EndWaits, ComingIsAnswered, EndLeavesNoKey,
            chain, renewal, finish, clients
<1>1. CASE Start \/ TimerFires
  BY <1>1 DEF Start, TimerFires, Renew
<1>2. CASE Rotate \/ DoNotRotate \/ Revoke
  BY <1>2 DEF Rotate, DoNotRotate, Revoke, Answered
<1>3. CASE Renewed
  BY <1>3 DEF Renewed, Settle, KeyTypeOK
<1>4. CASE Refused \/ GiveUp
  <2>1. PICK how \in {"refused", "given up"} : Finish(how)
    BY <1>4 DEF Refused, GiveUp
  <2>2. ended' # "none" /\ renewing' = "none" /\ UNCHANGED <<live, stopped, ending, late>>
    BY <2>1 DEF Finish, Settle
  <2>3. "coming" \notin live
    BY <1>4 DEF Refused, GiveUp
  <2>4. QED
    BY <2>2, <2>3
<1>5. CASE BackOff \/ TryAgain
  BY <1>5 DEF BackOff, TryAgain, Settle
<1>6. ASSUME NEW r \in Requests, Send(r) \/ Client(r)
      PROVE  EndWaits' /\ ComingIsAnswered' /\ EndLeavesNoKey'
  BY <1>6 DEF Send, Client, Answer, Retry, RenewAfterUnauthorized, TooLate, KeyWasReplaced,
              RenewSoon, RenewNow, Goes, Renew
<1>7. CASE End \/ PostEnd
  BY <1>7 DEF End, PostEnd
<1>8. CASE EndAnswered
  BY <1>8 DEF EndAnswered, KeyTypeOK, PlacesOK
<1>9. CASE Tick
  BY <1>9 DEF Tick
<1>10. CASE UNCHANGED vars
  BY <1>10 DEF vars
<1>11. QED
  BY <1>1, <1>2, <1>3, <1>4, <1>5, <1>6, <1>7, <1>8, <1>9, <1>10 DEF Next, RenewalStep

(* Every action that takes the timer away from a chain that goes on, or    *)
(* moves it, leaves a renewal that will set it.                            *)
LEMMA TimerIsSetStep ==
  ASSUME KeyInv, [Next]_vars
  PROVE  SinceRenewal' /\ TimerIsSet'
<1> USE DEF KeyInv, SinceRenewal, TimerIsSet, chain, renewal, finish, clients
<1>1. CASE Start \/ TimerFires
  BY <1>1 DEF Start, TimerFires, Renew
<1>2. CASE Rotate \/ DoNotRotate \/ Revoke
  BY <1>2 DEF Rotate, DoNotRotate, Revoke, Answered
<1>3. CASE Renewed
  <2>1. left' = Lifetime /\ since' = 0 /\ UNCHANGED <<started, stopped, ended>>
    BY <1>3 DEF Renewed
  <2>2. renewing' = "none" /\ timer' = IF again /\ ~stopped THEN Due(Lifetime) ELSE timer
    BY <1>3 DEF Renewed, Settle
  <2>3. Due(Lifetime) # NoTimer /\ Due(Lifetime) <= Lifetime
    BY DueWithinLife, KeyAssumption DEF NoTimer
  <2>4. timer' # NoTimer => timer' <= left'
    BY <2>1, <2>2, <2>3, KeyAssumption DEF KeyTypeOK, TimesOK, NoTimer
  <2>5. QED
    BY <2>1, <2>2, <2>3, <2>4, KeyAssumption
<1>4. CASE Refused \/ GiveUp
  BY <1>4 DEF Refused, GiveUp, Finish, Settle
<1>5. CASE BackOff \/ TryAgain
  BY <1>5 DEF BackOff, TryAgain, Settle
<1>6. ASSUME NEW r \in Requests, Send(r) \/ Client(r)
      PROVE  SinceRenewal' /\ TimerIsSet'
  <2>1. CASE RenewSoon(r)
    BY <2>1, KeyAssumption DEF RenewSoon, Goes, KeyTypeOK, TimesOK, NoTimer
  <2>2. CASE RenewNow(r)
    <3>1. renewing = "none" \/ again' = again
      BY <2>2 DEF RenewNow, Renew, KeyTypeOK, FlagsOK
    <3>2. QED
      BY <2>2, <3>1 DEF RenewNow, Renew
  <2>3. CASE Send(r) \/ Answer(r) \/ TooLate(r) \/ KeyWasReplaced(r) \/ Retry(r)
    BY <2>3 DEF Send, Answer, TooLate, KeyWasReplaced, Retry
  <2>4. QED
    BY <1>6, <2>1, <2>2, <2>3 DEF Client, RenewAfterUnauthorized
<1>7. CASE End \/ PostEnd \/ EndAnswered
  BY <1>7 DEF End, PostEnd, EndAnswered
<1>8. CASE Tick
  BY <1>8, KeyAssumption DEF Tick, Less, KeyTypeOK, TimesOK, NoTimer
<1>9. CASE UNCHANGED vars
  BY <1>9 DEF vars
<1>10. QED
  BY <1>1, <1>2, <1>3, <1>4, <1>5, <1>6, <1>7, <1>8, <1>9 DEF Next, RenewalStep

(* A request is sent again only when its chain replaced the key.           *)
LEMMA RetryStep ==
  ASSUME KeyInv, [Next]_vars
  PROVE  RetryCarriesNewerKey'
<1> USE DEF KeyInv, RetryCarriesNewerKey, KeyTypeOK, PlacesOK, FlagsOK, chain, renewal, finish, clients
<1>1. CASE Renewed \/ Refused \/ GiveUp \/ BackOff \/ TryAgain
  BY <1>1 DEF Renewed, Refused, GiveUp, Finish, BackOff, TryAgain, Settle
<1>2. ASSUME NEW r \in Requests, Send(r) \/ Client(r)
      PROVE  RetryCarriesNewerKey'
  <2>1. CASE Send(r)
    BY <2>1 DEF Send
  <2>2. CASE Answer(r)
    BY <2>2 DEF Answer
  <2>3. CASE TooLate(r) \/ RenewSoon(r) \/ RenewNow(r)
    BY <2>3 DEF TooLate, RenewSoon, RenewNow, Goes
  <2>4. CASE KeyWasReplaced(r)
    BY <2>4 DEF KeyWasReplaced, Goes
  <2>5. CASE Retry(r)
    BY <2>5 DEF Retry
  <2>6. QED
    BY <1>2, <2>1, <2>2, <2>3, <2>4, <2>5 DEF Client, RenewAfterUnauthorized
<1>3. CASE UNCHANGED clients
  BY <1>3
<1>4. QED
  BY <1>1, <1>2, <1>3
     DEF Next, RenewalStep, Start, TimerFires, Rotate, DoNotRotate, Revoke, End, PostEnd,
         EndAnswered, Tick, vars

(* The inductive invariant of the chain.                                   *)
THEOREM KeyInvariant == Spec => []KeyInv
<1>1. KeyInv /\ [Next]_vars => KeyInv'
  BY KeyTypeStep, EndWaitsStep, TimerIsSetStep, RetryStep DEF KeyInv
<1>2. QED
  BY KeyInvInit, <1>1, PTL DEF Spec

(* authRetryingFetch sends a request again with a newer key only.          *)
THEOREM RetryIsNewer == Spec => []RetryCarriesNewerKey
  BY KeyInvariant, PTL DEF KeyInv

(* end() leaves no key behind that the harness could have ended.           *)
THEOREM EndIsComplete == Spec => []EndLeavesNoKey
  BY KeyInvariant, PTL DEF KeyInv

(* schedule(): no key of a chain that goes on expires without a renewal.   *)
THEOREM ExpiryIsForeseen == Spec => []ExpiredKeyIsBeingRenewed
<1>1. KeyInv => ExpiredKeyIsBeingRenewed
  BY KeyAssumption DEF KeyInv, KeyTypeOK, TimesOK, TimerIsSet, ExpiredKeyIsBeingRenewed, NoTimer
<1>2. QED
  BY KeyInvariant, <1>1, PTL
=============================================================================
