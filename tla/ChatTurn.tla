------------------------------ MODULE ChatTurn ------------------------------
(***************************************************************************)
(* A turn of the assistant: ChatService (chat-service.ts) sends requests   *)
(* to the AI service, has ToolDispatcher (tool-dispatcher.ts) run the      *)
(* calls each answer asks for, one after another, and starts over with     *)
(* what the user said meanwhile.  PendingInteractions (pending-            *)
(* interactions.ts) keeps what waits for the user, EditGuard (edit-        *)
(* guard.ts) adds a message of its own at most once.  The user acts        *)
(* through the handlers of the extension (register.ts).                    *)
(*                                                                         *)
(* Turns interleave at every await; the user may speak, stop, decide or    *)
(* answer between any two steps.  The AI service is external: what it      *)
(* streams is any sequence of call frames and an end.  Messages are        *)
(* numbers, text and storage are left out.                                 *)
(***************************************************************************)
EXTENDS Integers, Sequences, FiniteSets, SequencesExt

CONSTANTS
  Turns,          \* turns the user starts
  Conversations,  \* conversations
  Placements,     \* which turn may belong to which: functions
  Kinds,          \* Kinds[c]: what call c may be
  MaxCalls,       \* MaxCalls[t]: calls the model makes in t (bounds the model)
  MaxInjects      \* MaxInjects[t]: messages the user adds to t (bounds the model)

(***************************************************************************)
(* A guarded call's category may be set to `ask'; a question waits for an  *)
(* answer; any other call returns by itself, refused or unknown ones too.  *)
(***************************************************************************)
Kind == {"free", "guarded", "question"}
Call == UNION {{t} \X (1..MaxCalls[t]) : t \in Turns}

ASSUME ChatAssumption ==
  /\ Placements \subseteq [Turns -> Conversations]
  /\ Kinds \in [Call -> SUBSET Kind]
  /\ MaxCalls \in [Turns -> Nat] /\ MaxInjects \in [Turns -> Nat]

VARIABLES
  conv,      \* the conversation of each turn
  pc,        \* where start() and runSubTurn are
  aborted,   \* the turn's abort signal
  inbox,     \* ChatService.injections: numbers of the messages, in order
  request,   \* what the next request carries: results of calls, messages
  calls,     \* the calls of the answer, not yet dispatched or done
  results,   \* toolMessages of this round
  step,      \* the first of calls: ready, asked or running
  nudged,    \* TurnRecord.nudged
  pending,   \* PendingInteractions.approvals and questions
  early,     \* PendingInteractions.early
  setting,   \* the permission of the guarded category
  kind, row, \* what each call is, and its status in the chat
  awaited,   \* calls the AI service has no result of (external)
  bubble,    \* the assistant's message in the chat is open
  ending,    \* whether the turn ended with its last answer or early
  told,      \* messages of the user sent on, in order
  verdict,   \* what the user last said of a call
  outcome,   \* whether a call ran
  cancelled  \* turns the user stopped or wrote past

turn    == <<pc, aborted, inbox, request, calls, results, step, nudged>>
waiting == <<pending, early>>
chat    == <<row, bubble>>
past    == <<ending, told, verdict, outcome, cancelled>>
vars == <<conv, turn, waiting, setting, kind, chat, awaited, past>>

NoRequest == [results |-> <<>>, texts |-> <<>>]

Init ==
  /\ conv \in Placements
  /\ pc = [t \in Turns |-> "idle"] /\ aborted = [t \in Turns |-> FALSE]
  /\ inbox = [t \in Turns |-> <<>>] /\ request = [t \in Turns |-> NoRequest]
  /\ calls = [t \in Turns |-> <<>>] /\ results = [t \in Turns |-> <<>>]
  /\ step = [t \in Turns |-> "ready"] /\ nudged = [t \in Turns |-> FALSE]
  /\ pending = {} /\ early = [c \in Call |-> "none"]
  /\ setting = "ask"
  /\ kind = [c \in Call |-> "none"] /\ row = [c \in Call |-> "none"]
  /\ awaited = [t \in Turns |-> <<>>] /\ bubble = [t \in Turns |-> FALSE]
  /\ ending = [t \in Turns |-> "none"] /\ told = [t \in Turns |-> <<>>]
  /\ verdict = [c \in Call |-> "none"] /\ outcome = [c \in Call |-> "none"]
  /\ cancelled = {}

-----------------------------------------------------------------------------
(* The turn is in ChatService.active.                                      *)
Active(t) == pc[t] \notin {"idle", "loading", "ended"}

Goto(t, place) == pc' = [pc EXCEPT ![t] = place]

(* Mutant of Finish: the last event is not sent.                           *)
FinishSilently(t, reason) ==
  /\ Goto(t, "ended")
  /\ ending' = [ending EXCEPT ![t] = reason]
  /\ aborted' = [aborted EXCEPT ![t] = FALSE] /\ nudged' = [nudged EXCEPT ![t] = FALSE]
  /\ UNCHANGED bubble

(***************************************************************************)
(* The last event of the sub-turn, `done' or `error', and the end of       *)
(* start(), which forgets the turn.                                        *)
(***************************************************************************)
Finish(t, reason) ==
  /\ Goto(t, "ended")
  /\ ending' = [ending EXCEPT ![t] = reason]
  /\ bubble' = [bubble EXCEPT ![t] = FALSE]
  /\ aborted' = [aborted EXCEPT ![t] = FALSE] /\ nudged' = [nudged EXCEPT ![t] = FALSE]

(***************************************************************************)
(* cancelWhere: approvals are denied, questions answered with nothing.     *)
(* calls holds numbers, so the call a turn waits for is the first of them. *)
(***************************************************************************)
First(t) == <<t, Head(calls[t])>>

Asking(t) == pc[t] = "tools" /\ step[t] = "asked" /\ First(t) \in pending

(* Mutant of Settled: a denial is dropped, its promise never resolved.     *)
SettledUnheard(ts, decision) ==
  /\ pending' = pending \ {First(t) : t \in ts}
  /\ step' = [t \in Turns |-> IF t \in ts /\ decision = "allow" THEN "running" ELSE step[t]]
  /\ UNCHANGED <<results, calls, outcome>>

(* The promise of a turn's first call settles: it runs, or its result is   *)
(* the refusal.                                                            *)
Settled(ts, decision) ==
  /\ pending' = pending \ {First(t) : t \in ts}
  /\ LET denied == {t \in ts : kind[First(t)] = "guarded" /\ decision = "deny"} IN
     /\ step' = [t \in Turns |-> IF t \in denied THEN "ready"
                                 ELSE IF t \in ts THEN "running" ELSE step[t]]
     /\ results' = [t \in Turns |-> IF t \in denied THEN Append(results[t], Head(calls[t]))
                                    ELSE results[t]]
     /\ calls' = [t \in Turns |-> IF t \in denied THEN Tail(calls[t]) ELSE calls[t]]
     /\ outcome' = [c \in Call |-> IF c \in {First(t) : t \in denied} THEN "denied"
                                   ELSE outcome[c]]

(* cancelInflightToolCalls: a row still in flight is shown as stopped.     *)
Stopped(status) == IF status \in {"approval", "running"} THEN "error" ELSE status

(* Mutant of Conversing: every conversation is cancelled.                  *)
ConversingAnywhere(t) == Turns

(* The turns of the conversation t belongs to.                             *)
Conversing(t) == {u \in Turns : conv[u] = conv[t]}

(***************************************************************************)
(* The user starts a turn: what waits in its conversation is cancelled,    *)
(* early decisions too.                                                    *)
(***************************************************************************)
Start(t) ==
  LET others == Conversing(t) IN
  /\ pc[t] = "idle"
  /\ Settled({u \in others : Asking(u)}, "deny")
  /\ early' = [c \in Call |-> IF c[1] \in others THEN "none" ELSE early[c]]
  /\ row' = [c \in Call |-> IF c[1] \in others THEN Stopped(row[c]) ELSE row[c]]
  /\ cancelled' = cancelled \cup {u \in Turns : conv[u] = conv[t] /\ Active(u)}
  /\ Goto(t, "loading") /\ bubble' = [bubble EXCEPT ![t] = TRUE]
  /\ UNCHANGED <<conv, aborted, inbox, request, nudged, setting, kind, awaited,
                 ending, told, verdict>>

(* The conversation is read, for its deployment; then the turn is active.  *)
Activate(t) ==
  /\ pc[t] = "loading" /\ Goto(t, "assembling")
  /\ UNCHANGED <<conv, aborted, inbox, request, calls, results, step, nudged, waiting,
                 setting, kind, chat, awaited, past>>

(***************************************************************************)
(* assembleMessages and, in a follow-up, turn-spawn; then the request goes *)
(* out.  The service has what it waited for when the results are all of    *)
(* them and in order.                                                      *)
(***************************************************************************)
Send(t, message) ==
  /\ awaited' = [awaited EXCEPT ![t] = IF message.results = @ THEN <<>> ELSE @]
  /\ told' = [told EXCEPT ![t] = @ \o message.texts]
  /\ request' = [request EXCEPT ![t] = NoRequest]
  /\ results' = [results EXCEPT ![t] = <<>>]
  /\ Goto(t, "streaming")

Assemble(t) ==
  /\ pc[t] = "assembling" /\ ~aborted[t]
  /\ Send(t, request[t])
  /\ bubble' = [bubble EXCEPT ![t] = TRUE]
  /\ UNCHANGED <<conv, aborted, inbox, calls, step, nudged, waiting, setting, kind, row,
                 ending, verdict, outcome, cancelled>>

(* Assembling fails, or the signal was given before the request.           *)
AssembleFails(t) ==
  /\ pc[t] = "assembling" \/ (pc[t] = "nudging" /\ aborted[t])
  /\ Finish(t, "early")
  /\ UNCHANGED <<conv, inbox, request, calls, results, step, waiting, setting, kind, row,
                 awaited, told, verdict, outcome, cancelled>>

-----------------------------------------------------------------------------
(* permissionFor: asked for again when the call is dispatched.             *)
Permission(c) == IF kind[c] = "guarded" THEN setting ELSE "always"

(* Mutant of Noted: a frame that repeats a call adds it again.             *)
NotedAgain(seq, n) == Append(seq, n)

(* pendingCalls: a call comes in several frames.                           *)
Noted(seq, n) == IF n \in Range(seq) THEN seq ELSE Append(seq, n)

(***************************************************************************)
(* A frame of a call: its first, which makes it known to both sides, or    *)
(* one that repeats it.  Every frame sets the status of its row.           *)
(***************************************************************************)
ReceiveCall(t, c, k) ==
  /\ pc[t] = "streaming" /\ c[1] = t
  /\ c[2] \in Range(calls[t]) \cup
       {n \in 1..MaxCalls[t] : \A m \in 1..n : kind[<<t, m>>] = "none" <=> m = n}
  /\ kind[c] \in {"none", k}
  /\ kind' = [kind EXCEPT ![c] = k]
  /\ calls' = [calls EXCEPT ![t] = Noted(@, c[2])]
  /\ awaited' = [awaited EXCEPT ![t] = IF kind[c] = "none" THEN Append(@, c[2]) ELSE @]
  /\ row' = [row EXCEPT ![c] = IF k = "guarded" /\ setting = "ask" THEN "approval"
                               ELSE "running"]
  /\ UNCHANGED <<conv, pc, aborted, inbox, request, results, step, nudged, waiting,
                 setting, bubble, past>>

(***************************************************************************)
(* The answer ends: what it ends with decides where the sub-turn goes. The *)
(* service stops after an answer without calls only (an assumption); calls *)
(* of one that is cut off are forgotten, by the service too.               *)
(***************************************************************************)
Drop(t) ==
  /\ calls' = [calls EXCEPT ![t] = <<>>]
  /\ awaited' = [awaited EXCEPT ![t] = <<>>]

StreamStops(t) ==
  /\ pc[t] = "streaming" /\ calls[t] = <<>>
  /\ Goto(t, IF inbox[t] = <<>> THEN "nudging" ELSE "closing")
  /\ UNCHANGED <<conv, aborted, inbox, request, calls, results, step, nudged, waiting,
                 setting, kind, chat, awaited, past>>

(* length, content_filter, and the error event of a stream.                *)
StreamCutOff(t) ==
  /\ pc[t] = "streaming" /\ Drop(t) /\ Goto(t, "cutOff")
  /\ UNCHANGED <<conv, aborted, inbox, request, results, step, nudged, waiting, setting,
                 kind, chat, past>>

(* The request is refused, or the connection lost for good, or the signal  *)
(* was given; frames that had arrived by then may still be handled.        *)
StreamThrows(t) ==
  /\ pc[t] = "streaming" /\ Drop(t)
  /\ Finish(t, "early")
  /\ UNCHANGED <<conv, inbox, request, results, step, waiting, setting, kind, row,
                 told, verdict, outcome, cancelled>>

StreamAsksForNothing(t) ==
  /\ pc[t] = "streaming" /\ calls[t] = <<>> /\ Finish(t, "early")
  /\ UNCHANGED <<conv, inbox, request, calls, results, step, waiting, setting, kind, row,
                 awaited, told, verdict, outcome, cancelled>>

BeginRound(t) ==
  /\ pc[t] = "streaming" /\ calls[t] # <<>> /\ Goto(t, "tools")
  /\ UNCHANGED <<conv, aborted, inbox, request, calls, results, step, nudged, waiting,
                 setting, kind, chat, awaited, past>>

(* stopNudge: errors a call made are sent back to the model, once.         *)
Nudge(t) ==
  /\ pc[t] = "nudging" /\ ~aborted[t] /\ ~nudged[t]
  /\ \E c \in Call : c[1] = t /\ outcome[c] = "ran"
  /\ nudged' = [nudged EXCEPT ![t] = TRUE]
  /\ Send(t, NoRequest)
  /\ UNCHANGED <<conv, aborted, inbox, calls, step, waiting, setting, kind, chat,
                 ending, verdict, outcome, cancelled>>

NoNudge(t) ==
  /\ pc[t] = "nudging" /\ Goto(t, "closing")
  /\ UNCHANGED <<conv, aborted, inbox, request, calls, results, step, nudged, waiting,
                 setting, kind, chat, awaited, past>>

(* Mutant of Drained: the queue is copied, not emptied.                    *)
DrainedAndKept(t, leftover) ==
  /\ request' = [request EXCEPT ![t] = [results |-> leftover, texts |-> inbox[t]]]
  /\ Goto(t, "assembling")
  /\ bubble' = [bubble EXCEPT ![t] = FALSE]
  /\ UNCHANGED inbox

(***************************************************************************)
(* A sub-turn ends at a queue boundary: all that is queued goes into the   *)
(* next, after the results that are left over.                             *)
(***************************************************************************)
Drained(t, leftover) ==
  /\ request' = [request EXCEPT ![t] = [results |-> leftover, texts |-> inbox[t]]]
  /\ inbox' = [inbox EXCEPT ![t] = <<>>]
  /\ Goto(t, "assembling")
  /\ bubble' = [bubble EXCEPT ![t] = FALSE]

(* The reply is stored, `done' sent.                                       *)
Close(t) ==
  /\ \/ pc[t] = "cutOff" /\ Finish(t, "early") /\ UNCHANGED <<inbox, request>>
     \/ pc[t] = "closing" /\ inbox[t] = <<>> /\ Finish(t, "stop")
                          /\ UNCHANGED <<inbox, request>>
     \/ pc[t] = "closing" /\ inbox[t] # <<>> /\ Drained(t, <<>>)
                          /\ UNCHANGED <<aborted, nudged, ending>>
  /\ UNCHANGED <<conv, calls, results, step, waiting, setting, kind, row, awaited,
                 told, verdict, outcome, cancelled>>

-----------------------------------------------------------------------------
(* dispatcher.run, up to where it waits or the tool runs.                  *)
DispatchFreely(t) ==
  /\ pc[t] = "tools" /\ calls[t] # <<>> /\ step[t] = "ready"
  /\ kind[First(t)] # "question" /\ Permission(First(t)) = "always"
  /\ step' = [step EXCEPT ![t] = "running"] /\ row' = [row EXCEPT ![First(t)] = "running"]
  /\ UNCHANGED <<conv, pc, aborted, inbox, request, calls, results, nudged, waiting,
                 setting, kind, bubble, awaited, past>>

Ask(t) ==
  LET c == First(t) IN
  /\ pc[t] = "tools" /\ calls[t] # <<>> /\ step[t] = "ready"
  /\ kind[c] = "question" \/ (Permission(c) = "ask" /\ early[c] = "none")
  /\ pending' = pending \cup {c} /\ step' = [step EXCEPT ![t] = "asked"]
  /\ row' = [row EXCEPT ![c] = IF kind[c] = "question" THEN "running" ELSE "approval"]
  /\ UNCHANGED <<conv, pc, aborted, inbox, request, calls, results, nudged, early,
                 setting, kind, bubble, awaited, past>>

(* requestApproval finds that the user has decided.                        *)
ConsumeEarly(t) ==
  LET c == First(t) IN
  /\ pc[t] = "tools" /\ calls[t] # <<>> /\ step[t] = "ready"
  /\ Permission(c) = "ask" /\ early[c] # "none"
  /\ early' = [early EXCEPT ![c] = "none"]
  /\ Settled({t}, early[c])
  /\ row' = [row EXCEPT ![c] = IF early[c] = "deny" THEN "error" ELSE "running"]
  /\ UNCHANGED <<conv, pc, aborted, inbox, request, nudged, setting, kind, bubble,
                 awaited, ending, told, verdict, cancelled>>

ToolReturns(t) ==
  /\ pc[t] = "tools" /\ step[t] = "running"
  /\ results' = [results EXCEPT ![t] = Append(@, Head(calls[t]))]
  /\ calls' = [calls EXCEPT ![t] = Tail(@)] /\ step' = [step EXCEPT ![t] = "ready"]
  /\ row' = [row EXCEPT ![First(t)] = "done"]
  /\ outcome' = [outcome EXCEPT ![First(t)] = "ran"]
  /\ UNCHANGED <<conv, pc, aborted, inbox, request, nudged, waiting, setting, kind, bubble,
                 awaited, ending, told, verdict, cancelled>>

(* After the last call: stop, give way to the user, or go on.              *)
EndRound(t) ==
  /\ pc[t] = "tools" /\ calls[t] = <<>>
  /\ \/ aborted[t] /\ Finish(t, "early")
        /\ UNCHANGED <<inbox, request, results, awaited, told>>
     \/ ~aborted[t] /\ inbox[t] # <<>> /\ Drained(t, results[t])
        /\ UNCHANGED <<aborted, nudged, results, awaited, told, ending>>
     \/ ~aborted[t] /\ inbox[t] = <<>>
        /\ Send(t, [results |-> results[t], texts |-> <<>>])
        /\ UNCHANGED <<aborted, inbox, nudged, bubble, ending>>
  /\ UNCHANGED <<conv, calls, step, waiting, setting, kind, row,
                 verdict, outcome, cancelled>>

-----------------------------------------------------------------------------
(* The user writes while the turn runs: dropped unless it is active.       *)
Accepted(t) == Len(inbox[t]) + Len(request[t].texts) + Len(told[t])

Inject(t) ==
  /\ Active(t) /\ Accepted(t) < MaxInjects[t]
  /\ inbox' = [inbox EXCEPT ![t] = Append(@, Accepted(t) + 1)]
  /\ UNCHANGED <<conv, pc, aborted, request, calls, results, step, nudged, waiting,
                 setting, kind, chat, awaited, past>>

(***************************************************************************)
(* The user stops the turn: cancelTurn, then abort, which finds no         *)
(* controller while the turn is loading.  Early decisions go only when     *)
(* something of the conversation was waiting.  The chat marks the calls    *)
(* in flight as stopped.                                                   *)
(***************************************************************************)
Stop(t) ==
  /\ pc[t] \notin {"idle", "ended"}
  /\ early' = [c \in Call |-> IF Asking(t) /\ conv[c[1]] = conv[t] THEN "none"
                              ELSE early[c]]
  /\ Settled(IF Asking(t) THEN {t} ELSE {}, "deny")
  /\ aborted' = [aborted EXCEPT ![t] = @ \/ Active(t)]
  /\ row' = [c \in Call |-> IF c[1] = t THEN Stopped(row[c]) ELSE row[c]]
  /\ cancelled' = cancelled \cup {t}
  /\ UNCHANGED <<conv, pc, inbox, request, nudged, setting, kind, bubble, awaited,
                 ending, told, verdict>>

(* The action bar shows the first call of a turn that waits for approval.  *)
Shown(c) ==
  /\ row[c] = "approval"
  /\ \A n \in 1..(c[2] - 1) : row[<<c[1], n>>] # "approval"

(* decide: settles the approval that waits, or is kept for it.  `Always'   *)
(* sets the permission first.                                              *)
Decide(c, decision) ==
  /\ Shown(c) /\ pc[c[1]] # "ended"
  /\ verdict' = [verdict EXCEPT ![c] = IF decision = "deny" THEN "deny" ELSE "allow"]
  /\ setting' = IF decision = "always" THEN "always" ELSE setting
  /\ IF c \in pending
     THEN /\ Settled({c[1]}, verdict'[c]) /\ UNCHANGED early
          /\ row' = [row EXCEPT ![c] = IF decision = "deny" THEN "error" ELSE "running"]
     ELSE /\ early' = [early EXCEPT ![c] = verdict'[c]]
          /\ UNCHANGED <<pending, step, results, calls, outcome, row>>
  /\ UNCHANGED <<conv, pc, aborted, inbox, request, nudged, kind, bubble, awaited,
                 ending, told, cancelled>>

Answer(c) ==
  /\ c \in pending /\ kind[c] = "question"
  /\ Settled({c[1]}, "allow")
  /\ UNCHANGED <<conv, pc, aborted, inbox, request, nudged, early, setting, kind, chat,
                 awaited, ending, told, verdict, cancelled>>

-----------------------------------------------------------------------------
StreamEnds(t) ==
  \/ StreamStops(t) \/ StreamCutOff(t) \/ StreamThrows(t) \/ StreamAsksForNothing(t)
  \/ BeginRound(t)

Harness(t) ==
  \/ Activate(t) \/ Assemble(t) \/ AssembleFails(t)
  \/ Nudge(t) \/ NoNudge(t) \/ Close(t)
  \/ DispatchFreely(t) \/ Ask(t) \/ ConsumeEarly(t) \/ ToolReturns(t) \/ EndRound(t)

Responds(t) ==
  \E c \in Call : c[1] = t /\ (Answer(c) \/ \E d \in {"allow", "deny", "always"} : Decide(c, d))

Next ==
  \E t \in Turns :
    \/ Start(t) \/ Inject(t) \/ Stop(t) \/ Responds(t)
    \/ \E c \in Call : \E k \in Kinds[c] : ReceiveCall(t, c, k)
    \/ StreamEnds(t) \/ Harness(t)

Spec == Init /\ [][Next]_vars

(***************************************************************************)
(* The event loop runs what can run, of one turn or another: tools return  *)
(* (they have timeouts), an answer of the service ends.  The user responds *)
(* to what waits for them.                                                 *)
(***************************************************************************)
FairSpec ==
  /\ Spec
  /\ WF_vars(\E t \in Turns : Harness(t) \/ StreamEnds(t))
  /\ WF_vars(pending # {} /\ (\E t \in Turns : Responds(t)) /\ pending' # pending)

-----------------------------------------------------------------------------
Numbers(t) == Seq(1..MaxCalls[t])

(* The state of turns, calls and chat; a turn waits only while its first   *)
(* call is with the user.                                                  *)
ChatTypeOK ==
  /\ conv \in [Turns -> Conversations]
  /\ pc \in [Turns -> {"idle", "loading", "assembling", "streaming", "nudging", "closing",
                       "cutOff", "tools", "ended"}]
  /\ aborted \in [Turns -> BOOLEAN] /\ nudged \in [Turns -> BOOLEAN]
  /\ step \in [Turns -> {"ready", "asked", "running"}]
  /\ \A t \in Turns : calls[t] \in Numbers(t) /\ results[t] \in Numbers(t)
                      /\ awaited[t] \in Numbers(t)
  /\ \A t \in Turns : step[t] # "ready" => pc[t] = "tools" /\ calls[t] # <<>>
  /\ pending = {First(t) : t \in {u \in Turns : step[u] = "asked"}}
  /\ early \in [Call -> {"none", "allow", "deny"}]
  /\ setting \in {"ask", "always"}
  /\ kind \in [Call -> Kind \cup {"none"}]
  /\ row \in [Call -> {"none", "approval", "running", "done", "error"}]
  /\ bubble \in [Turns -> BOOLEAN]

(***************************************************************************)
(* The service gets a result for every call of its answer, once and in     *)
(* order, with the next request of the turn, whatever is queued meanwhile  *)
(* ("a clean assistant(tool_calls), tool(results), user sequence",         *)
(* chat-service.ts:632-640).                                               *)
(***************************************************************************)
EveryCallIsAnswered ==
  \A t \in Turns :
    /\ pc[t] = "streaming" => awaited[t] = calls[t]
    /\ pc[t] = "tools" => awaited[t] = results[t] \o calls[t]

(***************************************************************************)
(* What the user adds to a running turn reaches the model once, in the     *)
(* order written; a turn that ends by stop leaves nothing in the queue.    *)
(* (chat-service.ts, inject and the drain of start.)                       *)
(***************************************************************************)
InjectionsReachTheModel ==
  \A t \in Turns :
    /\ told[t] \o request[t].texts \o inbox[t] = [n \in 1..Accepted(t) |-> n]
    /\ ending[t] = "stop" => Len(told[t]) = Accepted(t)

(***************************************************************************)
(* A guarded call runs only if the user allowed it or allowed all, and a   *)
(* call is denied by the user, or because its turn was stopped or its      *)
(* conversation written to, never for what happens in another one          *)
(* (tool-dispatcher.ts, run, with decisions early or late; "The VS Code    *)
(* extension used to deny every pending approval in every conversation",   *)
(* pending-interactions.ts:18-24).                                         *)
(***************************************************************************)
CallsFollowTheUser ==
  \A c \in Call :
    /\ kind[c] = "guarded" /\ outcome[c] = "ran" => (verdict[c] = "allow" \/ setting = "always")
    /\ outcome[c] = "denied" => (verdict[c] = "deny" \/ c[1] \in cancelled)

(***************************************************************************)
(* Every message of the assistant opened in the chat is closed by `done'   *)
(* or `error' before the next one is opened, and when the turn is over; a  *)
(* request goes out only with one open (chat-service.ts, turn-spawn and    *)
(* the exits of runSubTurn).                                               *)
(***************************************************************************)
BubblesAreClosed ==
  \A t \in Turns :
    /\ (pc[t] \in {"idle", "ended"} \/ request[t].texts # <<>>) => ~bubble[t]
    /\ pc[t] \notin {"idle", "assembling", "ended"} => bubble[t]

(* The invariant the run checks: the state of turns, and their messages in *)
(* the chat (chat-service.ts, runSubTurn).                                 *)
ChatOK == ChatTypeOK /\ BubblesAreClosed

(* A turn that was started ends, when the user responds to what it asks.   *)
TurnEnds == \A t \in Turns : pc[t] = "loading" ~> pc[t] = "ended"

=============================================================================
