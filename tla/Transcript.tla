---- MODULE Transcript ----
(***************************************************************************)
(* The transcript of an agent's run (internal/transcript, adapter/record.go,*)
(* store/transcripts.go).  Each step of the agent asks with the whole      *)
(* conversation so far; the replica that serves it records the call before *)
(* it answers, as a delta against what the run's last row left.  A row may *)
(* be lost, a call the agent gave up on is recorded late beside its retry, *)
(* and replicas mask different secrets while one is being rotated.         *)
(*                                                                         *)
(* A message is known by its place in the conversation, since a message    *)
(* never changes once it was sent, and by what the mask made of it.        *)
(***************************************************************************)
EXTENDS Integers, Sequences

CONSTANTS Mask,      \* the replicas' secrets
          Secretive, \* the messages that hold the secret being rotated; 0 is the system prompt
          RunCap,    \* how much a run records, in messages
          TranscriptBounds

\* Steps of the agent, calls that fail, calls that are sent again.
TranscriptBound == [steps : Nat, faults : Nat, retries : Nat]

ASSUME TranscriptAssumption ==
    /\ Secretive \subseteq Nat /\ RunCap \in Nat /\ "plain" \notin Mask
    /\ TranscriptBounds \subseteq TranscriptBound

VARIABLES
    talk,  \* the agent's conversation: its length, and the call it waits for
    calls, \* every call made, by number
    rows,  \* model_calls of the run, by step
    slack  \* what may still happen

transcriptVars == <<talk, calls, rows, slack>>

\* What a mask makes of a message, and of a request.
Masked(n, m)  == <<n, IF n \in Secretive THEN m ELSE "plain">>
Request(c)    == [n \in 1..c.length |-> Masked(n, c.mask)]
Unrecorded    == [end |-> 0, sha |-> <<>>, system |-> <<>>, bytes |-> 0]
Recording     == {"record", "locked"}

TranscriptTypeOK ==
    /\ talk.length \in Nat \ {0} /\ talk.waits \in 0..Len(calls)
    /\ \A i \in DOMAIN calls : calls[i].at \in Recording \cup {"asked", "recorded", "over"} /\ calls[i].mask \in Mask
    /\ \A i \in DOMAIN rows : rows[i].from \in 0..rows[i].state.end /\ rows[i].truncated \in BOOLEAN
    /\ slack \in TranscriptBound

TranscriptInit ==
    /\ talk = [length |-> 1, waits |-> 0] /\ calls = <<>> /\ rows = <<>>
    /\ slack \in TranscriptBounds

Slack(what) == slack[what] > 0 /\ slack' = [slack EXCEPT ![what] = @ - 1]
CallAt(i, place) == calls' = [calls EXCEPT ![i].at = place]

-----------------------------------------------------------------------------
(* The agent and the replicas that serve its calls *)

Ask ==
    /\ \E m \in Mask : calls' = Append(calls, [length |-> talk.length, mask |-> m, at |-> "asked", prev |-> Unrecorded])
    /\ talk' = [talk EXCEPT !.waits = Len(calls) + 1]
    /\ UNCHANGED rows

SendStep == talk.waits = 0 /\ Slack("steps") /\ Ask

\* An answer that was not heard, or a transient failure: the same request
\* again, of whichever replica, while the first call goes on.
SendAgain == talk.waits # 0 /\ Slack("retries") /\ Ask

\* The provider answered, or failed.
StartRecord(i) ==
    /\ calls[i].at = "asked"
    /\ CallAt(i, "record") /\ UNCHANGED <<talk, rows, slack>>

StateNow == IF rows = <<>> THEN Unrecorded ELSE rows[Len(rows)].state

\* Without the run's lock.
ReadState(i) ==
    /\ calls[i].at = "record"
    /\ calls' = [calls EXCEPT ![i].at = "locked", ![i].prev = StateNow]
    /\ UNCHANGED <<talk, rows, slack>>

\* The lock of the run's transcript, and then what its last row left.
AgentState(i) ==
    /\ calls[i].at = "record" /\ \A j \in DOMAIN calls : calls[j].at # "locked"
    /\ calls' = [calls EXCEPT ![i].at = "locked", ![i].prev = StateNow]
    /\ UNCHANGED <<talk, rows, slack>>

LongerIsEnough(prev, req) == prev.end <= Len(req)

\* A request extends what was recorded when its first messages hash alike.
Extends(prev, req) == prev.end <= Len(req) /\ SubSeq(req, 1, prev.end) = prev.sha

\* The row of a call: the messages that are new, or all of them; the system
\* prompt when it changed; and neither in a run that recorded too much.
Delta(c) ==
    LET req    == Request(c)
        from   == IF Extends(c.prev, req) THEN c.prev.end ELSE 0
        system == Masked(0, c.mask)
        full   == c.prev.bytes > RunCap
        new    == IF full THEN <<>> ELSE SubSeq(req, from + 1, Len(req))
    IN [from |-> from, messages |-> new, truncated |-> full,
        system |-> IF full \/ system = c.prev.system THEN <<>> ELSE system,
        of |-> c, \* history
        state |-> [end |-> Len(req), sha |-> req, system |-> system, bytes |-> c.prev.bytes + Len(new)]]

\* The row is inserted, which ends the transaction and its lock.
InsertModelCall(i) ==
    /\ calls[i].at = "locked"
    /\ rows' = Append(rows, Delta(calls[i]))
    /\ CallAt(i, "recorded") /\ UNCHANGED <<talk, slack>>

\* The database is slow or gone: the row is lost, and the call goes on.
RecordFails(i) ==
    /\ calls[i].at \in Recording /\ Slack("faults")
    /\ CallAt(i, "recorded") /\ UNCHANGED <<talk, rows>>

\* The answer, which ends the run if it is a failure that is not transient;
\* otherwise the agent adds it and what its tools said.
Reply(i) ==
    /\ calls[i].at = "recorded"
    /\ CallAt(i, "over")
    /\ talk' = IF talk.waits = i THEN [length |-> talk.length + 1, waits |-> 0] ELSE talk
    /\ UNCHANGED <<rows, slack>>

ReplicaDies(i) ==
    /\ calls[i].at \in Recording \cup {"asked"} /\ Slack("faults")
    /\ CallAt(i, "over") /\ UNCHANGED <<talk, rows>>

TranscriptNext ==
    \/ SendStep \/ SendAgain
    \/ \E i \in DOMAIN calls :
          \/ StartRecord(i) \/ AgentState(i) \/ InsertModelCall(i)
          \/ RecordFails(i) \/ Reply(i) \/ ReplicaDies(i)

TranscriptSpec == TranscriptInit /\ [][TranscriptNext]_transcriptVars

-----------------------------------------------------------------------------
(* Properties *)

\* What Rebuild's reader has after each row: the conversation through it, and
\* the system prompt last shown.
Rebuilt[i \in 0 .. Len(rows)] ==
    IF i = 0 THEN [messages |-> <<>>, system |-> <<>>]
    ELSE LET before == Rebuilt[i - 1] IN
         [messages |-> SubSeq(before.messages, 1, rows[i].from) \o rows[i].messages,
          system   |-> IF rows[i].system = <<>> THEN before.system ELSE rows[i].system]

\* Read in the order of their steps, a run's rows give each call's request
\* and system prompt as its replica masked them (transcript.go), whatever
\* rows were lost before it, recorded late, or of a call sent twice; until
\* the run has recorded too much, after which no row has any.
TranscriptRebuilds ==
    \A i \in DOMAIN rows :
        IF rows[i].truncated THEN rows[i].messages = <<>> /\ \A j \in i..Len(rows) : rows[j].truncated
        ELSE Rebuilt[i] = [messages |-> Request(rows[i].of), system |-> Masked(0, rows[i].of.mask)]
====
