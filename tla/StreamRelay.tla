---------------------------- MODULE StreamRelay -----------------------------
(***************************************************************************)
(* One streamed turn from the upstream's answer to the client: the bun     *)
(* child (zen_bun_transport.py, forward.ts), the relay generator with its  *)
(* stall watchdog and close hook (StreamRelay in openai_http.py), the      *)
(* prefetch of the failover adapter (failover.py), the route's converter,  *)
(* and the lifecycle relay with its client watchdog (relay_stream in       *)
(* _pipeline.py).                                                          *)
(*                                                                         *)
(* Two generators stand behind each other, `outer` (relay_stream) and      *)
(* `inner` (StreamRelay.chunks).  A generator is closed by whoever         *)
(* consumes it, or, when nobody refers to it any more, by the interpreter, *)
(* which is a step of its own.  One that never ran has nothing to close.   *)
(***************************************************************************)
EXTENDS Naturals

CONSTANTS
    MaxChunks,   \* bound on the chunks the upstream sends
    Setups       \* the ways a turn may be served

(* bun: in a bun child, else through httpx; prefetch: the failover adapter *)
(* pulls the first chunk; closing: the route's converter closes what it    *)
(* wraps, as the masking of the chat route does.                           *)
Setup == [bun: BOOLEAN, prefetch: BOOLEAN, closing: BOOLEAN]

ASSUME RelayAssumption ==
    /\ MaxChunks \in Nat
    /\ Setups \subseteq Setup

VARIABLES
    setup,     \* how this turn is served
    left,      \* chunks the upstream may still send
    link,      \* the connection to the upstream
    child,     \* the bun process; loose when it is left to itself
    inner,     \* where StreamRelay.chunks stands
    held,      \* somebody still refers to it
    saw,       \* saw_finish and saw_done
    synth,     \* what the relay put on the wire itself
    reason,    \* end_reason; "unset" is None
    outcome,   \* what the close hook, or the exchange, released the lease with
    outer,     \* where relay_stream stands
    client,    \* the client's connection is up
    records    \* "stream ended" records written

relayVars == <<setup, left, link, child, inner, held, saw, synth, reason, outcome,
               outer, client, records>>
upstream == <<setup, left, link, child>>
wire == <<saw, synth, reason>>

-----------------------------------------------------------------------------

Outcomes == {"completed", "cut", "stalled", "interrupted", "disconnected", "transport"}

(* STREAM_OUTCOMES: the outcomes that count against the bucket.            *)
Blaming == {"stalled", "interrupted", "transport"}

RelayTypeOK ==
    /\ setup \in Setup
    /\ left \in 0..MaxChunks
    /\ link \in {"headers", "open", "silent", "broken", "ended"}
    /\ child \in {"none", "running", "loose", "gone"}
    /\ inner \in {"none", "unstarted", "waiting", "parked", "finish", "done", "closed"}
    /\ held \in BOOLEAN
    /\ saw \in [finish: BOOLEAN, done: BOOLEAN]
    /\ synth \in [finish: BOOLEAN, done: BOOLEAN]
    /\ reason \in Outcomes \cup {"unset"}
    /\ outcome \in Outcomes \cup {"unset"}
    /\ outer \in {"none", "pulling", "parked", "orphan", "ended"}
    /\ client \in BOOLEAN
    /\ records \in 0..2

RelayInit ==
    /\ setup \in Setups
    /\ left = MaxChunks
    /\ link = "headers"
    /\ child = IF setup.bun THEN "running" ELSE "none"
    /\ inner = "none"
    /\ held = TRUE
    /\ saw = [finish |-> FALSE, done |-> FALSE]
    /\ synth = [finish |-> FALSE, done |-> FALSE]
    /\ reason = "unset"
    /\ outcome = "unset"
    /\ outer = "none"
    /\ client = TRUE
    /\ records = 0

(* Fault: closing the response leaves the child to itself.                 *)
NotReaped == child

(* Closing the response kills the child (_BunResponse.aclose).             *)
Reaped == IF child = "running" THEN "gone" ELSE child

(* The end of the generator: the response is closed and the hook runs with *)
(* what _stream found out, or with "disconnected".                         *)
Closes ==
    /\ inner' = "closed"
    /\ child' = Reaped
    /\ outcome' = IF reason' = "unset" THEN "disconnected" ELSE reason'

(* Fault: every end of the lifecycle relay writes its record.              *)
RecordAgain(n) == n + 1

(* _log_ended: one record per stream.                                      *)
Record(n) == IF n = 0 THEN 1 ELSE n

-----------------------------------------------------------------------------
(* The exchange up to the response headers.                                *)

(* META with status 200: chat() returns the relay, the prefetch pulls it.  *)
HeadersArrive ==
    /\ link = "headers"
    /\ link' = "open"
    /\ inner' = IF setup.prefetch THEN "waiting" ELSE "unstarted"
    /\ UNCHANGED <<setup, left, child, held, wire, outcome, outer, client, records>>

(* No headers: the child could not be started, died, reported a failed     *)
(* fetch or ran into the deadline, and is terminated, or its META line     *)
(* could not be parsed, and it is not.  The exchange releases the lease.   *)
HeadersFail ==
    /\ link = "headers"
    /\ link' = "broken"
    /\ child' \in {Reaped, IF child = "running" THEN "loose" ELSE child}
    /\ inner' = "closed"
    /\ outcome' = "transport"
    /\ outer' = "ended"
    /\ UNCHANGED <<setup, left, held, wire, client, records>>

(* The deadline on the primary cancels chat() while it waits for META: the *)
(* lease is abandoned, and nobody terminates the child.                    *)
HeadersCancelled ==
    /\ link = "headers"
    /\ link' = "broken"
    /\ child' = IF child = "running" THEN "loose" ELSE child
    /\ inner' = "closed"
    /\ outcome' = "disconnected"
    /\ outer' = "ended"
    /\ UNCHANGED <<setup, left, held, wire, client, records>>

(* A child nobody waits for.  The event loop holds its transport, so the   *)
(* collector does not end it: it ends of itself, by the timers of          *)
(* forward.ts, or never when it still waits for the rest of its input.     *)
LooseChildEnds ==
    /\ child = "loose"
    /\ child' = "gone"
    /\ UNCHANGED <<setup, left, link, inner, held, wire, outcome, outer, client, records>>

-----------------------------------------------------------------------------
(* The relay waits for bytes.                                              *)

(* Handing a chunk over parks the lifecycle relay that pulled for it.      *)
HandsOver == outer' = IF outer = "pulling" THEN "parked" ELSE outer

ChunkArrives ==
    /\ inner = "waiting" /\ link = "open" /\ left > 0
    /\ left' = left - 1
    /\ \E f, d \in BOOLEAN :
          saw' = [finish |-> saw.finish \/ f, done |-> saw.done \/ d]
    /\ inner' = "parked"
    /\ HandsOver
    /\ UNCHANGED <<setup, link, child, held, synth, reason, outcome, client, records>>

(* Fault: a turn that was cut ends like one that is complete.              *)
AfterLoopAsItCame(found) ==
    /\ reason' = found
    /\ Closes
    /\ outer' = IF outer = "pulling" THEN "ended" ELSE outer
    /\ records' = IF outer = "pulling" THEN Record(records) ELSE records
    /\ UNCHANGED synth

(* The body is over, for the reason `found`: a missing terminal chunk and  *)
(* a missing [DONE] are put on the wire, then the generator ends.          *)
AfterLoop(found) ==
    /\ reason' = found
    /\ IF saw.finish /\ saw.done
       THEN /\ Closes
            /\ outer' = IF outer = "pulling" THEN "ended" ELSE outer
            /\ records' = IF outer = "pulling" THEN Record(records) ELSE records
            /\ UNCHANGED synth
       ELSE /\ inner' = IF saw.finish THEN "done" ELSE "finish"
            /\ synth' = [finish |-> ~saw.finish, done |-> saw.finish]
            /\ child' = Reaped
            /\ HandsOver
            /\ UNCHANGED <<outcome, records>>

(* End of file: the upstream finished, or closed too early.                *)
BodyEnds ==
    /\ inner = "waiting" /\ link = "open"
    /\ link' = "ended"
    /\ AfterLoop(IF saw.finish THEN "completed" ELSE "cut")
    /\ UNCHANGED <<setup, left, held, saw, client>>

(* Fault: the watchdog takes silence for the end of the body.              *)
StallsUnnoticed ==
    /\ inner = "waiting" /\ link = "open"
    /\ link' = "silent"
    /\ AfterLoop(IF saw.finish THEN "completed" ELSE "cut")
    /\ UNCHANGED <<setup, left, held, saw, client>>

(* The stall watchdog.                                                     *)
Stalls ==
    /\ inner = "waiting" /\ link = "open"
    /\ link' = "silent"
    /\ AfterLoop("stalled")
    /\ UNCHANGED <<setup, left, held, saw, client>>

(* The tunnel breaks.  httpx raises; a bun child says so on its stderr,    *)
(* which nobody reads, and ends its output.                                *)
LinkBreaks ==
    /\ inner = "waiting" /\ link = "open"
    /\ link' = "broken"
    /\ AfterLoop(IF ~setup.bun THEN "interrupted" ELSE IF saw.finish THEN "completed" ELSE "cut")
    /\ UNCHANGED <<setup, left, held, saw, client>>

(* The deadline on the first chunk: the cancelled generator runs its hook  *)
(* before the prefetch sets end_reason.                                    *)
PrefetchExpires ==
    /\ setup.prefetch /\ outer = "none" /\ inner = "waiting" /\ link = "open"
    /\ link' = "silent"
    /\ reason' = reason
    /\ Closes
    /\ outer' = "ended"
    /\ UNCHANGED <<setup, left, held, saw, synth, client, records>>

-----------------------------------------------------------------------------
(* The lifecycle relay pulls, parks while the client's socket takes the    *)
(* chunk, and pulls again.                                                 *)

Ready == inner \in {"unstarted", "parked", "finish", "done"}

(* The server asks for the body: a prefetched chunk is at hand.            *)
BodyStarts ==
    /\ outer = "none" /\ Ready /\ client
    /\ IF setup.prefetch
       THEN outer' = "parked" /\ UNCHANGED inner
       ELSE outer' = "pulling" /\ inner' = "waiting"
    /\ UNCHANGED <<upstream, held, wire, outcome, client, records>>

(* The client took the chunk: the relay goes on where it stood.            *)
ClientTakes ==
    /\ outer = "parked" /\ client /\ Ready
    /\ \/ /\ inner = "parked"
          /\ inner' = "waiting"
          /\ outer' = "pulling"
          /\ UNCHANGED <<child, synth, reason, outcome, records>>
       \/ /\ inner = "finish" /\ ~saw.done
          /\ inner' = "done"
          /\ synth' = [synth EXCEPT !.done = TRUE]
          /\ UNCHANGED <<child, reason, outcome, outer, records>>
       \/ /\ inner = "done" \/ (inner = "finish" /\ saw.done)
          /\ reason' = reason
          /\ Closes
          /\ outer' = "ended"
          /\ records' = Record(records)
          /\ UNCHANGED synth
    /\ UNCHANGED <<setup, left, link, held, saw, client>>

HangUp ==
    /\ client
    /\ client' = FALSE
    /\ UNCHANGED <<upstream, inner, held, wire, outcome, outer, records>>

(* The client is gone before the body was asked for: neither generator of  *)
(* the route ran, and the relay is dropped where it stands.                *)
ResponseAbandoned ==
    /\ outer = "none" /\ Ready /\ ~client
    /\ outer' = "ended"
    /\ held' = FALSE
    /\ UNCHANGED <<upstream, inner, wire, outcome, client, records>>

(* The response task is cancelled in an await of the relay, which unwinds  *)
(* both generators, or in the socket, which leaves both to the collector.  *)
ResponseCancelled ==
    /\ ~client
    /\ \/ /\ outer = "pulling"
          /\ reason' = reason
          /\ Closes
          /\ outer' = "ended"
          /\ records' = Record(records)
       \/ /\ outer = "parked"
          /\ outer' = "orphan"
          /\ UNCHANGED <<child, inner, reason, outcome, records>>
    /\ UNCHANGED <<setup, left, link, held, saw, synth, client>>

(* aclose() on what relay_stream relays: a closing converter closes the    *)
(* relay with it, another one drops it.                                    *)
CloseChunks ==
    IF inner = "closed" THEN UNCHANGED <<inner, child, outcome, reason, held>>
    ELSE IF setup.closing THEN reason' = reason /\ Closes /\ UNCHANGED held
    ELSE held' = FALSE /\ UNCHANGED <<inner, child, outcome, reason>>

(* The client watchdog: it writes the record, cancels the response task    *)
(* (the server then closes the connection), which leaves relay_stream to   *)
(* the collector, and closes what is relayed.                              *)
ClientStalls ==
    /\ outer = "parked"
    /\ outer' = "orphan"
    /\ records' = Record(records)
    /\ CloseChunks
    /\ client' = FALSE
    /\ UNCHANGED <<setup, left, link, saw, synth>>

CollectOuter ==
    /\ outer = "orphan"
    /\ outer' = "ended"
    /\ records' = Record(records)
    /\ CloseChunks
    /\ UNCHANGED <<setup, left, link, saw, synth, client>>

(* A dropped relay that had started is closed by the collector; one that   *)
(* had not has no finally to run.                                          *)
CollectInner ==
    /\ ~held /\ inner \notin {"closed", "unstarted"}
    /\ reason' = reason
    /\ Closes
    /\ UNCHANGED <<setup, left, link, held, saw, synth, outer, client, records>>

RelayNext ==
    \/ HeadersArrive \/ HeadersFail \/ HeadersCancelled \/ LooseChildEnds
    \/ ChunkArrives \/ BodyEnds \/ Stalls \/ LinkBreaks \/ PrefetchExpires
    \/ BodyStarts \/ ClientTakes \/ HangUp
    \/ ResponseAbandoned \/ ResponseCancelled \/ ClientStalls
    \/ CollectOuter \/ CollectInner

RelaySpec == RelayInit /\ [][RelayNext]_relayVars

(* A wait for bytes or headers ends (both have a deadline), a server asks  *)
(* for the body of a response or gives it up, a client that takes nothing  *)
(* is cut off by its watchdog, and the collector runs.  A loose child need *)
(* not end.                                                                *)
RelayFairSpec ==
    /\ RelaySpec
    /\ WF_relayVars(HeadersArrive \/ HeadersFail \/ HeadersCancelled)
    /\ WF_relayVars(ChunkArrives \/ BodyEnds \/ Stalls \/ LinkBreaks \/ PrefetchExpires)
    /\ WF_relayVars(BodyStarts \/ ResponseAbandoned)
    /\ WF_relayVars(ClientTakes \/ ResponseCancelled \/ ClientStalls)
    /\ WF_relayVars(CollectOuter)
    /\ WF_relayVars(CollectInner)

-----------------------------------------------------------------------------

(* However a streamed turn ends (complete, cut, stalled, broken, refused   *)
(* by a deadline, left by its client at any point) the hook runs, so the   *)
(* bucket gets its slot back, and the bun child of a response is killed    *)
(* (StreamRelay.chunks, _prefetch, relay_stream, _BunResponse), as long as *)
(* the first chunk is prefetched.  A child that had no response yet is not *)
(* in the promise: a cancelled exchange forgets it (HeadersCancelled).     *)
Settled == outcome # "unset" /\ child # "running"
LeaseComesBack == setup.prefetch => <>[]Settled

(* A client that stays to the end of the stream gets exactly one terminal  *)
(* chunk and one [DONE], whichever of them the upstream left out           *)
(* (StreamRelay._stream).                                                  *)
WireTerminated ==
    outer = "ended" /\ client /\ records = 1 =>
       /\ saw.finish # synth.finish
       /\ saw.done # synth.done

(* A response that was started leaves one "stream ended" record, although  *)
(* the watchdog and the end of the generator both write it                 *)
(* (relay_stream, _log_ended).                                             *)
OneRecord ==
    /\ records <= 1
    /\ outer = "ended" /\ outcome \in {"completed", "cut"} /\ client => records = 1

(* The state is well typed, and no end of a response is recorded twice.    *)
RelaySound == RelayTypeOK /\ OneRecord

(* Only an upstream that fell silent or broke off is held against the      *)
(* bucket, never a client that left or was slow, and a silence that the    *)
(* relay itself waited out is (STREAM_OUTCOMES).                           *)
BlameIsFair ==
    /\ outcome \in Blaming => link \in {"silent", "broken"}
    /\ link = "silent" => reason \in {"unset", "stalled"}

(* Documented: "the lease must be returned as a *failure* or the bucket's  *)
(* health would look fine after a stall" (FailoverAdapter._prefetch).      *)
StallBlamed == link = "silent" /\ outcome # "unset" => outcome \in Blaming

(* Documented: an "interrupted stream means the tunnel/upstream path       *)
(* stopped delivering" and counts against the bucket (STREAM_OUTCOMES).    *)
BreakBlamed ==
    link = "broken" /\ outcome \in {"completed", "cut"} => saw.finish

(* Documented: "completed" is "upstream sent a terminal finish_reason      *)
(* chunk" (openai_http.py).                                                *)
FinishedIsCompleted == outcome = "stalled" => ~saw.finish

(* Documented: the close hook "must fire even when the consumer abandons   *)
(* the stream (client disconnect)" (StreamRelay.chunks).                   *)
HookFires == <>(outcome # "unset")

(* Documented: "on client disconnect the inner generator is closed         *)
(* explicitly so the upstream response is released deterministically       *)
(* instead of waiting for GC" (relay_stream).                              *)
ClosedNotCollected == [][inner # "closed" /\ held /\ outer # "none" => held']_relayVars
=============================================================================
